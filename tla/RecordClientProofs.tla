------------------------- MODULE RecordClientProofs -------------------------
(***************************************************************************)
(* Proofs about RecordClient: ClientInv holds in every reachable state, for *)
(* any records, accounts, calls in flight and bounds.                      *)
(*                                                                         *)
(* A step changes at most one call.  Which requests poll a record and      *)
(* which load its image (Gets, Loads) is therefore settled by what that    *)
(* call was before and is after (LEMMA OneCall); the rest of each proof is *)
(* about the refs and the history.                                         *)
(***************************************************************************)
EXTENDS RecordClient, TLAPS

CallsType == calls \in [Slots -> Call \cup {Idle}]

-----------------------------------------------------------------------------
(* Functions and calls.                                                    *)

LEMMA PartialIs ==
  ASSUME NEW D, NEW R, NEW f
  PROVE  f \in Partial(D, R) <=> DOMAIN f \subseteq D /\ f \in [DOMAIN f -> R]
<1>1. ASSUME f \in Partial(D, R) PROVE DOMAIN f \subseteq D /\ f \in [DOMAIN f -> R]
  <2>1. PICK S \in SUBSET D : f \in [S -> R]
    BY <1>1 DEF Partial
  <2> QED
    BY <2>1
<1>2. ASSUME DOMAIN f \subseteq D, f \in [DOMAIN f -> R] PROVE f \in Partial(D, R)
  BY <1>2 DEF Partial
<1> QED
  BY <1>1, <1>2

LEMMA EmptyIs == ASSUME NEW R PROVE Empty \in Partial(Ids, R)
  BY DEF Empty, Partial

LEMMA OneIs ==
  ASSUME NEW i \in Ids, NEW R, NEW d \in R
  PROVE  One(i, d) \in Partial(Ids, R) /\ DOMAIN One(i, d) = {i}
<1>1. DOMAIN One(i, d) = {i} /\ One(i, d) \in [{i} -> R]
  BY DEF One
<1> QED
  BY <1>1, PartialIs

\* A call is no longer, or not yet, open when it is idle, and kinds tell calls apart.
LEMMA IdleIs == Idle \notin Call /\ Idle.kind = "none" /\ "none" \notin Kinds
  BY DEF Idle, Call, Kinds

LEMMA GetsAre ==
  ASSUME NEW c \in Slots, NEW i
  PROVE  /\ c \in Gets(i)  <=> calls[c].kind = "get" /\ calls[c].id = i
         /\ c \in Loads(i) <=> calls[c].kind = "image" /\ calls[c].id = i
  BY DEF Gets, Loads, Open, Idle

\* What one call becomes decides which requests poll a record, and which load its image.
LEMMA OneCall ==
  ASSUME CallsType, NEW c \in Slots, NEW new, calls' = [calls EXCEPT ![c] = new]
  PROVE  \A i :
    /\ Gets(i)'  = (Gets(i) \ {c}) \cup (IF new.kind = "get" /\ new.id = i THEN {c} ELSE {})
    /\ Loads(i)' = (Loads(i) \ {c}) \cup (IF new.kind = "image" /\ new.id = i THEN {c} ELSE {})
  BY DEF CallsType, Gets, Loads, Open, Idle

\* A call that ReplyInv has nothing to say against.
Good(k) ==
    /\ k \in Call
    /\ k.kind \in {"get", "image", "retry", "update", "delete"} => k.id \in Ids
    /\ k.phase = "done" => /\ k.kind \in {"get", "retry", "update"} => k.id \in DOMAIN k.dtos
                           /\ k.kind = "create" => DOMAIN k.dtos # {}

LEMMA GoodCalls ==
  (CallsType /\ ReplyInv) <=> calls \in [Slots -> Call \cup {Idle}]
                              /\ \A c \in Slots : calls[c] = Idle \/ Good(calls[c])
  BY DEF CallsType, ReplyInv, Good, Open

LEMMA GoodChange ==
  ASSUME CallsType, ReplyInv, NEW c \in Slots, NEW new, new = Idle \/ Good(new),
         calls' = [calls EXCEPT ![c] = new]
  PROVE  CallsType' /\ ReplyInv'
<1>1. new \in Call \cup {Idle}
  BY DEF Good
<1>2. calls' \in [Slots -> Call \cup {Idle}]
  BY <1>1 DEF CallsType
<1>3. ASSUME NEW d \in Slots PROVE calls'[d] = Idle \/ Good(calls'[d])
  BY <1>3, GoodCalls DEF CallsType
<1> QED
  BY <1>2, <1>3 DEF CallsType, ReplyInv, Good, Open

LEMMA RequestIs ==
  ASSUME user \in Accounts \cup {NoUser}, NEW k \in Kinds, NEW i \in Ids \cup {NoId}, NEW fav \in BOOLEAN,
         k \in {"get", "image", "retry", "update", "delete"} => i \in Ids
  PROVE  /\ Good(Request(k, i, fav))
         /\ Request(k, i, fav).kind = k /\ Request(k, i, fav).id = i /\ Request(k, i, fav) # Idle
  BY EmptyIs, IdleIs DEF Good, Request, Call

\* The server's answer: done with what it holds, or failed.
LEMMA AnswerIs ==
  ASSUME CallsType, ReplyInv, NEW c \in Slots, Open(c), NEW dtos \in Partial(Ids, Dto),
         \/ Refuse(c)
         \/ /\ Respond(c, dtos)
            /\ calls[c].kind \in {"get", "retry", "update"} => calls[c].id \in DOMAIN dtos
            /\ calls[c].kind = "create" => DOMAIN dtos # {}
  PROVE  \E new : /\ Good(new) /\ new # Idle /\ calls' = [calls EXCEPT ![c] = new]
                  /\ new.kind = calls[c].kind /\ new.id = calls[c].id
<1>1. Good(calls[c])
  BY GoodCalls DEF Open
<1>2. CASE /\ Respond(c, dtos)
           /\ calls[c].kind \in {"get", "retry", "update"} => calls[c].id \in DOMAIN dtos
           /\ calls[c].kind = "create" => DOMAIN dtos # {}
  <2> DEFINE new == [calls[c] EXCEPT !.phase = "done", !.dtos = dtos]
  <2>1. calls' = [calls EXCEPT ![c] = new]
    BY <1>2 DEF Respond, CallsType
  <2>2. Good(new) /\ new.kind = calls[c].kind /\ new.id = calls[c].id
    BY <1>1, <1>2 DEF Good, Call
  <2>3. new # Idle
    BY <2>2, IdleIs DEF Good
  <2> QED
    BY <2>1, <2>2, <2>3
<1>3. CASE Refuse(c)
  <2> DEFINE new == [calls[c] EXCEPT !.phase = "failed"]
  <2>1. calls' = [calls EXCEPT ![c] = new]
    BY <1>3 DEF Refuse, CallsType
  <2>2. Good(new) /\ new.kind = calls[c].kind /\ new.id = calls[c].id
    BY <1>1 DEF Good, Call
  <2>3. new # Idle
    BY <2>2, IdleIs DEF Good
  <2> QED
    BY <2>1, <2>2, <2>3
<1> QED
  BY <1>2, <1>3

-----------------------------------------------------------------------------
(* The server.                                                             *)

\* How the server and the network change a call: it stays what it was, with an answer.
AnsweredCall(c) ==
    \E new \in Call :
        /\ Good(new) /\ new # Idle /\ calls' = [calls EXCEPT ![c] = new]
        /\ calls[c] # Idle /\ new.kind = calls[c].kind /\ new.id = calls[c].id

LEMMA ServeStep ==
  ASSUME TypeOK, ReplyInv, NEW c \in Slots, Serve(c)
  PROVE  AnsweredCall(c) /\ rows' \in [Ids -> Row]
<1> USE DEF TypeOK, CallsType
<1>0. \A d \in Slots : Open(d) => Good(calls[d])
  BY GoodCalls DEF Open
<1>d. \A u \in Accounts \cup {NoUser}, i \in Ids : Exists(i, u) => DtoOf(rows[i]) \in Dto
  BY DEF Exists, DtoOf, Row, Dto
<1>o. \A i \in Ids, d \in Dto : One(i, d) \in Partial(Ids, Dto) /\ DOMAIN One(i, d) = {i}
  BY OneIs
<1>e. Empty \in Partial(Ids, Dto)
  BY EmptyIs
<1>1. CASE ServeGet(c)
  <2>1. Open(c) /\ calls[c].kind = "get" /\ calls[c].id \in Ids /\ calls[c].by \in Accounts \cup {NoUser}
    BY <1>1, <1>0 DEF ServeGet, Pending, Good, Call
  <2>2. CASE Exists(calls[c].id, calls[c].by)
    <3> DEFINE dtos == One(calls[c].id, DtoOf(rows[calls[c].id]))
    <3>1. dtos \in Partial(Ids, Dto) /\ calls[c].id \in DOMAIN dtos
      BY <2>1, <2>2, <1>d, <1>o
    <3>2. Respond(c, dtos)
      BY <1>1, <2>2 DEF ServeGet
    <3> HIDE DEF dtos
    <3> QED
      BY <1>1, <2>1, <3>1, <3>2, AnswerIs DEF AnsweredCall, ServeGet, serverVars, Good, Open
  <2>3. CASE ~Exists(calls[c].id, calls[c].by)
    <3>1. Refuse(c)
      BY <1>1, <2>3 DEF ServeGet
    <3> QED
      BY <1>1, <2>1, <3>1, <1>e, AnswerIs DEF AnsweredCall, ServeGet, serverVars, Good, Open
  <2> QED
    BY <2>2, <2>3
<1>2. CASE ServeList(c)
  <2>1. Open(c) /\ calls[c].kind \in {"list", "hydrate"} /\ calls[c].by \in Accounts \cup {NoUser}
    BY <1>2, <1>0 DEF ServeList, Pending, Good, Call
  <2>2. PICK S \in SUBSET Own(calls[c].by) : Respond(c, [i \in S |-> DtoOf(rows[i])])
    BY <1>2 DEF ServeList
  <2> DEFINE dtos == [i \in S |-> DtoOf(rows[i])]
  <2>3. dtos \in Partial(Ids, Dto)
    BY <2>1, <1>d DEF Own, Partial
  <2>4. Respond(c, dtos)
    BY <2>2
  <2> HIDE DEF dtos
  <2> QED
    BY <1>2, <2>1, <2>3, <2>4, AnswerIs DEF AnsweredCall, ServeList, serverVars, Good, Open
<1>3. CASE ServeCreate(c)
  <2>1. Open(c) /\ calls[c].kind = "create" /\ calls[c].by \in Accounts \cup {NoUser}
    BY <1>3, <1>0 DEF ServeCreate, Pending, Good, Call
  <2>2. CASE Refuse(c) /\ UNCHANGED rows
    BY <2>1, <2>2, <1>e, AnswerIs DEF AnsweredCall, Good, Open
  <2>3. ASSUME NEW i \in Ids,
               rows' = [rows EXCEPT ![i] = [owner |-> calls[c].by, status |-> "waiting", favorite |-> FALSE]],
               Respond(c, One(i, DtoOf([owner |-> calls[c].by, status |-> "waiting", favorite |-> FALSE])))
        PROVE  AnsweredCall(c) /\ rows' \in [Ids -> Row]
    <3> DEFINE row == [owner |-> calls[c].by, status |-> "waiting", favorite |-> FALSE]
               dtos == One(i, DtoOf(row))
    <3>1. row \in Row /\ DtoOf(row) \in Dto
      BY <2>1 DEF Row, Statuses, Dto, DtoOf
    <3>2. dtos \in Partial(Ids, Dto) /\ DOMAIN dtos # {}
      BY <3>1, <1>o
    <3>3. rows' \in [Ids -> Row]
      BY <2>3, <3>1
    <3>4. Respond(c, dtos)
      BY <2>3
    <3> HIDE DEF dtos
    <3> QED
      BY <2>1, <3>2, <3>3, <3>4, AnswerIs DEF AnsweredCall, Good, Open
  <2> QED
    BY <1>3, <2>2, <2>3 DEF ServeCreate
<1>4. CASE ServeRetry(c) \/ ServeUpdate(c)
  <2>1. /\ Open(c) /\ calls[c].kind \in {"retry", "update"} /\ calls[c].id \in Ids
        /\ calls[c].by \in Accounts \cup {NoUser} /\ calls[c].favorite \in BOOLEAN
    BY <1>4, <1>0 DEF ServeRetry, ServeUpdate, Pending, Good, Call
  <2>2. CASE Refuse(c) /\ UNCHANGED rows
    BY <2>1, <2>2, <1>e, AnswerIs DEF AnsweredCall, Good, Open
  <2>3. ASSUME NEW row \in Row, DtoOf(row) \in Dto, rows' = [rows EXCEPT ![calls[c].id] = row],
               Respond(c, One(calls[c].id, DtoOf(row)))
        PROVE  AnsweredCall(c) /\ rows' \in [Ids -> Row]
    <3> DEFINE dtos == One(calls[c].id, DtoOf(row))
    <3>1. dtos \in Partial(Ids, Dto) /\ calls[c].id \in DOMAIN dtos
      BY <2>1, <2>3, <1>o
    <3>2. rows' \in [Ids -> Row]
      BY <2>1, <2>3
    <3>3. Respond(c, dtos)
      BY <2>3
    <3> HIDE DEF dtos
    <3> QED
      BY <2>1, <3>1, <3>2, <3>3, AnswerIs DEF AnsweredCall, Good, Open
  <2>4. ASSUME Exists(calls[c].id, calls[c].by), ~Refuse(c) \/ rows' # rows, ServeRetry(c)
        PROVE  AnsweredCall(c) /\ rows' \in [Ids -> Row]
    <3> DEFINE row == [rows[calls[c].id] EXCEPT !.status = "waiting"]
    <3>1. row \in Row /\ DtoOf(row) \in Dto
      BY <2>1 DEF Row, Statuses, Dto, DtoOf
    <3>2. rows' = [rows EXCEPT ![calls[c].id] = row] /\ Respond(c, One(calls[c].id, DtoOf(row)))
      BY <2>1, <2>4 DEF ServeRetry
    <3> HIDE DEF row
    <3> QED
      BY <2>3, <3>1, <3>2
  <2>5. ASSUME Exists(calls[c].id, calls[c].by), ServeUpdate(c)
        PROVE  AnsweredCall(c) /\ rows' \in [Ids -> Row]
    <3> DEFINE row == [rows[calls[c].id] EXCEPT !.favorite = calls[c].favorite]
    <3>1. row \in Row /\ DtoOf(row) \in Dto
      BY <2>1, <2>5 DEF Row, Statuses, Dto, DtoOf, Exists
    <3>2. rows' = [rows EXCEPT ![calls[c].id] = row] /\ Respond(c, One(calls[c].id, DtoOf(row)))
      BY <2>1, <2>5 DEF ServeUpdate
    <3> HIDE DEF row
    <3> QED
      BY <2>3, <3>1, <3>2
  <2> QED
    BY <1>4, <2>2, <2>4, <2>5 DEF ServeRetry, ServeUpdate
<1>5. CASE ServeDelete(c) \/ ServeImage(c)
  <2>1. Open(c) /\ calls[c].kind \in {"delete", "image"} /\ calls[c].id \in Ids
    BY <1>5, <1>0 DEF ServeDelete, ServeImage, Pending, Good, Call
  <2>2. Respond(c, Empty) \/ Refuse(c)
    BY <1>5 DEF ServeDelete, ServeImage
  <2>3. rows' \in [Ids -> Row]
    BY <1>5, <2>1 DEF ServeDelete, ServeImage, serverVars, Row
  <2> QED
    BY <2>1, <2>2, <2>3, <1>e, AnswerIs DEF AnsweredCall, Good, Open
<1> QED
  BY <1>1, <1>2, <1>3, <1>4, <1>5 DEF Serve

LEMMA LoseStep ==
  ASSUME TypeOK, ReplyInv, NEW c \in Slots, Lose(c)
  PROVE  AnsweredCall(c)
<1>1. Open(c) /\ Refuse(c)
  BY DEF Lose
<1> QED
  BY <1>1, EmptyIs, AnswerIs DEF TypeOK, CallsType, AnsweredCall, Good, Open

-----------------------------------------------------------------------------
(* Types and answers.                                                      *)

LEMMA ReplyIs ==
  ASSUME TypeOK, ReplyInv, NEW c \in Slots, NEW k \in Kinds, Answered(c, k)
  PROVE  /\ Good(calls[c]) /\ calls[c].kind = k /\ calls[c].dtos \in Partial(Ids, Dto)
         /\ k \in {"get", "image", "retry", "update", "delete"} => calls[c].id \in Ids
         /\ (k \in {"get", "retry", "update"} /\ Succeeded(c)) => calls[c].dtos[calls[c].id] \in Dto
<1>1. Good(calls[c]) /\ calls[c].kind = k /\ calls[c].dtos \in Partial(Ids, Dto)
  BY GoodCalls DEF Answered, Open, TypeOK, CallsType, Good, Call
<1>2. calls[c].dtos \in [DOMAIN calls[c].dtos -> Dto]
  BY <1>1, PartialIs
<1> QED
  BY <1>1, <1>2 DEF Good, Succeeded

LEMMA ClosedOK ==
  ASSUME TypeOK, ReplyInv, NEW c \in Slots, calls' = Closed(c)
  PROVE  CallsType' /\ ReplyInv'
  BY GoodChange DEF Closed, TypeOK, CallsType

LEMMA SendOK ==
  ASSUME TypeOK, ReplyInv, NEW c \in Slots, NEW k \in Kinds, NEW i \in Ids \cup {NoId},
         NEW fav \in BOOLEAN, k \in {"get", "image", "retry", "update", "delete"} => i \in Ids,
         calls' = [calls EXCEPT ![c] = Request(k, i, fav)]
  PROVE  CallsType' /\ ReplyInv'
  BY GoodChange, RequestIs DEF TypeOK, CallsType

LEMMA AnsweredOK ==
  ASSUME TypeOK, ReplyInv, NEW c \in Slots, AnsweredCall(c)
  PROVE  CallsType' /\ ReplyInv'
  BY GoodChange DEF AnsweredCall, TypeOK, CallsType

LEMMA PatchedIs ==
  ASSUME NEW r \in Shown, NEW d \in Dto
  PROVE  /\ Patched(r, d) \in Shown /\ Patched(r, d).status = d.status /\ Patched(r, d).image = r.image
         /\ NoImage(Patched(r, d)) \in Shown /\ NoImage(Patched(r, d)).status = d.status
         /\ NoImage(Patched(r, d)).image = "none"
  BY DEF Patched, NoImage, Shown, Dto

LEMMA ImageIs ==
  ASSUME NEW r \in Shown, NEW x \in {"none", "url", "error"}
  PROVE  /\ [r EXCEPT !.image = x] \in Shown /\ [r EXCEPT !.image = x].status = r.status
         /\ [r EXCEPT !.image = x].image = x
  BY DEF Shown

LEMMA VisibleIs == TypeOK => \A i \in Visible : i \in Ids /\ history[i] \in Shown
  BY PartialIs DEF TypeOK, Visible

\* history/update
LEMMA UpdateIs ==
  ASSUME TypeOK, NEW i, NEW s, i \in Visible => s \in Shown,
         history' = [j \in Visible |-> IF j = i THEN s ELSE history[j]]
  PROVE  /\ history' \in Partial(Ids, Shown) /\ Visible' = Visible
         /\ \A j \in Visible : history'[j] = IF j = i THEN s ELSE history[j]
<1>1. DOMAIN history \subseteq Ids /\ history \in [DOMAIN history -> Shown]
  BY PartialIs DEF TypeOK
<1>2. DOMAIN history' = DOMAIN history /\ history' \in [DOMAIN history' -> Shown]
  BY <1>1 DEF Visible
<1>3. history' \in Partial(Ids, Shown)
  BY <1>1, <1>2, PartialIs
<1> QED
  BY <1>2, <1>3 DEF Visible

\* A page that is merged into the history, and one that replaces it.
LEMMA MergeIs ==
  ASSUME TypeOK, NEW dtos \in Partial(Ids, Dto), history' = Merge(dtos)
  PROVE  /\ history' \in Partial(Ids, Shown) /\ Visible' = Visible \cup DOMAIN dtos
         /\ \A j \in DOMAIN dtos : history'[j].status = dtos[j].status
         /\ \A j \in Visible' \ DOMAIN dtos : history'[j] = history[j]
         /\ \A j \in Visible' : history'[j].image = "url" => j \in Visible /\ history[j].image = "url"
<1>1. DOMAIN history \subseteq Ids /\ history \in [DOMAIN history -> Shown]
  BY PartialIs DEF TypeOK
<1>2. DOMAIN dtos \subseteq Ids /\ dtos \in [DOMAIN dtos -> Dto]
  BY PartialIs
<1>3. \A d \in Dto : FromDto(d) \in Shown /\ FromDto(d).image = "none" /\ FromDto(d).status = d.status
  BY DEF FromDto, Dto, Shown
<1>4. DOMAIN history' = DOMAIN history \cup DOMAIN dtos
  BY DEF Merge, Visible
<1>5. \A j \in DOMAIN history' :
        history'[j] = IF j \notin DOMAIN dtos THEN history[j]
                      ELSE IF j \in DOMAIN history THEN Patched(history[j], dtos[j]) ELSE FromDto(dtos[j])
  BY DEF Merge, Visible
<1>6. \A j \in DOMAIN history' : history'[j] \in Shown
  BY <1>1, <1>2, <1>3, <1>4, <1>5, PatchedIs
<1>7. history' \in [DOMAIN history' -> Shown]
  BY <1>6 DEF Merge
<1>8. history' \in Partial(Ids, Shown)
  BY <1>1, <1>2, <1>4, <1>7, PartialIs
<1>9. \A j \in DOMAIN dtos \cap DOMAIN history :
        /\ history[j] \in Shown /\ dtos[j] \in Dto /\ history'[j] = Patched(history[j], dtos[j])
        /\ history'[j].status = dtos[j].status /\ history'[j].image = history[j].image
  BY <1>1, <1>2, <1>4, <1>5, PatchedIs
<1>10. \A j \in DOMAIN dtos \ DOMAIN history :
        history'[j].status = dtos[j].status /\ history'[j].image = "none"
  BY <1>2, <1>3, <1>4, <1>5
<1>11. \A j \in DOMAIN history' \ DOMAIN dtos : history'[j] = history[j] /\ j \in DOMAIN history
  BY <1>4, <1>5
<1> QED
  BY <1>4, <1>8, <1>9, <1>10, <1>11 DEF Visible

LEMMA LoadIs ==
  ASSUME NEW dtos \in Partial(Ids, Dto), history' = Load(dtos)
  PROVE  /\ history' \in Partial(Ids, Shown) /\ Visible' = DOMAIN dtos
         /\ \A j \in DOMAIN dtos : history'[j].status = dtos[j].status /\ history'[j].image = "none"
<1>1. DOMAIN dtos \subseteq Ids /\ dtos \in [DOMAIN dtos -> Dto]
  BY PartialIs
<1>2. \A d \in Dto : FromDto(d) \in Shown /\ FromDto(d).image = "none" /\ FromDto(d).status = d.status
  BY DEF FromDto, Dto, Shown
<1>3. DOMAIN history' = DOMAIN dtos /\ \A j \in DOMAIN dtos : history'[j] = FromDto(dtos[j])
  BY DEF Load
<1>4. history' \in [DOMAIN history' -> Shown]
  BY <1>1, <1>2, <1>3 DEF Load
<1>5. history' \in Partial(Ids, Shown)
  BY <1>1, <1>3, <1>4, PartialIs
<1> QED
  BY <1>1, <1>2, <1>3, <1>5 DEF Visible

LEMMA DropIs ==
  ASSUME TypeOK, NEW i, history' = Drop(i)
  PROVE  /\ history' \in Partial(Ids, Shown) /\ Visible' = Visible \ {i}
         /\ \A j \in Visible' : history'[j] = history[j]
<1>1. DOMAIN history \subseteq Ids /\ history \in [DOMAIN history -> Shown]
  BY PartialIs DEF TypeOK
<1>2. DOMAIN history' = DOMAIN history \ {i} /\ \A j \in DOMAIN history' : history'[j] = history[j]
  BY DEF Drop, Visible
<1>3. history' \in [DOMAIN history' -> Shown]
  BY <1>1, <1>2 DEF Drop
<1> QED
  BY <1>1, <1>2, <1>3, PartialIs DEF Visible

LEMMA StartPollingIs ==
  ASSUME TypeOK, NEW S \in SUBSET Ids, StartPolling(S)
  PROVE  pollers' \subseteq Ids /\ timers' \in [Ids -> Nat] /\ cut' \subseteq Ids
  BY DEF StartPolling, TypeOK

\* One lemma per action of the client: the types and the answers.
LEMMA TickTyped ==
  ASSUME TypeOK, ReplyInv, NEW i \in Ids, NEW c \in Slots, Tick(i, c)
  PROVE  TypeOK' /\ ReplyInv'
<1>1. CallsType' /\ ReplyInv'
  <2>1. CASE Send(c, "get", i, FALSE)
    BY <2>1, SendOK DEF Send, Kinds
  <2>2. CASE UNCHANGED calls
    BY <2>2 DEF TypeOK, CallsType, ReplyInv, Open
  <2> QED
    BY <2>1, <2>2 DEF Tick
<1>2. timers' \in [Ids -> Nat]
  BY DEF Tick, TypeOK
<1> QED
  BY <1>1, <1>2 DEF Tick, TypeOK, CallsType, serverVars, stateVars, imageVars

LEMMA PollTyped ==
  ASSUME TypeOK, ReplyInv, NEW c \in Slots, PollFails(c) \/ PollUnfinished(c) \/ PollFailed(c)
  PROVE  TypeOK' /\ ReplyInv'
<1>1. CallsType' /\ ReplyInv'
  BY ClosedOK DEF PollFails, PollUnfinished, PollFailed
<1>2. Answered(c, "get") /\ calls[c].id \in Ids /\ (Succeeded(c) => calls[c].dtos[calls[c].id] \in Dto)
  BY ReplyIs DEF PollFails, PollUnfinished, PollFailed, Kinds
<1> DEFINE i == calls[c].id
           d == calls[c].dtos[i]
<1>3. history' \in Partial(Ids, Shown)
  <2>1. CASE PollFails(c)
    BY <2>1 DEF PollFails, stateVars, TypeOK
  <2>2. CASE PollUnfinished(c) \/ PollFailed(c)
    <3>1. d \in Dto
      BY <1>2, <2>2 DEF PollUnfinished, PollFailed
    <3>2. history' = [j \in Visible |-> IF j = i THEN Patched(history[i], d) ELSE history[j]]
      BY <2>2 DEF PollUnfinished, PollFailed, Update
    <3>3. i \in Visible => Patched(history[i], d) \in Shown
      BY <3>1, PatchedIs, PartialIs DEF TypeOK, Visible
    <3> QED
      BY <3>2, <3>3, UpdateIs
  <2> QED
    BY <2>1, <2>2
<1>4. timers' \in [Ids -> Nat]
  BY <1>2 DEF TypeOK, PollFails, PollUnfinished, PollFailed, Again
<1> QED
  BY <1>1, <1>3, <1>4
     DEF TypeOK, CallsType, PollFails, PollUnfinished, PollFailed, serverVars, stateVars, imageVars

LEMMA PollCompletedTyped ==
  ASSUME TypeOK, ReplyInv, NEW c \in Slots, PollCompleted(c)
  PROVE  TypeOK' /\ ReplyInv'
<1> DEFINE i == calls[c].id
           d == calls[c].dtos[i]
<1>1. i \in Ids /\ d \in Dto
  BY ReplyIs DEF PollCompleted, Kinds
<1>2. i \in Visible => history[i] \in Shown
  BY PartialIs DEF TypeOK, Visible
<1>3. CASE /\ LoadImage(i, c)
           /\ history' = Update(i, LAMBDA r : NoImage(Patched(r, d)))
  <2>1. CallsType' /\ ReplyInv'
    BY <1>1, <1>3, SendOK DEF LoadImage, Kinds
  <2>2. history' = [j \in Visible |-> IF j = i THEN NoImage(Patched(history[i], d)) ELSE history[j]]
    BY <1>3 DEF Update
  <2>3. history' \in Partial(Ids, Shown)
    BY <1>1, <1>2, <2>2, PatchedIs, UpdateIs
  <2>4. loaders' \subseteq Ids /\ blobs' \in [Ids -> {"none", "live", "revoked"}]
    BY <1>1, <1>3 DEF LoadImage, TypeOK
  <2> QED
    BY <2>1, <2>3, <2>4 DEF TypeOK, CallsType, PollCompleted, serverVars
<1>4. CASE /\ calls' = Closed(c)
           /\ history' = Update(i, LAMBDA r : Patched(r, d))
           /\ UNCHANGED <<loaders, blobs>>
  <2>1. CallsType' /\ ReplyInv'
    BY <1>4, ClosedOK
  <2>2. history' = [j \in Visible |-> IF j = i THEN Patched(history[i], d) ELSE history[j]]
    BY <1>4 DEF Update
  <2>3. history' \in Partial(Ids, Shown)
    BY <1>1, <1>2, <2>2, PatchedIs, UpdateIs
  <2> QED
    BY <1>4, <2>1, <2>3 DEF TypeOK, CallsType, PollCompleted, serverVars
<1> QED
  BY <1>3, <1>4 DEF PollCompleted

LEMMA ImageTyped ==
  ASSUME TypeOK, ReplyInv, NEW c \in Slots, ImageLoaded(c) \/ ImageFailed(c)
  PROVE  TypeOK' /\ ReplyInv'
<1> DEFINE i == calls[c].id
<1>1. i \in Ids /\ calls' = Closed(c)
  BY ReplyIs DEF ImageLoaded, ImageFailed, Kinds
<1>2. CallsType' /\ ReplyInv'
  BY <1>1, ClosedOK
<1>3. PICK x \in {"url", "error"} :
        history' = [j \in Visible |-> IF j = i THEN [history[i] EXCEPT !.image = x] ELSE history[j]]
  BY DEF ImageLoaded, ImageFailed, Update
<1>4. i \in Visible => [history[i] EXCEPT !.image = x] \in Shown
  BY VisibleIs, ImageIs
<1>5. history' \in Partial(Ids, Shown)
  BY <1>3, <1>4, UpdateIs
<1>6. loaders' \subseteq Ids /\ blobs' \in [Ids -> {"none", "live", "revoked"}] /\ lost' \subseteq Ids
  BY <1>1 DEF ImageLoaded, ImageFailed, TypeOK
<1> QED
  BY <1>2, <1>5, <1>6 DEF TypeOK, CallsType, ImageLoaded, ImageFailed, serverVars, refVars

LEMMA ReloadTyped ==
  ASSUME TypeOK, ReplyInv, NEW i \in Ids, NEW c \in Slots, ReloadImage(i, c)
  PROVE  TypeOK' /\ ReplyInv'
<1>1. CallsType' /\ ReplyInv'
  BY SendOK DEF ReloadImage, LoadImage, Kinds
<1>2. i \in Visible => NoImage(history[i]) \in Shown
  BY VisibleIs, ImageIs DEF NoImage
<1>3. history' = [j \in Visible |-> IF j = i THEN NoImage(history[i]) ELSE history[j]]
  BY DEF ReloadImage, Update
<1>4. history' \in Partial(Ids, Shown)
  BY <1>2, <1>3, UpdateIs
<1>5. loaders' \subseteq Ids /\ blobs' \in [Ids -> {"none", "live", "revoked"}]
  BY DEF ReloadImage, LoadImage, TypeOK
<1> QED
  BY <1>1, <1>4, <1>5 DEF TypeOK, CallsType, ReloadImage, serverVars, refVars

LEMMA SwitchTyped ==
  ASSUME TypeOK, ReplyInv, NEW u \in Accounts \cup {NoUser}, NEW c \in Slots, SwitchUser(u, c)
  PROVE  TypeOK' /\ ReplyInv'
<1> DEFINE cancelled == [d \in Slots |->
             IF Open(d) /\ calls[d].kind = "hydrate" THEN [calls[d] EXCEPT !.live = FALSE] ELSE calls[d]]
           hydrate == [Request("hydrate", NoId, FALSE) EXCEPT !.by = u]
<1>1. \A d \in Slots : cancelled[d] = Idle \/ Good(cancelled[d])
  <2> SUFFICES ASSUME NEW d \in Slots PROVE cancelled[d] = Idle \/ Good(cancelled[d])
    OBVIOUS
  <2>1. calls[d] = Idle \/ Good(calls[d])
    BY GoodCalls DEF TypeOK, CallsType
  <2>2. Good(calls[d]) => Good([calls[d] EXCEPT !.live = FALSE])
    BY DEF Good, Call
  <2> QED
    BY <2>1, <2>2 DEF Open
<1>2. Good(hydrate)
  BY EmptyIs DEF Good, Request, Call, Kinds
<1>3. \A d \in Slots : calls'[d] = Idle \/ Good(calls'[d])
  <2>1. CASE calls' = cancelled
    BY <1>1, <2>1
  <2>2. CASE calls' = [cancelled EXCEPT ![c] = hydrate]
    <3> HIDE DEF hydrate
    <3> QED
      BY <1>1, <1>2, <2>2
  <2> QED
    BY <2>1, <2>2 DEF SwitchUser
<1>4. DOMAIN calls' = Slots /\ calls' = [d \in Slots |-> calls'[d]]
  <2>1. CASE calls' = cancelled
    BY <2>1
  <2>2. CASE calls' = [cancelled EXCEPT ![c] = hydrate]
    BY <2>2
  <2> QED
    BY <2>1, <2>2 DEF SwitchUser
<1> HIDE DEF cancelled, hydrate
<1>5. calls' \in [Slots -> Call \cup {Idle}]
  BY <1>3, <1>4 DEF Good
<1>6. ReplyInv'
  BY <1>3 DEF ReplyInv, Open, Good
<1>7. history' \in Partial(Ids, Shown)
  BY EmptyIs DEF SwitchUser
<1>8. /\ user' \in Accounts \cup {NoUser} /\ active' \in Ids \cup {NoId} /\ ready' \in BOOLEAN
      /\ apiStatus' \in {"idle", "success", "error"}
  BY Zenon DEF SwitchUser, TypeOK
<1>9. pollers' \subseteq Ids /\ cut' \subseteq Ids /\ blobs' \in [Ids -> {"none", "live", "revoked"}]
  BY DEF SwitchUser, TypeOK
<1> QED
  BY <1>5, <1>6, <1>7, <1>8, <1>9 DEF TypeOK, SwitchUser, serverVars

LEMMA HydrateTyped ==
  ASSUME TypeOK, ReplyInv, NEW c \in Slots, Hydrated(c) \/ HydrateFails(c) \/ HydrateCancelled(c)
  PROVE  TypeOK' /\ ReplyInv'
<1>1. calls' = Closed(c) /\ calls[c].dtos \in Partial(Ids, Dto)
  BY ReplyIs DEF Hydrated, HydrateFails, HydrateCancelled, Kinds
<1>2. CallsType' /\ ReplyInv'
  BY <1>1, ClosedOK
<1>3. CASE Hydrated(c)
  <2>1. history' \in Partial(Ids, Shown)
    BY <1>1, <1>3, LoadIs DEF Hydrated
  <2>2. UnfinishedIn(calls[c].dtos) \subseteq Ids
    BY <1>1, PartialIs DEF UnfinishedIn
  <2>3. pollers' \subseteq Ids /\ timers' \in [Ids -> Nat] /\ cut' \subseteq Ids
    BY <1>3, <2>2, StartPollingIs DEF Hydrated
  <2>4. ready' \in BOOLEAN /\ apiStatus' \in {"idle", "success", "error"}
    BY <1>3 DEF Hydrated
  <2> QED
    BY <1>2, <1>3, <2>1, <2>3, <2>4 DEF Hydrated, TypeOK, CallsType, serverVars, imageVars
<1>4. CASE HydrateFails(c) \/ HydrateCancelled(c)
  <2>1. ready' \in BOOLEAN /\ apiStatus' \in {"idle", "success", "error"}
    BY <1>4, Zenon DEF HydrateFails, HydrateCancelled, TypeOK, stateVars
  <2> QED
    BY <1>2, <1>4, <2>1
       DEF HydrateFails, HydrateCancelled, TypeOK, CallsType, serverVars, stateVars, refVars, imageVars
<1> QED
  BY <1>3, <1>4

\* The calls the user makes: nothing but the call changes.
LEMMA UserTyped ==
  ASSUME TypeOK, ReplyInv, NEW c \in Slots, NEW i \in Ids,
         Retry(i, c) \/ ToggleFavorite(i, c) \/ Delete(i, c)
  PROVE  TypeOK' /\ ReplyInv'
<1>1. CallsType' /\ ReplyInv'
  <2>2. CASE Retry(i, c) \/ Delete(i, c)
    BY <2>2, SendOK DEF Retry, Delete, Send, Kinds
  <2>3. CASE ToggleFavorite(i, c)
    <3>1. (~history[i].favorite) \in BOOLEAN
      BY Zenon
    <3>2. calls' = [calls EXCEPT ![c] = Request("update", i, ~history[i].favorite)]
      BY <2>3 DEF ToggleFavorite, Send
    <3> QED
      BY <3>1, <3>2, SendOK DEF Kinds
  <2> QED
    BY <2>2, <2>3
<1> QED
  BY <1>1 DEF Retry, ToggleFavorite, Delete, TypeOK, CallsType, serverVars, stateVars, refVars, imageVars

LEMMA PageTyped ==
  ASSUME TypeOK, ReplyInv, NEW c \in Slots, PageLoaded(c) \/ CallFails(c) \/ Created(c)
  PROVE  TypeOK' /\ ReplyInv'
<1>1. calls' = Closed(c) /\ calls[c].dtos \in Partial(Ids, Dto)
  BY ReplyIs DEF PageLoaded, CallFails, Created, Kinds
<1>2. CallsType' /\ ReplyInv'
  BY <1>1, ClosedOK
<1>3. CASE PageLoaded(c)
  <2>1. history' \in Partial(Ids, Shown)
    BY <1>1, <1>3, MergeIs DEF PageLoaded
  <2>2. UnfinishedIn(calls[c].dtos) \subseteq Ids
    BY <1>1, PartialIs DEF UnfinishedIn
  <2>3. pollers' \subseteq Ids /\ timers' \in [Ids -> Nat] /\ cut' \subseteq Ids
    BY <1>3, <2>2, StartPollingIs DEF PageLoaded
  <2> QED
    BY <1>2, <1>3, <2>1, <2>3 DEF PageLoaded, TypeOK, CallsType, serverVars, imageVars
<1>4. CASE CallFails(c)
  BY <1>2, <1>4 DEF CallFails, TypeOK, CallsType, serverVars, stateVars, refVars, imageVars
<1>5. CASE Created(c)
  <2>1. history' \in Partial(Ids, Shown)
    BY <1>1, <1>5, MergeIs DEF Created
  <2>2. DOMAIN calls[c].dtos \subseteq Ids /\ DOMAIN calls[c].dtos # {}
    BY <1>1, <1>5, ReplyIs, PartialIs DEF Created, Kinds, Good, Succeeded
  <2>3. pollers' \subseteq Ids /\ timers' \in [Ids -> Nat] /\ cut' \subseteq Ids
    BY <1>5, <2>2, StartPollingIs DEF Created
  <2>4. active' \in Ids
    BY <1>5, <2>2 DEF Created
  <2> QED
    BY <1>2, <1>5, <2>1, <2>3, <2>4 DEF Created, TypeOK, CallsType, serverVars, imageVars
<1> QED
  BY <1>3, <1>4, <1>5

LEMMA ChangeTyped ==
  ASSUME TypeOK, ReplyInv, NEW c \in Slots,
         Retried(c) \/ Updated(c) \/ UpdateFails(c) \/ Deleted(c)
  PROVE  TypeOK' /\ ReplyInv'
<1> DEFINE i == calls[c].id
           d == calls[c].dtos[i]
<1>1. calls' = Closed(c) /\ i \in Ids
  BY ReplyIs DEF Retried, Updated, UpdateFails, Deleted, Kinds
<1>2. CallsType' /\ ReplyInv'
  BY <1>1, ClosedOK
<1>3. CASE Retried(c)
  <2>1. d \in Dto
    BY <1>3, ReplyIs DEF Retried, Kinds
  <2>2. history' = [j \in Visible |-> IF j = i THEN NoImage(Patched(history[i], d)) ELSE history[j]]
    BY <1>3 DEF Retried, Update
  <2>3. history' \in Partial(Ids, Shown)
    BY <2>1, <2>2, PatchedIs, VisibleIs, UpdateIs
  <2>4. pollers' \subseteq Ids /\ timers' \in [Ids -> Nat] /\ cut' \subseteq Ids
    BY <1>1, <1>3, StartPollingIs DEF Retried
  <2> QED
    BY <1>1, <1>2, <1>3, <2>3, <2>4 DEF Retried, TypeOK, CallsType, serverVars, imageVars
<1>4. CASE Updated(c)
  <2>1. d \in Dto
    BY <1>4, ReplyIs DEF Updated, Kinds
  <2>2. history' = [j \in Visible |-> IF j = i THEN Patched(history[i], d) ELSE history[j]]
    BY <1>4 DEF Updated, Update
  <2>3. history' \in Partial(Ids, Shown)
    BY <2>1, <2>2, PatchedIs, VisibleIs, UpdateIs
  <2> QED
    BY <1>1, <1>2, <1>4, <2>3 DEF Updated, TypeOK, CallsType, serverVars, imageVars
<1>5. CASE UpdateFails(c)
  <2>1. calls[c].favorite \in BOOLEAN
    BY <1>5, ReplyIs DEF UpdateFails, Kinds, Good, Call
  <2> DEFINE s == [history[i] EXCEPT !.favorite = calls[c].favorite]
  <2>2. history' = [j \in Visible |-> IF j = i THEN s ELSE history[j]]
    BY <1>5 DEF UpdateFails, Update
  <2>3. i \in Visible => s \in Shown
    BY <2>1, VisibleIs DEF Shown
  <2>4. history' \in Partial(Ids, Shown)
    <3> HIDE DEF s
    <3> QED
      BY <2>2, <2>3, UpdateIs
  <2> QED
    BY <1>2, <1>5, <2>4 DEF UpdateFails, TypeOK, CallsType, serverVars, refVars, imageVars
<1>6. CASE Deleted(c)
  <2>1. history' \in Partial(Ids, Shown)
    BY <1>6, DropIs DEF Deleted
  <2> QED
    BY <1>1, <1>2, <1>6, <2>1 DEF Deleted, TypeOK, CallsType, serverVars, imageVars
<1> QED
  BY <1>3, <1>4, <1>5, <1>6

LEMMA TypeStep ==
  ASSUME TypeOK, ReplyInv, [Next]_vars
  PROVE  TypeOK' /\ ReplyInv'
<1>1. ASSUME NEW c \in Slots, Serve(c) PROVE TypeOK' /\ ReplyInv'
  BY <1>1, ServeStep, AnsweredOK DEF Serve, TypeOK, CallsType, stateVars, refVars, imageVars
<1>2. ASSUME NEW c \in Slots, Lose(c) PROVE TypeOK' /\ ReplyInv'
  BY <1>2, LoseStep, AnsweredOK DEF Lose, TypeOK, CallsType, serverVars, stateVars, refVars, imageVars
<1>3. ASSUME NEW c \in Slots, Handle(c) PROVE TypeOK' /\ ReplyInv'
  BY <1>3, PollTyped, PollCompletedTyped, ImageTyped, HydrateTyped, PageTyped, ChangeTyped DEF Handle
<1>4. ASSUME NEW c \in Slots, UserStep(c) PROVE TypeOK' /\ ReplyInv'
  <2>1. ASSUME NEW i \in Ids, \/ Retry(i, c) \/ ToggleFavorite(i, c) \/ Delete(i, c) \/ ReloadImage(i, c)
        PROVE  TypeOK' /\ ReplyInv'
    BY <2>1, UserTyped, ReloadTyped
  <2>2. ASSUME NEW u \in Accounts \cup {NoUser}, SwitchUser(u, c) PROVE TypeOK' /\ ReplyInv'
    BY <2>2, SwitchTyped
  <2>3. CASE LoadPage(c) \/ Create(c)
    <3>1. CallsType' /\ ReplyInv'
      BY <2>3, SendOK DEF LoadPage, Create, Send, Kinds
    <3> QED
      BY <2>3, <3>1 DEF LoadPage, Create, TypeOK, CallsType, serverVars, stateVars, refVars, imageVars
  <2> QED
    BY <1>4, <2>1, <2>2, <2>3 DEF UserStep
<1>5. ASSUME NEW i \in Ids, Advance(i) \/ Remote(i) PROVE TypeOK' /\ ReplyInv'
  <2>1. PICK s \in Statuses \cup {"gone"} : rows' = [rows EXCEPT ![i].status = s]
    BY <1>5 DEF Advance, Remote, Becomes, Unfinished, Statuses
  <2>2. rows' \in [Ids -> Row]
    BY <2>1 DEF TypeOK, Row
  <2> QED
    BY <1>5, <2>2 DEF Advance, Remote, TypeOK, ReplyInv, Open, stateVars, refVars, imageVars
<1>6. ASSUME NEW i \in Ids, NEW c \in Slots, Tick(i, c) PROVE TypeOK' /\ ReplyInv'
  BY <1>6, TickTyped
<1>7. CASE UNCHANGED vars
  BY <1>7 DEF vars, serverVars, stateVars, refVars, imageVars, TypeOK, ReplyInv, Open
<1> QED
  BY <1>1, <1>2, <1>3, <1>4, <1>5, <1>6, <1>7 DEF Next

-----------------------------------------------------------------------------
(* Polls.                                                                  *)

PollInv == PolledIsAlive /\ OneChain /\ UnfinishedIsPolled

\* A step that changes no poll, and shows no record unfinished that was not shown so before.
LEMMA PollFrame ==
  ASSUME PollInv, UNCHANGED refVars, \A i \in Ids : Gets(i)' = Gets(i), TypeOK,
         \A i \in Visible' : /\ i \in Visible
                             /\ history'[i].status \in Unfinished => history[i].status \in Unfinished
  PROVE  PollInv'
<1>1. \A i \in Ids : Chained(i)' <=> Chained(i)
  BY DEF Chained, refVars
<1>2. PolledIsAlive'
  BY <1>1 DEF PollInv, PolledIsAlive, refVars, TypeOK
<1>3. OneChain'
  BY <1>1 DEF PollInv, OneChain, refVars, TypeOK
<1>4. UnfinishedIsPolled'
  BY DEF PollInv, UnfinishedIsPolled, refVars
<1> QED
  BY <1>2, <1>3, <1>4 DEF PollInv

\* A step that starts polling S.
LEMMA StartFrame ==
  ASSUME PollInv, TypeOK, NEW S \in SUBSET Ids, StartPolling(S), UNCHANGED patched,
         \A i \in Ids : Gets(i)' = Gets(i),
         \A i \in Visible' : history'[i].status \in Unfinished =>
             i \in S \/ (i \in Visible /\ history[i].status \in Unfinished)
  PROVE  PollInv'
<1>1. \A i \in Ids : timers'[i] = timers[i] + (IF i \in S \ pollers THEN 1 ELSE 0)
  BY DEF StartPolling
<1>2. /\ pollers' = pollers \cup S /\ cut' = cut
      /\ timers \in [Ids -> Nat] /\ pollers \subseteq Ids
  BY DEF StartPolling, TypeOK
<1>3. \A i \in Ids : Chained(i)' <=> (Chained(i) \/ i \in S \ pollers)
  BY <1>1, <1>2 DEF Chained
<1>4. PolledIsAlive'
  BY <1>2, <1>3 DEF PollInv, PolledIsAlive
<1>5. OneChain'
  <2> SUFFICES ASSUME NEW i \in Ids \ cut
               PROVE  /\ timers'[i] \in {0, 1} /\ (timers'[i] = 1 => Gets(i)' = {})
                      /\ \A c, d \in Gets(i)' : c = d
                      /\ Chained(i)' => i \in pollers'
    BY <1>2 DEF OneChain
  <2>1. /\ timers[i] \in {0, 1} /\ (timers[i] = 1 => Gets(i) = {})
        /\ \A c, d \in Gets(i) : c = d
        /\ Chained(i) => i \in pollers
    BY DEF PollInv, OneChain
  <2>2. i \notin pollers => timers[i] = 0 /\ Gets(i) = {}
    BY <2>1, <1>2 DEF Chained
  <2> QED
    BY <1>1, <1>2, <1>3, <2>1, <2>2
<1>6. UnfinishedIsPolled'
  BY <1>2 DEF PollInv, UnfinishedIsPolled
<1> QED
  BY <1>4, <1>5, <1>6 DEF PollInv

\* The answer to a poll, which is not asked for again.
LEMMA PollEnds ==
  ASSUME PollInv, TypeOK, NEW c \in Slots, NEW new, new.kind # "get",
         NEW i \in Ids,
         calls[c].kind = "get", calls[c].id = i, calls' = [calls EXCEPT ![c] = new],
         pollers' = pollers \ {i}, UNCHANGED <<timers, patched, cut>>,
         \A j \in Visible' : /\ j \in Visible
                             /\ history'[j].status \in Unfinished =>
                                   j # i /\ history[j].status \in Unfinished
  PROVE  PollInv'
<1>1. CallsType
  BY DEF TypeOK, CallsType
<1>2. \A j \in Ids : Gets(j)' = Gets(j) \ {c}
  <2>1. \A j : Gets(j)' = (Gets(j) \ {c}) \cup (IF new.kind = "get" /\ new.id = j THEN {c} ELSE {})
    BY <1>1, OneCall
  <2> QED
    BY <2>1
<1>3. c \in Gets(i) /\ \A j \in Ids \ {i} : c \notin Gets(j)
  BY GetsAre
<1>4. \A j \in Ids \ {i} : Chained(j)' <=> Chained(j)
  BY <1>2, <1>3 DEF Chained
<1>5. PolledIsAlive'
  BY <1>4 DEF PollInv, PolledIsAlive, TypeOK
<1>6. i \notin cut => ~Chained(i)'
  <2> SUFFICES ASSUME i \notin cut PROVE timers[i] = 0 /\ Gets(i)' = {}
    BY DEF Chained
  <2>1. timers[i] \in {0, 1} /\ (timers[i] = 1 => Gets(i) = {}) /\ \A a, b \in Gets(i) : a = b
    BY DEF PollInv, OneChain
  <2>2. \A a \in Gets(i) : a = c
    BY <1>3, <2>1
  <2> QED
    BY <1>2, <1>3, <2>1, <2>2
<1>7. OneChain'
  <2> SUFFICES ASSUME NEW j \in Ids \ cut
               PROVE  /\ timers[j] \in {0, 1} /\ (timers[j] = 1 => Gets(j)' = {})
                      /\ \A a, b \in Gets(j)' : a = b
                      /\ Chained(j)' => j \in pollers'
    BY DEF OneChain
  <2>1. /\ timers[j] \in {0, 1} /\ (timers[j] = 1 => Gets(j) = {})
        /\ \A a, b \in Gets(j) : a = b
        /\ Chained(j) => j \in pollers
    BY DEF PollInv, OneChain
  <2> QED
    BY <1>2, <1>4, <1>6, <2>1
<1>8. UnfinishedIsPolled'
  BY DEF PollInv, UnfinishedIsPolled
<1> QED
  BY <1>5, <1>7, <1>8 DEF PollInv

\* The answer to a poll, after which the record is asked for again.
LEMMA PollGoesOn ==
  ASSUME PollInv, TypeOK, NEW c \in Slots,
         NEW i \in Ids,
         calls[c].kind = "get", calls[c].id = i, calls' = Closed(c), Again(i),
         UNCHANGED <<pollers, patched, cut>>, Visible' = Visible,
         \A j \in Visible : j = i \/ history'[j] = history[j]
  PROVE  PollInv'
<1>1. CallsType /\ calls' = [calls EXCEPT ![c] = Idle] /\ Idle.kind # "get"
  BY IdleIs DEF TypeOK, CallsType, Closed
<1>2. \A j \in Ids : Gets(j)' = Gets(j) \ {c}
  <2>1. \A j : Gets(j)' = (Gets(j) \ {c}) \cup (IF Idle.kind = "get" /\ Idle.id = j THEN {c} ELSE {})
    BY <1>1, OneCall
  <2> QED
    BY <1>1, <2>1
<1>3. c \in Gets(i) /\ \A j \in Ids \ {i} : c \notin Gets(j)
  BY GetsAre
<1>4. timers' = [timers EXCEPT ![i] = @ + 1] /\ timers \in [Ids -> Nat]
  BY DEF Again, TypeOK
<1>5. \A j \in Ids : Chained(j)' <=> Chained(j)
  BY <1>2, <1>3, <1>4 DEF Chained
<1>6. PolledIsAlive'
  BY <1>5 DEF PollInv, PolledIsAlive, TypeOK
<1>7. OneChain'
  <2> SUFFICES ASSUME NEW j \in Ids \ cut
               PROVE  /\ timers'[j] \in {0, 1} /\ (timers'[j] = 1 => Gets(j)' = {})
                      /\ \A a, b \in Gets(j)' : a = b
                      /\ Chained(j)' => j \in pollers
    BY DEF OneChain
  <2>1. /\ timers[j] \in {0, 1} /\ (timers[j] = 1 => Gets(j) = {})
        /\ \A a, b \in Gets(j) : a = b
        /\ Chained(j) => j \in pollers
    BY DEF PollInv, OneChain
  <2> QED
    BY <1>2, <1>3, <1>4, <1>5, <2>1
<1>8. UnfinishedIsPolled'
  <2> SUFFICES ASSUME NEW j \in Visible \ (patched \cup cut), history'[j].status \in Unfinished
               PROVE  j \in pollers
    BY DEF UnfinishedIsPolled
  <2>1. CASE j = i
    BY <1>3, <2>1 DEF PollInv, OneChain, Chained
  <2>2. CASE j # i
    BY <2>2 DEF PollInv, UnfinishedIsPolled
  <2> QED
    BY <2>1, <2>2
<1> QED
  BY <1>6, <1>7, <1>8 DEF PollInv

\* An answer given, or none: the same requests poll the same records.
LEMMA SameCalls ==
  ASSUME TypeOK, NEW c \in Slots, AnsweredCall(c) \/ UNCHANGED calls
  PROVE  \A i : Gets(i)' = Gets(i) /\ Loads(i)' = Loads(i)
<1>1. CASE UNCHANGED calls
  BY <1>1 DEF Gets, Loads, Open
<1>2. CASE AnsweredCall(c)
  <2>1. PICK new \in Call : /\ calls' = [calls EXCEPT ![c] = new]
                            /\ new.kind = calls[c].kind /\ new.id = calls[c].id
    BY <1>2 DEF AnsweredCall
  <2>2. CallsType
    BY DEF TypeOK, CallsType
  <2>3. \A i : /\ Gets(i)'  = (Gets(i) \ {c}) \cup (IF new.kind = "get" /\ new.id = i THEN {c} ELSE {})
               /\ Loads(i)' = (Loads(i) \ {c}) \cup (IF new.kind = "image" /\ new.id = i THEN {c} ELSE {})
    BY <2>1, <2>2, OneCall
  <2> QED
    BY <2>1, <2>3, GetsAre
<1> QED
  BY <1>1, <1>2

\* A call of another kind is made or closed.
LEMMA OtherCall ==
  ASSUME TypeOK, NEW c \in Slots, NEW new, calls' = [calls EXCEPT ![c] = new]
  PROVE  /\ calls[c].kind # "get" /\ new.kind # "get" => \A i : Gets(i)' = Gets(i)
         /\ calls[c].kind # "image" /\ new.kind # "image" => \A i : Loads(i)' = Loads(i)
<1>1. CallsType
  BY DEF TypeOK, CallsType
<1>2. \A i : /\ Gets(i)'  = (Gets(i) \ {c}) \cup (IF new.kind = "get" /\ new.id = i THEN {c} ELSE {})
             /\ Loads(i)' = (Loads(i) \ {c}) \cup (IF new.kind = "image" /\ new.id = i THEN {c} ELSE {})
  BY <1>1, OneCall
<1> QED
  BY <1>2, GetsAre

LEMMA OtherClosed ==
  ASSUME TypeOK, NEW c \in Slots, calls' = Closed(c)
  PROVE  /\ calls[c].kind # "get" => \A i : Gets(i)' = Gets(i)
         /\ calls[c].kind # "image" => \A i : Loads(i)' = Loads(i)
  BY OtherCall, IdleIs DEF Closed

LEMMA OtherSent ==
  ASSUME TypeOK, NEW c \in Slots, NEW k \in Kinds \ {"get", "image"}, NEW i, NEW fav, Send(c, k, i, fav)
  PROVE  \A j : Gets(j)' = Gets(j) /\ Loads(j)' = Loads(j)
<1>1. calls' = [calls EXCEPT ![c] = Request(k, i, fav)] /\ calls[c].kind = "none"
  BY IdleIs DEF Send
<1>2. Request(k, i, fav).kind = k
  BY DEF Request
<1> HIDE DEF Request
<1> QED
  BY <1>1, <1>2, OtherCall

\* Login and logout replace no poll and no image load.
LEMMA SwitchCalls ==
  ASSUME TypeOK, NEW u, NEW c \in Slots, SwitchUser(u, c)
  PROVE  \A i : Gets(i)' = Gets(i) /\ Loads(i)' = Loads(i)
<1> DEFINE cancelled == [d \in Slots |->
             IF Open(d) /\ calls[d].kind = "hydrate" THEN [calls[d] EXCEPT !.live = FALSE] ELSE calls[d]]
           hydrate == [Request("hydrate", NoId, FALSE) EXCEPT !.by = u]
<1>1. \A d \in Slots : \/ cancelled[d] = calls[d]
                       \/ /\ calls[d].kind = "hydrate" /\ cancelled[d].kind = "hydrate"
  BY DEF TypeOK, Call, Open
<1>2. hydrate.kind = "hydrate" /\ calls[c].kind = "none"
  BY IdleIs DEF Request, SwitchUser
<1>3. calls' = cancelled \/ calls' = [cancelled EXCEPT ![c] = hydrate]
  BY DEF SwitchUser
<1> HIDE DEF cancelled, hydrate
<1>4. \A d \in Slots : \/ calls'[d] = calls[d]
                       \/ /\ calls[d].kind \in {"none", "hydrate"} /\ calls'[d].kind = "hydrate"
  <2>1. CASE calls' = cancelled
    BY <1>1, <2>1
  <2>2. CASE calls' = [cancelled EXCEPT ![c] = hydrate]
    <3>1. DOMAIN cancelled = Slots
      BY DEF cancelled
    <3>2. \A d \in Slots : calls'[d] = IF d = c THEN hydrate ELSE cancelled[d]
      BY <2>2, <3>1
    <3> QED
      BY <1>1, <1>2, <3>2
  <2> QED
    BY <1>3, <2>1, <2>2
<1> QED
  BY <1>4 DEF Gets, Loads, Open, Idle

-----------------------------------------------------------------------------
(* The steps of the client that polls are about.                           *)

LEMMA TickPolls ==
  ASSUME PollInv, TypeOK, NEW i \in Ids, NEW c \in Slots, Tick(i, c)
  PROVE  PollInv'
<1>1. /\ timers \in [Ids -> Nat] /\ timers[i] > 0 /\ timers' = [timers EXCEPT ![i] = @ - 1]
      /\ UNCHANGED <<history, pollers, patched, cut>> /\ pollers \subseteq Ids
  BY DEF Tick, TypeOK, stateVars
<1>2. /\ \A j \in Ids \ {i} : Gets(j)' = Gets(j)
      /\ Gets(i)' = IF i \in pollers THEN Gets(i) \cup {c} ELSE Gets(i)
  <2>1. CASE i \in pollers
    <3>1. calls' = [calls EXCEPT ![c] = Request("get", i, FALSE)] /\ calls[c].kind = "none"
      BY <2>1, IdleIs DEF Tick, Send
    <3>2. Request("get", i, FALSE).kind = "get" /\ Request("get", i, FALSE).id = i /\ CallsType
      BY DEF Request, TypeOK, CallsType
    <3>3. \A j \in Ids : Gets(j)' = (Gets(j) \ {c}) \cup (IF i = j THEN {c} ELSE {}) /\ c \notin Gets(j)
      <4> DEFINE new == Request("get", i, FALSE)
      <4>1. new.kind = "get" /\ new.id = i /\ calls' = [calls EXCEPT ![c] = new]
        BY <3>1, <3>2
      <4> HIDE DEF new
      <4>2. \A j : Gets(j)' = (Gets(j) \ {c}) \cup (IF new.kind = "get" /\ new.id = j THEN {c} ELSE {})
        BY <3>2, <4>1, OneCall
      <4>3. \A j : c \notin Gets(j)
        BY <3>1, GetsAre
      <4> QED
        BY <4>1, <4>2, <4>3
    <3> QED
      BY <2>1, <3>3
  <2>2. CASE i \notin pollers
    BY <2>2, SameCalls DEF Tick
  <2> QED
    BY <2>1, <2>2
<1>3. i \notin pollers => i \in cut
  BY <1>1 DEF PollInv, OneChain, Chained
<1>4. \A j \in Ids : j # i \/ i \in pollers => (Chained(j)' <=> Chained(j))
  BY <1>1, <1>2 DEF Chained
<1>5. PolledIsAlive'
  BY <1>1, <1>4 DEF PollInv, PolledIsAlive
<1>6. OneChain'
  <2> SUFFICES ASSUME NEW j \in Ids \ cut
               PROVE  /\ timers'[j] \in {0, 1} /\ (timers'[j] = 1 => Gets(j)' = {})
                      /\ \A a, b \in Gets(j)' : a = b
                      /\ Chained(j)' => j \in pollers
    BY <1>1 DEF OneChain
  <2>1. /\ timers[j] \in {0, 1} /\ (timers[j] = 1 => Gets(j) = {})
        /\ \A a, b \in Gets(j) : a = b
        /\ Chained(j) => j \in pollers
    BY DEF PollInv, OneChain
  <2>2. CASE j = i
    <3>1. i \in pollers /\ timers[i] = 1 /\ Gets(i) = {}
      BY <1>1, <1>3, <2>1, <2>2
    <3> QED
      BY <1>1, <1>2, <2>2, <3>1
  <2>3. CASE j # i
    BY <1>1, <1>2, <1>4, <2>1, <2>3
  <2> QED
    BY <2>2, <2>3
<1>7. UnfinishedIsPolled'
  BY <1>1 DEF PollInv, UnfinishedIsPolled, Visible
<1> QED
  BY <1>5, <1>6, <1>7 DEF PollInv

LEMMA AnswerPolls ==
  ASSUME PollInv, TypeOK, ReplyInv, NEW c \in Slots,
         PollFails(c) \/ PollUnfinished(c) \/ PollFailed(c) \/ PollCompleted(c)
  PROVE  PollInv'
<1> DEFINE i == calls[c].id
           d == calls[c].dtos[i]
<1>1. calls[c].kind = "get" /\ i \in Ids /\ (Succeeded(c) => d \in Dto)
  BY ReplyIs DEF PollFails, PollUnfinished, PollFailed, PollCompleted, Kinds
<1>2. i \in Visible => history[i] \in Shown
  BY VisibleIs
<1>3. CASE PollFails(c)
  BY <1>1, <1>3, PollGoesOn DEF PollFails, stateVars, Visible
<1>4. CASE PollUnfinished(c)
  <2>1. history' = [j \in Visible |-> IF j = i THEN Patched(history[i], d) ELSE history[j]] /\ d \in Dto
    BY <1>1, <1>4 DEF PollUnfinished, Update
  <2>2. Visible' = Visible /\ \A j \in Visible : j = i \/ history'[j] = history[j]
    BY <1>2, <2>1, PatchedIs, UpdateIs
  <2> QED
    BY <1>1, <1>4, <2>2, PollGoesOn DEF PollUnfinished
<1>5. CASE PollFailed(c)
  <2>1. d \in Dto /\ d.status \notin Unfinished
    BY <1>1, <1>5 DEF PollFailed, Unfinished
  <2>2. PICK s : /\ s = Patched(history[i], d)
                 /\ history' = [j \in Visible |-> IF j = i THEN s ELSE history[j]]
    BY <1>5 DEF PollFailed, Update
  <2>3. i \in Visible => s \in Shown /\ s.status \notin Unfinished
    BY <1>2, <2>1, <2>2, PatchedIs
  <2>4. Visible' = Visible /\ \A j \in Visible : history'[j] = IF j = i THEN s ELSE history[j]
    BY <2>2, <2>3, UpdateIs
  <2>5. PICK new : calls' = [calls EXCEPT ![c] = new] /\ new.kind # "get"
    BY <1>5, IdleIs DEF PollFailed, Closed
  <2>6. PICK k \in Ids : k = i
    BY <1>1
  <2>7. k \in Ids /\ calls[c].kind = "get" /\ calls[c].id = k
    BY <1>1, <2>6
  <2>8. pollers' = pollers \ {k} /\ UNCHANGED <<timers, patched, cut>>
    BY <1>5, <2>6 DEF PollFailed
  <2>9. \A j \in Visible' :
           /\ j \in Visible
           /\ history'[j].status \in Unfinished => j # k /\ history[j].status \in Unfinished
    BY <2>3, <2>4, <2>6
  <2> QED
    BY <2>5, <2>7, <2>8, <2>9, PollEnds
<1>6. CASE PollCompleted(c)
  <2>1. d \in Dto /\ d.status \notin Unfinished
    BY <1>1, <1>6 DEF PollCompleted, Unfinished
  <2>2. PICK s : /\ s \in {Patched(history[i], d), NoImage(Patched(history[i], d))}
                 /\ history' = [j \in Visible |-> IF j = i THEN s ELSE history[j]]
    BY <1>6 DEF PollCompleted, Update
  <2>3. i \in Visible => s \in Shown /\ s.status \notin Unfinished
    BY <1>2, <2>1, <2>2, PatchedIs
  <2>4. Visible' = Visible /\ \A j \in Visible : history'[j] = IF j = i THEN s ELSE history[j]
    BY <2>2, <2>3, UpdateIs
  <2>5. PICK new : calls' = [calls EXCEPT ![c] = new] /\ new.kind # "get"
    BY <1>6, IdleIs DEF PollCompleted, LoadImage, Closed, Request
  <2> HIDE DEF d
  <2> QED
    BY <1>1, <1>6, <2>3, <2>4, <2>5, PollEnds DEF PollCompleted
<1> QED
  BY <1>3, <1>4, <1>5, <1>6

\* Pages, and the records the user adds or retries, are polled from then on.
LEMMA StartPolls ==
  ASSUME PollInv, TypeOK, ReplyInv, NEW c \in Slots,
         Hydrated(c) \/ PageLoaded(c) \/ Created(c) \/ Retried(c)
  PROVE  PollInv'
<1> DEFINE i == calls[c].id
           dtos == calls[c].dtos
<1>1. /\ calls[c].kind # "get" /\ calls' = Closed(c)
      /\ dtos \in Partial(Ids, Dto) /\ UNCHANGED patched
  BY ReplyIs DEF Hydrated, PageLoaded, Created, Retried, Kinds
<1>2. \A j \in Ids : Gets(j)' = Gets(j)
  BY <1>1, OtherClosed
<1>3. UnfinishedIn(dtos) \subseteq Ids /\ DOMAIN dtos \subseteq Ids
  BY <1>1, PartialIs DEF UnfinishedIn
<1>4. CASE Hydrated(c)
  <2>1. Visible' = DOMAIN dtos /\ \A j \in DOMAIN dtos : history'[j].status = dtos[j].status
    BY <1>1, <1>4, LoadIs DEF Hydrated
  <2>2. StartPolling(UnfinishedIn(dtos))
    BY <1>4 DEF Hydrated
  <2>3. \A j \in Visible' : history'[j].status \in Unfinished => j \in UnfinishedIn(dtos)
    BY <2>1 DEF UnfinishedIn
  <2> QED
    BY <1>1, <1>2, <1>3, <2>2, <2>3, StartFrame
<1>5. CASE PageLoaded(c)
  <2>1. /\ Visible' = Visible \cup DOMAIN dtos
        /\ \A j \in DOMAIN dtos : history'[j].status = dtos[j].status
        /\ \A j \in Visible' \ DOMAIN dtos : history'[j] = history[j]
    BY <1>1, <1>5, MergeIs DEF PageLoaded
  <2>2. StartPolling(UnfinishedIn(dtos))
    BY <1>5 DEF PageLoaded
  <2>3. \A j \in Visible' : history'[j].status \in Unfinished =>
            j \in UnfinishedIn(dtos) \/ (j \in Visible /\ history[j].status \in Unfinished)
    BY <2>1 DEF UnfinishedIn
  <2> QED
    BY <1>1, <1>2, <1>3, <2>2, <2>3, StartFrame
<1>6. CASE Created(c)
  <2>1. /\ Visible' = Visible \cup DOMAIN dtos
        /\ \A j \in Visible' \ DOMAIN dtos : history'[j] = history[j]
    BY <1>1, <1>6, MergeIs DEF Created
  <2>2. StartPolling(DOMAIN dtos)
    BY <1>6 DEF Created
  <2>3. \A j \in Visible' : history'[j].status \in Unfinished =>
            j \in DOMAIN dtos \/ (j \in Visible /\ history[j].status \in Unfinished)
    BY <2>1
  <2> QED
    BY <1>1, <1>2, <1>3, <2>2, <2>3, StartFrame
<1>7. CASE Retried(c)
  <2>1. i \in Ids /\ dtos[i] \in Dto /\ StartPolling({i})
    BY <1>7, ReplyIs DEF Retried, Kinds
  <2>2. history' = [j \in Visible |-> IF j = i THEN NoImage(Patched(history[i], dtos[i])) ELSE history[j]]
    BY <1>7 DEF Retried, Update
  <2>3. i \in Visible => NoImage(Patched(history[i], dtos[i])) \in Shown
    BY <2>1, VisibleIs, PatchedIs
  <2>4. Visible' = Visible /\ \A j \in Visible : j = i \/ history'[j] = history[j]
    BY <2>2, <2>3, UpdateIs
  <2> QED
    BY <1>1, <1>2, <2>1, <2>4, StartFrame
<1> QED
  BY <1>4, <1>5, <1>6, <1>7

LEMMA UpdatedPolls ==
  ASSUME PollInv, TypeOK, ReplyInv, NEW c \in Slots, Updated(c)
  PROVE  PollInv'
<1> DEFINE i == calls[c].id
           d == calls[c].dtos[i]
<1>1. calls[c].kind # "get" /\ calls' = Closed(c) /\ i \in Ids /\ d \in Dto
  BY ReplyIs DEF Updated, Kinds
<1>2. \A j \in Ids : Gets(j)' = Gets(j)
  BY <1>1, OtherClosed
<1>3. UNCHANGED <<pollers, timers, cut>> /\ patched' = patched \cup {i}
  BY DEF Updated
<1>4. history' = [j \in Visible |-> IF j = i THEN Patched(history[i], d) ELSE history[j]]
  BY DEF Updated, Update
<1>5. i \in Visible => Patched(history[i], d) \in Shown
  BY <1>1, VisibleIs, PatchedIs
<1>6. Visible' = Visible /\ \A j \in Visible : j = i \/ history'[j] = history[j]
  BY <1>4, <1>5, UpdateIs
<1>7. \A j \in Ids : Chained(j)' <=> Chained(j)
  BY <1>2, <1>3 DEF Chained
<1>8. PolledIsAlive' /\ OneChain'
  BY <1>2, <1>3, <1>7 DEF PollInv, PolledIsAlive, OneChain, TypeOK
<1>9. UnfinishedIsPolled'
  BY <1>3, <1>6 DEF PollInv, UnfinishedIsPolled
<1> QED
  BY <1>8, <1>9 DEF PollInv

LEMMA DeletedPolls ==
  ASSUME PollInv, TypeOK, ReplyInv, NEW c \in Slots, Deleted(c)
  PROVE  PollInv'
<1> DEFINE i == calls[c].id
<1>1. calls[c].kind # "get" /\ calls' = Closed(c) /\ i \in Ids
  BY ReplyIs DEF Deleted, Kinds
<1>2. \A j \in Ids : Gets(j)' = Gets(j)
  BY <1>1, OtherClosed
<1>3. /\ UNCHANGED <<timers, patched>> /\ pollers' = pollers \ {i}
      /\ cut' = cut \cup {j \in {i} : Chained(j)}
  BY DEF Deleted
<1>4. Visible' = Visible \ {i} /\ \A j \in Visible' : history'[j] = history[j]
  BY DropIs DEF Deleted
<1>5. \A j \in Ids : Chained(j)' <=> Chained(j)
  BY <1>2, <1>3 DEF Chained
<1>6. PolledIsAlive'
  BY <1>3, <1>5 DEF PollInv, PolledIsAlive, TypeOK
<1>7. OneChain'
  <2> SUFFICES ASSUME NEW j \in Ids \ cut'
               PROVE  /\ timers[j] \in {0, 1} /\ (timers[j] = 1 => Gets(j)' = {})
                      /\ \A a, b \in Gets(j)' : a = b
                      /\ Chained(j)' => j \in pollers'
    BY <1>3 DEF OneChain
  <2>1. j \notin cut /\ (j = i => ~Chained(j))
    BY <1>3
  <2>2. /\ timers[j] \in {0, 1} /\ (timers[j] = 1 => Gets(j) = {})
        /\ \A a, b \in Gets(j) : a = b
        /\ Chained(j) => j \in pollers
    BY <2>1 DEF PollInv, OneChain
  <2> QED
    BY <1>2, <1>3, <1>5, <2>1, <2>2
<1>8. UnfinishedIsPolled'
  BY <1>3, <1>4 DEF PollInv, UnfinishedIsPolled
<1> QED
  BY <1>6, <1>7, <1>8 DEF PollInv

\* Whoever logs in or out leaves every chain there is to end by itself.
LEMMA SwitchPolls ==
  ASSUME PollInv, TypeOK, NEW u, NEW c \in Slots, SwitchUser(u, c)
  PROVE  PollInv'
<1>1. /\ history' = Empty /\ pollers' = {} /\ UNCHANGED timers
      /\ cut' = cut \cup {i \in Ids : Chained(i)}
  BY DEF SwitchUser
<1>2. \A i \in Ids : (Chained(i)' <=> Chained(i)) /\ Gets(i)' = Gets(i)
  BY <1>1, SwitchCalls DEF Chained
<1>3. OneChain'
  <2> SUFFICES ASSUME NEW i \in Ids \ cut'
               PROVE  timers[i] = 0 /\ Gets(i)' = {} /\ ~Chained(i)'
    BY <1>1 DEF OneChain
  <2> QED
    BY <1>1, <1>2 DEF Chained, TypeOK
<1>4. Visible' = {}
  BY <1>1 DEF Visible, Empty
<1> QED
  BY <1>1, <1>3, <1>4 DEF PollInv, PolledIsAlive, UnfinishedIsPolled

\* Every other answer: no poll is registered or given up, and no status changes.
LEMMA OtherPolls ==
  ASSUME PollInv, TypeOK, ReplyInv, NEW c \in Slots,
         \/ ImageLoaded(c) \/ ImageFailed(c) \/ CallFails(c) \/ UpdateFails(c)
         \/ HydrateFails(c) \/ HydrateCancelled(c)
  PROVE  PollInv'
<1> DEFINE i == calls[c].id
<1>1. calls[c].kind # "get" /\ calls' = Closed(c) /\ UNCHANGED refVars
  BY ReplyIs DEF ImageLoaded, ImageFailed, CallFails, UpdateFails, HydrateFails, HydrateCancelled, Kinds
<1>2. \A j \in Ids : Gets(j)' = Gets(j)
  BY <1>1, OtherClosed
<1>3. Visible' = Visible /\ \A j \in Visible : history'[j].status = history[j].status
  <2>1. CASE CallFails(c) \/ HydrateFails(c) \/ HydrateCancelled(c)
    BY <2>1 DEF CallFails, HydrateFails, HydrateCancelled, stateVars, Visible
  <2>2. CASE ImageLoaded(c) \/ ImageFailed(c)
    <3>1. PICK x \in {"url", "error"} :
            history' = [j \in Visible |-> IF j = i THEN [history[i] EXCEPT !.image = x] ELSE history[j]]
      BY <2>2 DEF ImageLoaded, ImageFailed, Update
    <3>2. i \in Visible => /\ [history[i] EXCEPT !.image = x] \in Shown
                           /\ [history[i] EXCEPT !.image = x].status = history[i].status
      BY VisibleIs, ImageIs
    <3> QED
      BY <3>1, <3>2, UpdateIs
  <2>3. CASE UpdateFails(c)
    <3> DEFINE s == [history[i] EXCEPT !.favorite = calls[c].favorite]
    <3>1. history' = [j \in Visible |-> IF j = i THEN s ELSE history[j]]
      BY <2>3 DEF UpdateFails, Update
    <3>2. calls[c].favorite \in BOOLEAN
      BY <2>3, ReplyIs DEF UpdateFails, Kinds, Good, Call
    <3>3. i \in Visible => s \in Shown /\ s.status = history[i].status
      BY <3>2, VisibleIs DEF Shown
    <3> HIDE DEF s
    <3> QED
      BY <3>1, <3>3, UpdateIs
  <2> QED
    BY <2>1, <2>2, <2>3
<1> QED
  BY <1>1, <1>2, <1>3, PollFrame

\* What the user, the server and the network do besides.
LEMMA RestPolls ==
  ASSUME PollInv, TypeOK, ReplyInv, NEW c \in Slots, NEW i \in Ids,
         \/ Serve(c) \/ Lose(c) \/ Advance(i) \/ Remote(i) \/ UNCHANGED vars
         \/ LoadPage(c) \/ Create(c) \/ Retry(i, c) \/ ToggleFavorite(i, c) \/ Delete(i, c)
  PROVE  PollInv' /\ (\A j : Loads(j)' = Loads(j)) /\ UNCHANGED <<history, imageVars>>
<1>1. UNCHANGED <<history, refVars, imageVars>>
  BY DEF Serve, Lose, Advance, Remote, vars, LoadPage, Create, Retry, ToggleFavorite, Delete, stateVars
<1>2. \A j : Gets(j)' = Gets(j) /\ Loads(j)' = Loads(j)
  <2>1. CASE Serve(c) \/ Lose(c)
    BY <2>1, ServeStep, LoseStep, SameCalls
  <2>2. CASE Advance(i) \/ Remote(i) \/ UNCHANGED vars
    BY <2>2, SameCalls DEF Advance, Remote, vars
  <2>3. CASE LoadPage(c) \/ Create(c) \/ Retry(i, c) \/ ToggleFavorite(i, c) \/ Delete(i, c)
    BY <2>3, OtherSent DEF LoadPage, Create, Retry, ToggleFavorite, Delete, Kinds
  <2> QED
    BY <2>1, <2>2, <2>3
<1>3. \A j \in Visible' : j \in Visible /\ history'[j] = history[j]
  BY <1>1 DEF Visible
<1> QED
  BY <1>1, <1>2, <1>3, PollFrame

\* Every step keeps the polls right.
LEMMA PollStep ==
  ASSUME PollInv, TypeOK, ReplyInv, [Next]_vars
  PROVE  PollInv'
<1>1. ASSUME NEW c \in Slots, Handle(c) PROVE PollInv'
  BY <1>1, AnswerPolls, StartPolls, UpdatedPolls, DeletedPolls, OtherPolls DEF Handle
<1>2. ASSUME NEW i \in Ids, NEW c \in Slots, ReloadImage(i, c) PROVE PollInv'
  <2>1. /\ calls' = [calls EXCEPT ![c] = Request("image", i, FALSE)] /\ calls[c].kind = "none"
        /\ UNCHANGED refVars
    BY <1>2, IdleIs DEF ReloadImage, LoadImage
  <2>0. Request("image", i, FALSE).kind # "get"
    BY DEF Request
  <2>2. PICK new : calls' = [calls EXCEPT ![c] = new] /\ new.kind # "get"
    BY <2>0, <2>1
  <2>3. \A j \in Ids : Gets(j)' = Gets(j)
    BY <2>1, <2>2, OtherCall
  <2>4. history' = [j \in Visible |-> IF j = i THEN NoImage(history[i]) ELSE history[j]]
    BY <1>2 DEF ReloadImage, Update
  <2>5. i \in Visible => NoImage(history[i]) \in Shown /\ NoImage(history[i]).status = history[i].status
    BY VisibleIs, ImageIs DEF NoImage
  <2>6. Visible' = Visible /\ \A j \in Visible : history'[j].status = history[j].status
    BY <2>4, <2>5, UpdateIs
  <2> QED
    BY <2>1, <2>3, <2>6, PollFrame
<1>3. ASSUME NEW c \in Slots, UserStep(c) PROVE PollInv'
  <2>1. ASSUME NEW i \in Ids, Retry(i, c) \/ ToggleFavorite(i, c) \/ Delete(i, c) PROVE PollInv'
    BY <2>1, RestPolls
  <2>2. CASE LoadPage(c) \/ Create(c)
    <3>1. \A j : Gets(j)' = Gets(j)
      BY <2>2, OtherSent DEF LoadPage, Create, Kinds
    <3>2. UNCHANGED refVars /\ UNCHANGED history
      BY <2>2 DEF LoadPage, Create, stateVars
    <3>3. \A j \in Visible' : j \in Visible /\ history'[j] = history[j]
      BY <3>2 DEF Visible
    <3> QED
      BY <3>1, <3>2, <3>3, PollFrame
  <2>3. ASSUME NEW u, SwitchUser(u, c) PROVE PollInv'
    BY <2>3, SwitchPolls
  <2> QED
    BY <1>2, <1>3, <2>1, <2>2, <2>3 DEF UserStep
<1>4. ASSUME NEW c \in Slots, Serve(c) \/ Lose(c) PROVE PollInv'
  <2>1. \A j : Gets(j)' = Gets(j)
    BY <1>4, ServeStep, LoseStep, SameCalls
  <2>2. UNCHANGED refVars /\ UNCHANGED history
    BY <1>4 DEF Serve, Lose, stateVars
  <2>3. \A j \in Visible' : j \in Visible /\ history'[j] = history[j]
    BY <2>2 DEF Visible
  <2> QED
    BY <2>1, <2>2, <2>3, PollFrame
<1>5. CASE UNCHANGED calls /\ UNCHANGED refVars /\ UNCHANGED history
  <2>1. \A j : Gets(j)' = Gets(j)
    BY <1>5 DEF Gets, Open
  <2>2. \A j \in Visible' : j \in Visible /\ history'[j] = history[j]
    BY <1>5 DEF Visible
  <2> QED
    BY <1>5, <2>1, <2>2, PollFrame
<1>6. ASSUME NEW i \in Ids, Advance(i) \/ Remote(i) PROVE PollInv'
  BY <1>5, <1>6 DEF Advance, Remote, stateVars
<1>7. ASSUME NEW i \in Ids, NEW c \in Slots, Tick(i, c) PROVE PollInv'
  BY <1>7, TickPolls
<1>8. CASE UNCHANGED vars
  BY <1>5, <1>8 DEF vars, stateVars
<1> QED
  BY <1>1, <1>3, <1>4, <1>6, <1>7, <1>8 DEF Next

-----------------------------------------------------------------------------
(* Images.                                                                 *)

ImageInv == LoaderIsAlive /\ LoadingHasNoUrl /\ ShownImageIsLive /\ NoUrlLost

\* A step that loads no image, and shows none that was not shown before.
LEMMA ImageFrame ==
  ASSUME ImageInv, UNCHANGED imageVars, \A i \in Ids : Loads(i)' = Loads(i),
         \A i \in Visible' : history'[i].image = "url" => i \in Visible /\ history[i].image = "url"
  PROVE  ImageInv'
  BY DEF ImageInv, LoaderIsAlive, LoadingHasNoUrl, ShownImageIsLive, NoUrlLost, imageVars

\* A load starts: the object URL is revoked, and the record shows it no more.
LEMMA LoadStarts ==
  ASSUME ImageInv, TypeOK, NEW i \in Ids \ loaders, NEW c \in Slots, LoadImage(i, c),
         calls[c].kind # "image", UNCHANGED lost,
         \A j \in Visible' : history'[j].image = "url" =>
             j # i /\ j \in Visible /\ history[j].image = "url"
  PROVE  ImageInv'
<1>1. /\ loaders' = loaders \cup {i} /\ blobs \in [Ids -> {"none", "live", "revoked"}]
      /\ blobs' = [blobs EXCEPT ![i] = IF @ = "live" THEN "revoked" ELSE @]
  BY DEF LoadImage, TypeOK
<1>2. \A j \in Ids : Loads(j)' = IF j = i THEN {c} ELSE Loads(j)
  <2>0. /\ Request("image", i, FALSE).kind = "image" /\ Request("image", i, FALSE).id = i
        /\ calls' = [calls EXCEPT ![c] = Request("image", i, FALSE)] /\ CallsType
    BY DEF Request, LoadImage, TypeOK, CallsType
  <2>1. PICK new : new.kind = "image" /\ new.id = i /\ calls' = [calls EXCEPT ![c] = new] /\ CallsType
    BY <2>0
  <2>2. \A j : /\ Gets(j)'  = (Gets(j) \ {c}) \cup (IF new.kind = "get" /\ new.id = j THEN {c} ELSE {})
               /\ Loads(j)' = (Loads(j) \ {c}) \cup (IF new.kind = "image" /\ new.id = j THEN {c} ELSE {})
    BY <2>1, OneCall
  <2>3. \A j : c \notin Loads(j)
    BY GetsAre
  <2>4. Loads(i) = {}
    BY DEF ImageInv, LoaderIsAlive
  <2> QED
    BY <2>1, <2>2, <2>3, <2>4
<1>3. LoaderIsAlive'
  BY <1>1, <1>2 DEF ImageInv, LoaderIsAlive
<1>4. LoadingHasNoUrl'
  BY <1>1 DEF ImageInv, LoadingHasNoUrl, TypeOK
<1>5. ShownImageIsLive'
  <2>1. \A j \in Visible : j \in Ids
    BY VisibleIs
  <2> QED
    BY <1>1, <2>1 DEF ImageInv, ShownImageIsLive
<1> QED
  BY <1>3, <1>4, <1>5 DEF ImageInv, NoUrlLost

\* The load of an image ends.
LEMMA LoadEnds ==
  ASSUME ImageInv, TypeOK, ReplyInv, NEW c \in Slots, ImageLoaded(c) \/ ImageFailed(c)
  PROVE  ImageInv'
<1>0. PICK i : i = calls[c].id
  OBVIOUS
<1>1. /\ calls[c].kind = "image" /\ i \in Ids /\ calls' = Closed(c)
      /\ loaders' = loaders \ {i} /\ blobs \in [Ids -> {"none", "live", "revoked"}]
  BY <1>0, ReplyIs DEF ImageLoaded, ImageFailed, Kinds, TypeOK
<1>2. \A j \in Ids : Loads(j)' = Loads(j) \ {c}
  <2>1. CallsType /\ calls' = [calls EXCEPT ![c] = Idle] /\ Idle.kind # "image"
    BY <1>1, IdleIs DEF TypeOK, CallsType, Closed
  <2>2. \A j : Loads(j)' = (Loads(j) \ {c}) \cup (IF Idle.kind = "image" /\ Idle.id = j THEN {c} ELSE {})
    BY <2>1, OneCall
  <2> QED
    BY <2>1, <2>2
<1>3. c \in Loads(i) /\ \A j \in Ids \ {i} : c \notin Loads(j)
  BY <1>0, <1>1, GetsAre
<1>4. i \in loaders /\ Loads(i)' = {}
  <2>1. i \in loaders /\ \A a, b \in Loads(i) : a = b
    BY <1>1, <1>3 DEF ImageInv, LoaderIsAlive
  <2>2. \A a \in Loads(i) : a = c
    BY <1>3, <2>1
  <2>3. Loads(i)' = Loads(i) \ {c}
    BY <1>1, <1>2
  <2> QED
    BY <2>1, <2>2, <2>3
<1>5. LoaderIsAlive'
  BY <1>1, <1>2, <1>3, <1>4 DEF ImageInv, LoaderIsAlive
<1>6. blobs[i] # "live"
  BY <1>4 DEF ImageInv, LoadingHasNoUrl
<1>7. NoUrlLost' /\ LoadingHasNoUrl' /\ \A j \in Ids \ {i} : blobs'[j] = blobs[j]
  BY <1>0, <1>1, <1>6 DEF ImageInv, NoUrlLost, LoadingHasNoUrl, ImageLoaded, ImageFailed, TypeOK
<1>8. ShownImageIsLive'
  <2>1. PICK x \in {"url", "error"} :
          /\ history' = [j \in Visible |-> IF j = i THEN [history[i] EXCEPT !.image = x] ELSE history[j]]
          /\ x = "url" => blobs'[i] = "live"
    BY <1>0, <1>1 DEF ImageLoaded, ImageFailed, Update, TypeOK
  <2>2. i \in Visible => /\ [history[i] EXCEPT !.image = x] \in Shown
                         /\ [history[i] EXCEPT !.image = x].image = x
    <3>1. i \in Visible => history[i] \in Shown
      BY VisibleIs
    <3>2. x \in {"none", "url", "error"}
      OBVIOUS
    <3> QED
      BY <3>1, <3>2, ImageIs
  <2>3. /\ Visible' = Visible
        /\ \A j \in Visible : history'[j] = IF j = i THEN [history[i] EXCEPT !.image = x] ELSE history[j]
    BY <2>1, <2>2, UpdateIs
  <2>4. \A j \in Visible : j \in Ids
    BY VisibleIs
  <2> QED
    BY <1>7, <2>1, <2>2, <2>3, <2>4 DEF ImageInv, ShownImageIsLive
<1> QED
  BY <1>5, <1>7, <1>8 DEF ImageInv

LEMMA SwitchImages ==
  ASSUME ImageInv, TypeOK, NEW u, NEW c \in Slots, SwitchUser(u, c)
  PROVE  ImageInv'
<1>1. history' = Empty /\ blobs' = [i \in Ids |-> "none"] /\ UNCHANGED <<loaders, lost>>
  BY DEF SwitchUser
<1>2. \A i \in Ids : Loads(i)' = Loads(i)
  BY SwitchCalls
<1>3. Visible' = {}
  BY <1>1 DEF Visible, Empty
<1> QED
  BY <1>1, <1>2, <1>3 DEF ImageInv, LoaderIsAlive, LoadingHasNoUrl, ShownImageIsLive, NoUrlLost, TypeOK

\* A poll that finds its record completed loads the image, unless it is being loaded.
LEMMA CompletedImages ==
  ASSUME ImageInv, TypeOK, ReplyInv, NEW c \in Slots, PollCompleted(c)
  PROVE  ImageInv'
<1> DEFINE i == calls[c].id
           d == calls[c].dtos[i]
<1>1. calls[c].kind = "get" /\ i \in Ids /\ d \in Dto /\ UNCHANGED lost
  BY ReplyIs DEF PollCompleted, Kinds
<1>2. i \in Visible => history[i] \in Shown
  BY VisibleIs
<1>3. CASE /\ i \notin loaders
           /\ LoadImage(i, c)
           /\ history' = Update(i, LAMBDA r : NoImage(Patched(r, d)))
  <2>1. history' = [j \in Visible |-> IF j = i THEN NoImage(Patched(history[i], d)) ELSE history[j]]
    BY <1>3 DEF Update
  <2>2. i \in Visible => /\ NoImage(Patched(history[i], d)) \in Shown
                         /\ NoImage(Patched(history[i], d)).image = "none"
    BY <1>1, <1>2, PatchedIs
  <2>3. \A j \in Visible' : history'[j].image = "url" => j # i /\ j \in Visible /\ history[j].image = "url"
    BY <2>1, <2>2, UpdateIs
  <2> QED
    BY <1>1, <1>3, <2>3, LoadStarts
<1>4. CASE /\ calls' = Closed(c)
           /\ history' = Update(i, LAMBDA r : Patched(r, d))
           /\ UNCHANGED <<loaders, blobs>>
  <2>1. history' = [j \in Visible |-> IF j = i THEN Patched(history[i], d) ELSE history[j]]
    BY <1>4 DEF Update
  <2>2. i \in Visible => /\ Patched(history[i], d) \in Shown
                         /\ Patched(history[i], d).image = history[i].image
    BY <1>1, <1>2, PatchedIs
  <2>3. \A j \in Visible' : history'[j].image = "url" => j \in Visible /\ history[j].image = "url"
    BY <2>1, <2>2, UpdateIs
  <2>4. \A j \in Ids : Loads(j)' = Loads(j)
    BY <1>1, <1>4, OtherClosed
  <2> QED
    BY <1>1, <1>4, <2>3, <2>4, ImageFrame DEF imageVars
<1> QED
  BY <1>3, <1>4 DEF PollCompleted

\* Every other answer: no image is loaded, and none appears.
LEMMA OtherImages ==
  ASSUME ImageInv, TypeOK, ReplyInv, NEW c \in Slots,
         \/ PollFails(c) \/ PollUnfinished(c) \/ PollFailed(c)
         \/ HydrateCancelled(c) \/ Hydrated(c) \/ HydrateFails(c)
         \/ PageLoaded(c) \/ CallFails(c) \/ Created(c) \/ Retried(c)
         \/ Updated(c) \/ UpdateFails(c) \/ Deleted(c)
  PROVE  ImageInv'
<1> DEFINE i == calls[c].id
           dtos == calls[c].dtos
<1>1. calls[c].kind # "image" /\ calls' = Closed(c) /\ UNCHANGED imageVars
  BY ReplyIs DEF PollFails, PollUnfinished, PollFailed, HydrateCancelled, Hydrated, HydrateFails,
                 PageLoaded, CallFails, Created, Retried, Updated, UpdateFails, Deleted, Kinds
<1>2. \A j \in Ids : Loads(j)' = Loads(j)
  BY <1>1, OtherClosed
<1>3. \A j \in Visible' : history'[j].image = "url" => j \in Visible /\ history[j].image = "url"
  <2>1. CASE PollFails(c) \/ HydrateCancelled(c) \/ HydrateFails(c) \/ CallFails(c)
    BY <2>1 DEF PollFails, HydrateCancelled, HydrateFails, CallFails, stateVars, Visible
  <2>2. CASE PollUnfinished(c) \/ PollFailed(c) \/ Updated(c)
    <3>1. dtos[i] \in Dto
      BY <2>2, ReplyIs DEF PollUnfinished, PollFailed, Updated, Kinds
    <3>2. history' = [j \in Visible |-> IF j = i THEN Patched(history[i], dtos[i]) ELSE history[j]]
      BY <2>2 DEF PollUnfinished, PollFailed, Updated, Update
    <3>3. i \in Visible => /\ Patched(history[i], dtos[i]) \in Shown
                           /\ Patched(history[i], dtos[i]).image = history[i].image
      BY <3>1, VisibleIs, PatchedIs
    <3> QED
      BY <3>2, <3>3, UpdateIs
  <2>3. CASE Retried(c)
    <3>1. dtos[i] \in Dto
      BY <2>3, ReplyIs DEF Retried, Kinds
    <3>2. history' = [j \in Visible |-> IF j = i THEN NoImage(Patched(history[i], dtos[i])) ELSE history[j]]
      BY <2>3 DEF Retried, Update
    <3>3. i \in Visible => /\ NoImage(Patched(history[i], dtos[i])) \in Shown
                           /\ NoImage(Patched(history[i], dtos[i])).image = "none"
      BY <3>1, VisibleIs, PatchedIs
    <3> QED
      BY <3>2, <3>3, UpdateIs
  <2>4. CASE UpdateFails(c)
    <3> DEFINE s == [history[i] EXCEPT !.favorite = calls[c].favorite]
    <3>1. history' = [j \in Visible |-> IF j = i THEN s ELSE history[j]]
      BY <2>4 DEF UpdateFails, Update
    <3>2. calls[c].favorite \in BOOLEAN
      BY <2>4, ReplyIs DEF UpdateFails, Kinds, Good, Call
    <3>3. i \in Visible => s \in Shown /\ s.image = history[i].image
      BY <3>2, VisibleIs DEF Shown
    <3> HIDE DEF s
    <3> QED
      BY <3>1, <3>3, UpdateIs
  <2>5. CASE Hydrated(c)
    <3>1. dtos \in Partial(Ids, Dto) /\ history' = Load(dtos)
      BY <2>5, ReplyIs DEF Hydrated, Kinds
    <3> QED
      BY <3>1, LoadIs
  <2>6. CASE PageLoaded(c) \/ Created(c)
    <3>1. dtos \in Partial(Ids, Dto) /\ history' = Merge(dtos)
      BY <2>6, ReplyIs DEF PageLoaded, Created, Kinds
    <3> QED
      BY <3>1, MergeIs
  <2>7. CASE Deleted(c)
    BY <2>7, DropIs DEF Deleted
  <2> QED
    BY <2>1, <2>2, <2>3, <2>4, <2>5, <2>6, <2>7
<1> QED
  BY <1>1, <1>2, <1>3, ImageFrame

\* Every step keeps the images right.
LEMMA ImageStep ==
  ASSUME ImageInv, TypeOK, ReplyInv, [Next]_vars
  PROVE  ImageInv'
<1>1. ASSUME NEW c \in Slots, Handle(c) PROVE ImageInv'
  BY <1>1, LoadEnds, CompletedImages, OtherImages DEF Handle
<1>2. ASSUME NEW i \in Ids, NEW c \in Slots, ReloadImage(i, c) PROVE ImageInv'
  <2>1. i \notin loaders /\ LoadImage(i, c) /\ calls[c].kind # "image" /\ UNCHANGED lost
    BY <1>2, IdleIs DEF ReloadImage
  <2>2. history' = [j \in Visible |-> IF j = i THEN NoImage(history[i]) ELSE history[j]]
    BY <1>2 DEF ReloadImage, Update
  <2>3. i \in Visible => NoImage(history[i]) \in Shown /\ NoImage(history[i]).image = "none"
    BY VisibleIs, ImageIs DEF NoImage
  <2>4. \A j \in Visible' : history'[j].image = "url" => j # i /\ j \in Visible /\ history[j].image = "url"
    BY <2>2, <2>3, UpdateIs
  <2> QED
    BY <2>1, <2>4, LoadStarts
<1>3. ASSUME UNCHANGED history, UNCHANGED imageVars, \A j \in Ids : Loads(j)' = Loads(j)
      PROVE  ImageInv'
  BY <1>3, ImageFrame DEF Visible
<1>4. ASSUME NEW c \in Slots, UserStep(c) PROVE ImageInv'
  <2>1. CASE LoadPage(c) \/ Create(c) \/ \E i \in Ids : Retry(i, c) \/ ToggleFavorite(i, c) \/ Delete(i, c)
    <3>1. \A j : Loads(j)' = Loads(j)
      BY <2>1, OtherSent DEF LoadPage, Create, Retry, ToggleFavorite, Delete, Kinds
    <3>2. UNCHANGED history /\ UNCHANGED imageVars
      BY <2>1 DEF LoadPage, Create, Retry, ToggleFavorite, Delete, stateVars
    <3> QED
      BY <1>3, <3>1, <3>2
  <2>2. ASSUME NEW u, SwitchUser(u, c) PROVE ImageInv'
    BY <2>2, SwitchImages
  <2> QED
    BY <1>2, <1>4, <2>1, <2>2 DEF UserStep
<1>5. ASSUME NEW c \in Slots, Serve(c) \/ Lose(c) PROVE ImageInv'
  <2>1. \A j : Loads(j)' = Loads(j)
    BY <1>5, ServeStep, LoseStep, SameCalls
  <2> QED
    BY <1>3, <1>5, <2>1 DEF Serve, Lose, stateVars
<1>6. CASE UNCHANGED calls /\ UNCHANGED imageVars /\ UNCHANGED history
  <2>1. \A j : Loads(j)' = Loads(j)
    BY <1>6 DEF Loads, Open
  <2> QED
    BY <1>3, <1>6, <2>1
<1>7. ASSUME NEW i \in Ids, Advance(i) \/ Remote(i) PROVE ImageInv'
  BY <1>6, <1>7 DEF Advance, Remote, stateVars
<1>8. ASSUME NEW i \in Ids, NEW c \in Slots, Tick(i, c) PROVE ImageInv'
  <2>1. \A j : Loads(j)' = Loads(j)
    <3>1. CASE UNCHANGED calls
      BY <3>1 DEF Loads, Open
    <3>2. CASE Send(c, "get", i, FALSE)
      <4>1. calls' = [calls EXCEPT ![c] = Request("get", i, FALSE)] /\ calls[c].kind = "none"
        BY <3>2, IdleIs DEF Send
      <4>2. Request("get", i, FALSE).kind # "image"
        BY DEF Request
      <4>3. PICK new : calls' = [calls EXCEPT ![c] = new] /\ new.kind # "image"
        BY <4>1, <4>2
      <4> QED
        BY <4>1, <4>3, OtherCall
    <3> QED
      BY <1>8, <3>1, <3>2 DEF Tick
  <2> QED
    BY <1>3, <1>8, <2>1 DEF Tick, stateVars
<1>9. CASE UNCHANGED vars
  BY <1>6, <1>9 DEF vars, stateVars
<1> QED
  BY <1>1, <1>4, <1>5, <1>7, <1>8, <1>9 DEF Next

-----------------------------------------------------------------------------
(* The invariant, and what follows from it.                                *)

LEMMA ClientInvIs == ClientInv <=> TypeOK /\ ReplyInv /\ PollInv /\ ImageInv
  BY DEF ClientInv, PollInv, ImageInv

LEMMA InitIs == Init => ClientInv
<1> SUFFICES ASSUME Init PROVE ClientInv
  OBVIOUS
<1>1. TypeOK
  <2>1. rows \in [Ids -> Row]
    <3>1. rows \in [Ids -> InitialRow]
      BY DEF Init
    <3>2. InitialRow \subseteq Row
      <4>1. [owner |-> NoUser, status |-> "unborn", favorite |-> FALSE] \in Row
        BY DEF Row
      <4>2. [owner : Accounts, status : Statuses, favorite : {FALSE}] \subseteq Row
        BY DEF Row
      <4> QED
        BY <4>1, <4>2 DEF InitialRow
    <3> QED
      BY <3>1, <3>2
  <2>2. history \in Partial(Ids, Shown)
    BY EmptyIs DEF Init
  <2> QED
    BY <2>1, <2>2 DEF Init, TypeOK
<1>2. \A c \in Slots : ~Open(c)
  BY DEF Init, Open
<1>3. Visible = {}
  BY DEF Init, Visible, Empty
<1>4. \A i \in Ids : Gets(i) = {} /\ Loads(i) = {} /\ ~Chained(i) /\ timers[i] = 0
  <2>1. \A i \in Ids : timers[i] = 0
    BY DEF Init
  <2>2. \A i \in Ids : Gets(i) = {} /\ Loads(i) = {}
    BY <1>2 DEF Gets, Loads
  <2>3. \A i \in Ids : ~Chained(i)
    <3> SUFFICES ASSUME NEW i \in Ids PROVE ~(timers[i] > 0) /\ Gets(i) = {}
      BY DEF Chained
    <3>1. timers[i] = 0 /\ Gets(i) = {}
      BY <2>1, <2>2
    <3> QED
      BY <3>1
  <2> QED
    BY <2>1, <2>2, <2>3
<1>5. ReplyInv
  BY <1>2 DEF ReplyInv
<1>6. PollInv
  BY <1>3, <1>4 DEF PollInv, PolledIsAlive, OneChain, UnfinishedIsPolled, Init
<1>7. ImageInv
  BY <1>3, <1>4 DEF ImageInv, LoaderIsAlive, LoadingHasNoUrl, ShownImageIsLive, NoUrlLost, Init
<1> QED
  BY <1>1, <1>5, <1>6, <1>7, ClientInvIs

\* The invariant of the client: whatever the order in which answers, ticks, logins and deletes come,
\* types, answers, polls and image loads stay consistent with each other.
THEOREM ClientInvariant == Spec => []ClientInv
<1>1. ClientInv /\ [Next]_vars => ClientInv'
  <2> SUFFICES ASSUME ClientInv, [Next]_vars PROVE ClientInv'
    OBVIOUS
  <2>1. TypeOK /\ ReplyInv /\ PollInv /\ ImageInv
    BY ClientInvIs
  <2>2. TypeOK' /\ ReplyInv'
    BY <2>1, TypeStep
  <2>3. PollInv'
    BY <2>1, PollStep
  <2>4. ImageInv'
    BY <2>1, ImageStep
  <2> QED
    BY <2>2, <2>3, <2>4 DEF ClientInv, PollInv, ImageInv
<1> QED
  BY <1>1, InitIs, PTL DEF Spec

\* The types of the provider's state, its refs and the calls in flight.
THEOREM ClientTypeCorrect == Spec => []TypeOK
<1>1. ClientInv => TypeOK
  BY DEF ClientInv
<1> QED
  BY <1>1, ClientInvariant, PTL

\* No registration of a poll is left without a tick or a request, which startPolling would then
\* refuse to replace.
THEOREM PolledTheorem == Spec => []PolledIsAlive
<1>1. ClientInv => PolledIsAlive
  BY DEF ClientInv
<1> QED
  BY <1>1, ClientInvariant, PTL

\* A record shown unfinished is polled, but for the two ways out that the code has: the answer to an
\* update, and a poll that a delete or a wipe gave up while it was under way.
THEOREM UnfinishedTheorem == Spec => []UnfinishedIsPolled
<1>1. ClientInv => UnfinishedIsPolled
  BY DEF ClientInv
<1> QED
  BY <1>1, ClientInvariant, PTL

\* The mark that an image is being loaded stands for exactly one request.
THEOREM LoaderTheorem == Spec => []LoaderIsAlive
<1>1. ClientInv => LoaderIsAlive
  BY DEF ClientInv
<1> QED
  BY <1>1, ClientInvariant, PTL

\* No image on the screen has a revoked object URL.
THEOREM ShownImageTheorem == Spec => []ShownImageIsLive
<1>1. ClientInv => ShownImageIsLive
  BY DEF ClientInv
<1> QED
  BY <1>1, ClientInvariant, PTL

\* No object URL is replaced while it is live.
THEOREM NoUrlLostTheorem == Spec => []NoUrlLost
<1>1. ClientInv => NoUrlLost
  BY DEF ClientInv
<1> QED
  BY <1>1, ClientInvariant, PTL
=============================================================================
