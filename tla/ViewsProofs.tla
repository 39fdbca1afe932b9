---------------------------- MODULE ViewsProofs ----------------------------
(***************************************************************************)
(* What holds of the views of the client, for every value of the           *)
(* constants: the properties that Views names, each from an inductive      *)
(* invariant of its view.                                                  *)
(***************************************************************************)
EXTENDS Views, Sequences, FiniteSetTheorems, TLAPS

-----------------------------------------------------------------------------
(* Counting.                                                               *)

AtMostOne(S) == \A x, y \in S : x = y

LEMMA AtMostOneIs ==
  ASSUME NEW S, AtMostOne(S)
  PROVE  IsFiniteSet(S) /\ Cardinality(S) <= 1
<1>1. CASE S = {}
  BY <1>1, FS_EmptySet
<1>2. CASE S # {}
  <2>1. PICK x \in S : TRUE
    BY <1>2
  <2>2. S = {x}
    BY <2>1 DEF AtMostOne
  <2>3. IsFiniteSet({x}) /\ Cardinality({x}) = 1
    BY FS_Singleton, Zenon
  <2> QED
    BY <2>2, <2>3
<1> QED
  BY <1>1, <1>2

-----------------------------------------------------------------------------
(* The workbench.  The ratio and the images stay valid because a patch of  *)
(* the other parameters leaves the size alone; a link that has been        *)
(* followed is the one that was applied last.                              *)

BenDraft ==
    /\ ben_imageParams \in Ben!Params /\ ben_imageRatio \in Ben!Ratios
    /\ Ben!RatioOfSize
    /\ ben_referenceImages \in Int /\ Ben!ReferencesWithinLimit
    /\ \A b \in ben_reading : b \in [batch : {b.batch}, left : Int, accepted : Int]

BenLink == ben_opened \in {0, 1} /\ (ben_applied # ben_link => ben_opened = 0)

LEMMA BenDraftNext ==
  ASSUME BenDraft, [Ben!Next]_benVars
  PROVE  BenDraft'
<1>1. CASE UNCHANGED <<ben_imageParams, ben_imageRatio>>
  <2>1. CASE UNCHANGED <<ben_referenceImages, ben_reading>>
    BY <1>1, <2>1 DEF BenDraft, Ben!RatioOfSize, Ben!ReferencesWithinLimit
  <2>2. ASSUME NEW n \in 1..MaxReferences, Ben!PickFiles(n)
        PROVE  BenDraft'
    BY <1>1, <2>2 DEF BenDraft, Ben!RatioOfSize, Ben!ReferencesWithinLimit, Ben!PickFiles, Ben!draft
  <2>3. ASSUME NEW b \in ben_reading, Ben!ReadImage(b)
        PROVE  BenDraft'
    <3>1. ASSUME NEW n \in Int, Ben!Add(b, n)
          PROVE  ben_referenceImages' \in Int /\ Ben!ReferencesWithinLimit' /\ ben_reading' \subseteq ben_reading
      BY <3>1, WorkbenchAssumption
         DEF BenDraft, Ben!ReferencesWithinLimit, Ben!Add, Ben!Kept, WorkbenchAssumption
    <3>2. ASSUME ben_reading' = (ben_reading \ {b}) \cup {[b EXCEPT !.left = @ - 1, !.accepted = @ + 1]},
                 UNCHANGED ben_referenceImages
          PROVE  BenDraft'
      <4> DEFINE d == [b EXCEPT !.left = @ - 1, !.accepted = @ + 1]
      <4>1. d \in [batch : {d.batch}, left : Int, accepted : Int]
        <5>1. b \in [batch : {b.batch}, left : Int, accepted : Int]
          BY DEF BenDraft
        <5>2. b.left - 1 \in Int /\ b.accepted + 1 \in Int
          BY <5>1
        <5>3. d \in [batch : {b.batch}, left : Int, accepted : Int]
          BY <5>1, <5>2
        <5> QED
          BY <5>3
      <4>2. ben_reading' = (ben_reading \ {b}) \cup {d}
        BY <3>2
      <4> HIDE DEF d
      <4> QED
        BY <1>1, <3>2, <4>1, <4>2 DEF BenDraft, Ben!RatioOfSize, Ben!ReferencesWithinLimit
    <3>3. b.accepted \in Int /\ b.accepted + 1 \in Int
      BY DEF BenDraft
    <3>4. CASE ben_referenceImages' \in Int /\ Ben!ReferencesWithinLimit' /\ ben_reading' \subseteq ben_reading
      BY <1>1, <3>4 DEF BenDraft, Ben!RatioOfSize
    <3> QED
      BY <2>3, <3>1, <3>2, <3>3, <3>4 DEF Ben!ReadImage
  <2>4. CASE Ben!RemoveReference
    BY <1>1, <2>4, WorkbenchAssumption
       DEF BenDraft, Ben!RatioOfSize, Ben!ReferencesWithinLimit, Ben!RemoveReference, Ben!files,
           WorkbenchAssumption
  <2>5. \/ UNCHANGED <<ben_referenceImages, ben_reading>> \/ Ben!RemoveReference
        \/ \E n \in 1..MaxReferences : Ben!PickFiles(n)
        \/ \E b \in ben_reading : Ben!ReadImage(b)
    BY DEF Ben!Next, Ben!Edit, Ben!ChangeParams, Ben!Type, Ben!Reuse, Ben!Attach, Ben!Send,
           Ben!ToggleSheet, Ben!HandleGenerate, Ben!Answers, Ben!Submitted, Ben!ApplyActiveId,
           Ben!RecordsChange, Ben!SelectOther, Ben!FollowLink, Ben!Preview, Ben!draft, Ben!files,
           benVars
  <2> QED
    BY <2>1, <2>2, <2>3, <2>4, <2>5
<1>2. ASSUME Ben!ChangeParams \/ \E text \in Prompts, params \in Ben!Params : Ben!Reuse(text, params)
      PROVE  BenDraft'
  <2>1. UNCHANGED <<ben_referenceImages, ben_reading>>
    BY <1>2 DEF Ben!ChangeParams, Ben!Reuse, Ben!files
  <2>2. ben_imageParams' \in Ben!Params /\ ben_imageRatio' \in Ben!Ratios /\ Ben!RatioOfSize'
    <3>1. ASSUME NEW patch \in Ben!ParameterFields,
                 ben_imageParams' = [f \in DOMAIN ben_imageParams |->
                     IF f \in DOMAIN patch THEN patch[f] ELSE ben_imageParams[f]],
                 UNCHANGED ben_imageRatio
          PROVE  ben_imageParams' \in Ben!Params /\ ben_imageRatio' \in Ben!Ratios /\ Ben!RatioOfSize'
      BY <3>1 DEF BenDraft, Ben!RatioOfSize, Ben!Params, Ben!ParameterFields, Ben!QualityField,
                  Ben!SelectField, Ben!FormatField, Ben!CompressionField
    <3>2. ASSUME NEW r \in Ben!Ratios, ben_imageRatio' = r,
                 ben_imageParams' = [ben_imageParams EXCEPT !.size = Ben!SizeOf[r]]
          PROVE  ben_imageParams' \in Ben!Params /\ ben_imageRatio' \in Ben!Ratios /\ Ben!RatioOfSize'
      <4>1. Ben!SizeOf[r] \in Ben!Sizes
        BY DEF Ben!Ratios, Ben!SizeOf, Ben!Sizes
      <4> QED
        BY <3>2, <4>1 DEF BenDraft, Ben!RatioOfSize, Ben!Params
    <3>3. ASSUME NEW params \in Ben!Params, Ben!ApplyImageParams(params)
          PROVE  ben_imageParams' \in Ben!Params /\ ben_imageRatio' \in Ben!Ratios /\ Ben!RatioOfSize'
      BY <3>3 DEF Ben!ApplyImageParams, Ben!RatioOfSize, Ben!imageSizeToRatio, Ben!Params, Ben!Sizes,
                  Ben!Ratios, Ben!SizeOf
    <3> QED
      BY <1>2, <3>1, <3>2, <3>3
         DEF Ben!ChangeParams, Ben!UpdateImageParams, Ben!Reuse, Ben!RatioField
  <2> QED
    BY <2>1, <2>2 DEF BenDraft, Ben!ReferencesWithinLimit
<1>3. \/ UNCHANGED <<ben_imageParams, ben_imageRatio>> \/ Ben!ChangeParams
      \/ \E text \in Prompts, params \in Ben!Params : Ben!Reuse(text, params)
  BY DEF Ben!Next, Ben!Edit, Ben!Type, Ben!Attach, Ben!PickFiles, Ben!RemoveReference, Ben!Send,
         Ben!ToggleSheet, Ben!HandleGenerate, Ben!Answers, Ben!ReadImage, Ben!Submitted,
         Ben!ApplyActiveId, Ben!RecordsChange, Ben!SelectOther, Ben!FollowLink, Ben!Preview,
         Ben!draft, benVars
<1> QED
  BY <1>1, <1>2, <1>3

LEMMA BenLinkNext ==
  ASSUME BenLink, [Ben!Next]_benVars
  PROVE  BenLink'
<1>1. CASE UNCHANGED <<ben_link, ben_applied, ben_opened>>
  BY <1>1 DEF BenLink
<1>2. ASSUME NEW i \in Links, Ben!FollowLink(i)
      PROVE  BenLink'
  BY <1>2 DEF BenLink, Ben!FollowLink
<1>3. CASE Ben!ApplyActiveId
  BY <1>3 DEF BenLink, Ben!ApplyActiveId, Ben!Applied
<1>4. \/ UNCHANGED <<ben_link, ben_applied, ben_opened>> \/ Ben!ApplyActiveId
      \/ \E i \in Links : Ben!FollowLink(i)
  BY DEF Ben!Next, Ben!Edit, Ben!ChangeParams, Ben!Reuse, Ben!Type, Ben!Attach, Ben!PickFiles,
         Ben!RemoveReference, Ben!Send, Ben!ToggleSheet, Ben!HandleGenerate, Ben!Answers,
         Ben!ReadImage, Ben!Submitted, Ben!RecordsChange, Ben!SelectOther, Ben!Preview,
         Ben!linking, benVars
<1> QED
  BY <1>1, <1>2, <1>3, <1>4

LEMMA BenInvariant ==
  /\ Ben!Init => BenDraft /\ BenLink
  /\ BenDraft /\ BenLink /\ [Ben!Next]_benVars => (BenDraft /\ BenLink)'
<1>1. ASSUME Ben!Init
      PROVE  BenDraft /\ BenLink
  BY <1>1, WorkbenchAssumption
     DEF Ben!Init, BenDraft, BenLink, Ben!RatioOfSize, Ben!ReferencesWithinLimit, Ben!Ratios,
         Ben!SizeOf, Ben!imageSizeToRatio, WorkbenchAssumption
<1> QED
  BY <1>1, BenDraftNext, BenLinkNext

-----------------------------------------------------------------------------
(* The lists of the admin console.  A dialog of the users card is one that *)
(* marks; the call that is sent when it is confirmed names the row marked. *)

\* c is a record with these fields.
IsListCall(c) ==
    c \in [kind : {c.kind}, query : {c.query}, page : {c.page}, row : {c.row}, phase : {c.phase},
          rows : {c.rows}, off : {c.off}, total : {c.total}]

\* What the server makes of a call: what it asks for stays.
LEMMA ListCallMoves ==
  ASSUME NEW c, IsListCall(c), NEW phase, NEW d, d = [c EXCEPT !.phase = phase]
  PROVE  IsListCall(d) /\ d.kind = c.kind /\ d.row = c.row /\ d.total = c.total
  BY DEF IsListCall

LEMMA ServedIs ==
  ASSUME NEW c, IsListCall(c)
  PROVE  /\ IsListCall(Lst!Served(c)) /\ Lst!Served(c).kind = c.kind /\ Lst!Served(c).row = c.row
         /\ Lst!Served(c).total = c.total \/ Lst!Served(c).total = Lst!Cardinality(Lst!Found(c.query))
<1> DEFINE d == Lst!Served(c)
<1>1. CASE c.kind = "list"
  <2>1. d = [c EXCEPT !.phase = "done", !.rows = Lst!PageOf(c.query, c.page), !.off = lst_disabled,
                      !.total = Lst!Cardinality(Lst!Found(c.query))]
    BY <1>1 DEF Lst!Served
  <2> HIDE DEF d
  <2>2. IsListCall(d) /\ d.kind = c.kind /\ d.row = c.row /\ d.total = Lst!Cardinality(Lst!Found(c.query))
    BY <2>1 DEF IsListCall
  <2> QED
    BY <2>2 DEF d
<1>2. CASE c.kind # "list"
  <2>1. \E phase : d = [c EXCEPT !.phase = phase]
    <3>1. CASE c.kind = "delete"
      BY <3>1, Zenon DEF Lst!Served
    <3>2. CASE c.kind # "delete"
      BY <1>2, <3>2 DEF Lst!Served
    <3> QED
      BY <3>1, <3>2
  <2> HIDE DEF d
  <2>2. IsListCall(d) /\ d.kind = c.kind /\ d.row = c.row /\ d.total = c.total
    BY <2>1 DEF IsListCall
  <2> QED
    BY <2>2 DEF d
<1> QED
  BY <1>1, <1>2

LstMarks ==
    /\ \A c \in lst_calls : IsListCall(c)
    /\ Lst!MarkedIsUnderWay
    /\ lst_card = "users" /\ lst_target # Lst!NoDialog => lst_target.ask \in {"reset", "disable"}

LEMMA LstMarksNext ==
  ASSUME LstMarks, [Lst!Next]_lstVars
  PROVE  LstMarks'
<1> USE DEF LstMarks, Lst!MarkedIsUnderWay
<1>1. ASSUME NEW c \in lst_calls, Lst!Loaded(c) \/ Lst!Ended(c)
      PROVE  LstMarks'
  <2>1. CASE Lst!Loaded(c)
    BY <2>1 DEF Lst!Loaded, Lst!dialog, Lst!server
  <2>2. CASE Lst!Ended(c)
    BY <2>2 DEF Lst!Ended, Lst!Unmark
  <2> QED
    BY <1>1, <2>1, <2>2
<1>2. ASSUME NEW c \in lst_calls, Lst!Serve(c) \/ Lst!Refuse(c)
      PROVE  LstMarks'
  <2>1. PICK d : /\ lst_calls' = (lst_calls \ {c}) \cup {d}
                 /\ IsListCall(d) /\ d.kind = c.kind /\ d.row = c.row
    <3>1. IsListCall(c)
      OBVIOUS
    <3>3. CASE Lst!Serve(c)
      BY <3>1, <3>3, ServedIs DEF Lst!Serve
    <3>4. CASE Lst!Refuse(c)
      <4> DEFINE d == [c EXCEPT !.phase = "failed"]
      <4>1. lst_calls' = (lst_calls \ {c}) \cup {d}
        BY <3>4 DEF Lst!Refuse
      <4>2. IsListCall(d) /\ d.kind = c.kind /\ d.row = c.row
        BY <3>1, ListCallMoves, Zenon
      <4> QED
        BY <4>1, <4>2
    <3> QED
      BY <1>2, <3>3, <3>4
  <2>2. UNCHANGED <<lst_card, lst_working, lst_target>>
    BY <1>2 DEF Lst!Serve, Lst!Refuse, Lst!dialog
  <2> QED
    BY <2>1, <2>2
<1>3. CASE Lst!Load
  BY <1>3 DEF Lst!Load, Lst!Call, Lst!dialog, Lst!server, IsListCall
<1>4. ASSUME NEW ask \in {"reset", "disable", "delete"}, NEW r \in Rows, Lst!Ask(ask, r)
      PROVE  LstMarks'
  BY <1>4 DEF Lst!Ask, Lst!Act, Lst!RowOffers
<1>5. CASE Lst!Cancel
  BY <1>5 DEF Lst!Cancel, Lst!Act
<1>6. CASE Lst!Confirm
  <2> DEFINE d == Lst!Call(lst_target.ask, lst_query, lst_page, lst_target.row)
  <2>1. IsListCall(d) /\ d.kind = lst_target.ask /\ d.row = lst_target.row
    BY DEF Lst!Call, IsListCall
  <2> HIDE DEF d
  <2>2. lst_calls' = lst_calls \cup {d} /\ lst_target' = Lst!NoDialog /\ UNCHANGED lst_card
    BY <1>6 DEF Lst!Confirm, Lst!Act, d
  <2>3. \A c \in lst_calls' : IsListCall(c)
    BY <2>1, <2>2
  <2>4. CASE lst_card = "users"
    <3>1. lst_working' = d.row /\ d.kind \in {"reset", "disable"}
      BY <1>6, <2>1, <2>4 DEF Lst!Confirm, Lst!Free
    <3> QED
      BY <2>2, <2>3, <3>1
  <2>5. CASE lst_card # "users"
    <3>1. lst_working' = lst_working
      BY <1>6, <2>5 DEF Lst!Confirm
    <3> QED
      BY <2>2, <2>3, <2>5, <3>1
  <2> QED
    BY <2>4, <2>5
<1>7. CASE UNCHANGED <<lst_card, lst_working, lst_target, lst_calls>>
  BY <1>7
<1>8. \/ UNCHANGED <<lst_card, lst_working, lst_target, lst_calls>>
      \/ \E c \in lst_calls : Lst!Loaded(c) \/ Lst!Ended(c) \/ Lst!Serve(c) \/ Lst!Refuse(c)
      \/ Lst!Load \/ Lst!Cancel \/ Lst!Confirm
      \/ \E ask \in {"reset", "disable", "delete"}, r \in Rows : Lst!Ask(ask, r)
  BY DEF Lst!Next, Lst!Answered, Lst!Replied, Lst!Vanish, Lst!Search, Lst!Click, Lst!Step, Lst!GoTo,
         Lst!Act, Lst!dialog, lstVars
<1> QED
  BY <1>1, <1>2, <1>3, <1>4, <1>5, <1>6, <1>7, <1>8

-----------------------------------------------------------------------------
(* The settings of the admin console.                                      *)

\* c is a record with these fields.
IsSettingsCall(c) ==
    c \in [kind : {c.kind}, body : {c.body}, here : BOOLEAN, phase : {c.phase}, reply : {c.reply}]

\* The calls of the card on the screen that are of certain kinds, and the flag that stands for them:
\* there is at most one, and the flag is up while there is one.
CallsOf(calls, kinds)    == {c \in calls : c.here /\ c.kind \in kinds}
Busy(calls, kinds, flag) ==
    flag \in BOOLEAN /\ (flag <=> CallsOf(calls, kinds) # {}) /\ AtMostOne(CallsOf(calls, kinds))

SaveKinds == {"saveUpstream", "saveSite", "config"}

SetBusy ==
    /\ \A c \in set_calls : IsSettingsCall(c)
    /\ Busy(set_calls, {"load"}, set_loading)
    /\ Busy(set_calls, SaveKinds, set_saving)
    /\ Busy(set_calls, {"test"}, set_testing)

\* A call is answered by the server, or takes the place of another that counts alike.
LEMMA BusyReplaced ==
  ASSUME NEW calls, NEW kinds, NEW flag, Busy(calls, kinds, flag), NEW c \in calls, NEW d,
         d.here = c.here, d.kind \in kinds <=> c.kind \in kinds
  PROVE  Busy((calls \ {c}) \cup {d}, kinds, flag)
<1>1. CASE c \in CallsOf(calls, kinds)
  <2>1. CallsOf((calls \ {c}) \cup {d}, kinds) = {d}
    BY <1>1 DEF Busy, AtMostOne, CallsOf
  <2> QED
    BY <1>1, <2>1 DEF Busy, AtMostOne
<1>2. CASE c \notin CallsOf(calls, kinds)
  <2>1. CallsOf((calls \ {c}) \cup {d}, kinds) = CallsOf(calls, kinds)
    BY <1>2 DEF CallsOf
  <2> QED
    BY <2>1 DEF Busy
<1> QED
  BY <1>1, <1>2

\* A call of other kinds is sent or ends.
LEMMA BusyOther ==
  ASSUME NEW calls, NEW kinds, NEW flag, Busy(calls, kinds, flag), NEW d, d.kind \notin kinds \/ ~d.here
  PROVE  Busy(calls \cup {d}, kinds, flag) /\ Busy(calls \ {d}, kinds, flag)
<1>1. CallsOf(calls \cup {d}, kinds) = CallsOf(calls, kinds)
  BY DEF CallsOf
<1>2. CallsOf(calls \ {d}, kinds) = CallsOf(calls, kinds)
  BY DEF CallsOf
<1> QED
  BY <1>1, <1>2 DEF Busy

\* One is sent while there is none, and is the only one.
LEMMA BusyBegins ==
  ASSUME NEW calls, NEW kinds, NEW flag, Busy(calls, kinds, flag), flag = FALSE,
         NEW d, d.here, d.kind \in kinds, NEW next, next = TRUE
  PROVE  Busy(calls \cup {d}, kinds, next)
<1>1. CallsOf(calls \cup {d}, kinds) = {d}
  BY DEF Busy, CallsOf
<1> QED
  BY <1>1 DEF Busy, AtMostOne

\* When it ends there is none.
LEMMA BusyEnds ==
  ASSUME NEW calls, NEW kinds, NEW flag, Busy(calls, kinds, flag), NEW c \in calls, c.here, c.kind \in kinds,
         NEW next, next = FALSE
  PROVE  Busy(calls \ {c}, kinds, next)
<1>1. CallsOf(calls \ {c}, kinds) = {}
  BY DEF Busy, AtMostOne, CallsOf
<1> QED
  BY <1>1 DEF Busy, AtMostOne

\* What a card that is left has sent counts for no other.
LEMMA BusyForgotten ==
  ASSUME NEW kinds, \A c \in set_calls : IsSettingsCall(c)
  PROVE  Busy(Set!Forgotten, kinds, FALSE) /\ \A c \in Set!Forgotten : IsSettingsCall(c)
<1>1. ASSUME NEW c \in Set!Forgotten
      PROVE  IsSettingsCall(c) /\ ~c.here
  <2>1. PICK b \in set_calls : c = [b EXCEPT !.here = FALSE]
    BY DEF Set!Forgotten
  <2>2. IsSettingsCall(b)
    OBVIOUS
  <2> QED
    BY <2>1, <2>2 DEF IsSettingsCall
<1>2. CallsOf(Set!Forgotten, kinds) = {}
  BY <1>1 DEF CallsOf
<1> QED
  BY <1>1, <1>2 DEF Busy, AtMostOne

LEMMA NewSettingsCall ==
  ASSUME NEW kind, NEW body
  PROVE  LET d == Set!Call(kind, body) IN IsSettingsCall(d) /\ d.here /\ d.kind = kind
  BY DEF Set!Call, IsSettingsCall

\* The steps of the card on the screen that send a call.
LEMMA SettingsSend ==
  ASSUME SetBusy, NEW kind, NEW body, set_calls' = set_calls \cup {Set!Call(kind, body)},
         \/ kind = "limit" /\ UNCHANGED <<set_loading, set_saving, set_testing>>
         \/ kind = "load" /\ ~set_loading /\ set_loading' = TRUE /\ UNCHANGED <<set_saving, set_testing>>
         \/ kind \in {"saveUpstream", "saveSite"} /\ ~set_saving /\ set_saving' = TRUE
            /\ UNCHANGED <<set_loading, set_testing>>
         \/ kind = "test" /\ ~set_testing /\ set_testing' = TRUE /\ UNCHANGED <<set_loading, set_saving>>
  PROVE  SetBusy'
<1> DEFINE d == Set!Call(kind, body)
<1>1. IsSettingsCall(d) /\ d.here /\ d.kind = kind
  BY NewSettingsCall
<1>2. set_calls' = set_calls \cup {d}
  OBVIOUS
<1> HIDE DEF d
<1>3. \A c \in set_calls' : IsSettingsCall(c)
  BY <1>1, <1>2 DEF SetBusy
<1>4. Busy(set_calls', {"load"}, set_loading')
  <2>1. CASE kind = "load"
    <3>1. Busy(set_calls, {"load"}, set_loading) /\ set_loading = FALSE /\ set_loading' = TRUE /\ d.kind \in {"load"}
      BY <1>1, <2>1 DEF SetBusy, Busy
    <3>2. Busy(set_calls \cup {d}, {"load"}, set_loading')
      BY <1>1, <3>1, BusyBegins, Zenon
    <3> QED
      BY <1>2, <3>2
  <2>2. CASE kind # "load"
    <3>1. Busy(set_calls, {"load"}, set_loading') /\ d.kind \notin {"load"}
      BY <1>1, <2>2 DEF SetBusy
    <3> QED
      BY <1>2, <3>1, BusyOther
  <2> QED
    BY <2>1, <2>2
<1>5. Busy(set_calls', SaveKinds, set_saving')
  <2>1. CASE kind \in {"saveUpstream", "saveSite"}
    <3>1. Busy(set_calls, SaveKinds, set_saving) /\ set_saving = FALSE /\ set_saving' = TRUE /\ d.kind \in SaveKinds
      BY <1>1, <2>1 DEF SetBusy, Busy, SaveKinds
    <3>2. Busy(set_calls \cup {d}, SaveKinds, set_saving')
      BY <1>1, <3>1, BusyBegins, Zenon
    <3> QED
      BY <1>2, <3>2
  <2>2. CASE kind \notin {"saveUpstream", "saveSite"}
    <3>1. Busy(set_calls, SaveKinds, set_saving') /\ d.kind \notin SaveKinds
      BY <1>1, <2>2 DEF SetBusy, SaveKinds
    <3> QED
      BY <1>2, <3>1, BusyOther
  <2> QED
    BY <2>1, <2>2
<1>6. Busy(set_calls', {"test"}, set_testing')
  <2>1. CASE kind = "test"
    <3>1. Busy(set_calls, {"test"}, set_testing) /\ set_testing = FALSE /\ set_testing' = TRUE /\ d.kind \in {"test"}
      BY <1>1, <2>1 DEF SetBusy, Busy
    <3>2. Busy(set_calls \cup {d}, {"test"}, set_testing')
      BY <1>1, <3>1, BusyBegins, Zenon
    <3> QED
      BY <1>2, <3>2
  <2>2. CASE kind # "test"
    <3>1. Busy(set_calls, {"test"}, set_testing') /\ d.kind \notin {"test"}
      BY <1>1, <2>2 DEF SetBusy
    <3> QED
      BY <1>2, <3>1, BusyOther
  <2> QED
    BY <2>1, <2>2
<1> QED
  BY <1>3, <1>4, <1>5, <1>6 DEF SetBusy

\* The steps in which the card takes an answer.
LEMMA SettingsTake ==
  ASSUME SetBusy, NEW c \in set_calls, c.here, set_calls' = set_calls \ {c},
         \/ c.kind = "limit" /\ UNCHANGED <<set_loading, set_saving, set_testing>>
         \/ c.kind = "load" /\ set_loading' = FALSE /\ UNCHANGED <<set_saving, set_testing>>
         \/ c.kind \in SaveKinds /\ set_saving' = FALSE /\ UNCHANGED <<set_loading, set_testing>>
         \/ c.kind = "test" /\ set_testing' = FALSE /\ UNCHANGED <<set_loading, set_saving>>
  PROVE  SetBusy'
<1>1. \A d \in set_calls' : IsSettingsCall(d)
  BY DEF SetBusy
<1>2. Busy(set_calls', {"load"}, set_loading')
  <2>1. CASE c.kind = "load"
    <3>1. Busy(set_calls, {"load"}, set_loading) /\ c.kind \in {"load"} /\ set_loading' = FALSE
      BY <2>1 DEF SetBusy, SaveKinds
    <3> QED
      BY <3>1, BusyEnds
  <2>2. CASE ~(c.kind = "load")
    <3>1. Busy(set_calls, {"load"}, set_loading') /\ c.kind \notin {"load"}
      BY <2>2 DEF SetBusy, SaveKinds
    <3> QED
      BY <3>1, BusyOther
  <2> QED
    BY <2>1, <2>2
<1>3. Busy(set_calls', SaveKinds, set_saving')
  <2>1. CASE c.kind \in SaveKinds
    <3>1. Busy(set_calls, SaveKinds, set_saving) /\ c.kind \in SaveKinds /\ set_saving' = FALSE
      BY <2>1 DEF SetBusy, SaveKinds
    <3> QED
      BY <3>1, BusyEnds
  <2>2. CASE ~(c.kind \in SaveKinds)
    <3>1. Busy(set_calls, SaveKinds, set_saving') /\ c.kind \notin SaveKinds
      BY <2>2 DEF SetBusy, SaveKinds
    <3> QED
      BY <3>1, BusyOther
  <2> QED
    BY <2>1, <2>2
<1>4. Busy(set_calls', {"test"}, set_testing')
  <2>1. CASE c.kind = "test"
    <3>1. Busy(set_calls, {"test"}, set_testing) /\ c.kind \in {"test"} /\ set_testing' = FALSE
      BY <2>1 DEF SetBusy, SaveKinds
    <3> QED
      BY <3>1, BusyEnds
  <2>2. CASE ~(c.kind = "test")
    <3>1. Busy(set_calls, {"test"}, set_testing') /\ c.kind \notin {"test"}
      BY <2>2 DEF SetBusy, SaveKinds
    <3> QED
      BY <3>1, BusyOther
  <2> QED
    BY <2>1, <2>2
<1> QED
  BY <1>1, <1>2, <1>3, <1>4 DEF SetBusy

\* The steps in which a call is replaced by one that counts alike.
LEMMA SettingsReplace ==
  ASSUME SetBusy, UNCHANGED <<set_loading, set_saving, set_testing>>, NEW c \in set_calls, NEW d,
         IsSettingsCall(d), d.here = c.here, d.kind = c.kind \/ {c.kind, d.kind} \subseteq SaveKinds,
         set_calls' = (set_calls \ {c}) \cup {d}
  PROVE  SetBusy'
<1>1. \A b \in set_calls' : IsSettingsCall(b)
  BY DEF SetBusy
<1>2. Busy(set_calls', {"load"}, set_loading')
  BY BusyReplaced DEF SetBusy, SaveKinds
<1>3. Busy(set_calls', SaveKinds, set_saving')
  BY BusyReplaced DEF SetBusy, SaveKinds
<1>4. Busy(set_calls', {"test"}, set_testing')
  BY BusyReplaced DEF SetBusy, SaveKinds
<1> QED
  BY <1>1, <1>2, <1>3, <1>4 DEF SetBusy

\* What the server, or the loss of a call, makes of one.
LEMMA SettingsCallMoves ==
  ASSUME NEW c, IsSettingsCall(c), NEW phase, NEW reply
  PROVE  /\ LET d == [c EXCEPT !.phase = phase, !.reply = reply]
            IN  IsSettingsCall(d) /\ d.here = c.here /\ d.kind = c.kind
         /\ LET d == [c EXCEPT !.phase = phase]
            IN  IsSettingsCall(d) /\ d.here = c.here /\ d.kind = c.kind
<1>1. c \in [kind : {c.kind}, body : {c.body}, here : BOOLEAN, phase : {c.phase}, reply : {c.reply}]
  BY DEF IsSettingsCall
<1>2. LET d == [c EXCEPT !.phase = phase, !.reply = reply]
      IN  IsSettingsCall(d) /\ d.here = c.here /\ d.kind = c.kind
  BY <1>1 DEF IsSettingsCall
<1>3. LET d == [c EXCEPT !.phase = phase]
      IN  IsSettingsCall(d) /\ d.here = c.here /\ d.kind = c.kind
  BY <1>1 DEF IsSettingsCall
<1> QED
  BY <1>2, <1>3

LEMMA SetBusyNext ==
  ASSUME SetBusy, [Set!Next]_setVars
  PROVE  SetBusy'
<1> USE DEF Set!flags
<1>1. ASSUME NEW t \in {"site", "upstream", "other"}, Set!OpenTab(t)
      PROVE  SetBusy'
  <2>1. /\ \A c \in Set!Forgotten : IsSettingsCall(c)
        /\ \A kinds : Busy(Set!Forgotten, kinds, FALSE)
    BY BusyForgotten DEF SetBusy
  <2>2. set_saving' = FALSE /\ set_testing' = FALSE
    BY <1>1 DEF Set!OpenTab
  <2>3. CASE t = "other"
    <3>1. set_calls' = Set!Forgotten /\ set_loading' = FALSE
      BY <1>1, <2>3 DEF Set!OpenTab
    <3> QED
      BY <2>1, <2>2, <3>1 DEF SetBusy
  <2>4. CASE t # "other"
    <3> DEFINE d == Set!Call("load", Nothing)
    <3>1. set_calls' = Set!Forgotten \cup {d} /\ set_loading' = TRUE
      BY <1>1, <2>4 DEF Set!OpenTab
    <3>2. IsSettingsCall(d) /\ d.here /\ d.kind = "load"
      BY NewSettingsCall, Zenon
    <3> HIDE DEF d
    <3>3. d.kind \in {"load"} /\ d.kind \notin SaveKinds /\ d.kind \notin {"test"}
      BY <3>2 DEF SaveKinds
    <3>4. Busy(Set!Forgotten \cup {d}, {"load"}, TRUE)
      BY <2>1, <3>2, <3>3, BusyBegins, Zenon
    <3>5. Busy(Set!Forgotten \cup {d}, SaveKinds, FALSE) /\ Busy(Set!Forgotten \cup {d}, {"test"}, FALSE)
      BY <2>1, <3>3, BusyOther, Zenon
    <3> QED
      BY <2>1, <2>2, <3>1, <3>2, <3>4, <3>5 DEF SetBusy
  <2> QED
    BY <2>3, <2>4
<1>2. CASE Set!ResetUpstream \/ Set!SaveUpstream \/ Set!TestUpstream \/ Set!SaveSite
           \/ \E n \in Limits : Set!CommitLimit(n)
  <2>1. CASE Set!ResetUpstream
    BY <2>1, SettingsSend DEF Set!ResetUpstream, Set!ResetOffered, Set!Offers
  <2>2. CASE Set!SaveUpstream
    BY <2>2, SettingsSend DEF Set!SaveUpstream
  <2>3. CASE Set!TestUpstream
    BY <2>3, SettingsSend DEF Set!TestUpstream, Set!TestOffered
  <2>4. CASE Set!SaveSite
    BY <2>4, SettingsSend DEF Set!SaveSite
  <2>5. ASSUME NEW n \in Limits, Set!CommitLimit(n)
        PROVE  SetBusy'
    BY <2>5, SettingsSend DEF Set!CommitLimit
  <2> QED
    BY <1>2, <2>1, <2>2, <2>3, <2>4, <2>5
<1>3. ASSUME NEW c \in set_calls, Set!Answer(c)
      PROVE  SetBusy'
  <2>1. CASE Set!Ignored(c)
    <3>1. set_calls' = set_calls \ {c} /\ ~c.here /\ UNCHANGED <<set_loading, set_saving, set_testing>>
      BY <2>1 DEF Set!Ignored
    <3> QED
      BY <3>1, BusyOther DEF SetBusy
  <2>2. CASE Set!Loaded(c) \/ Set!UpstreamSaved(c) \/ Set!TestEnds(c) \/ Set!LimitAnswered(c)
             \/ Set!ConfigRead(c)
    <3>1. /\ c.here /\ set_calls' = set_calls \ {c}
          /\ \/ c.kind = "limit" /\ UNCHANGED <<set_loading, set_saving, set_testing>>
             \/ c.kind = "load" /\ set_loading' = FALSE /\ UNCHANGED <<set_saving, set_testing>>
             \/ c.kind \in SaveKinds /\ set_saving' = FALSE /\ UNCHANGED <<set_loading, set_testing>>
             \/ c.kind = "test" /\ set_testing' = FALSE /\ UNCHANGED <<set_loading, set_saving>>
      BY <2>2 DEF Set!Loaded, Set!UpstreamSaved, Set!TestEnds, Set!LimitAnswered, Set!ConfigRead,
                  Set!Takes, Set!LoadEnds, Set!SaveEnds, SaveKinds
    <3> QED
      BY <3>1, SettingsTake
  <2>3. CASE Set!SiteSaved(c) /\ Set!Failed(c)
    BY <2>3, SettingsTake DEF Set!SiteSaved, Set!SaveEnds, SaveKinds
  <2>4. CASE Set!SiteSaved(c) /\ ~Set!Failed(c)
    <3> DEFINE d == Set!Call("config", Nothing)
    <3>1. /\ c.here /\ c.kind = "saveSite" /\ UNCHANGED <<set_loading, set_saving, set_testing>>
          /\ set_calls' = (set_calls \ {c}) \cup {d}
      BY <2>4 DEF Set!SiteSaved, Set!Becomes
    <3>2. IsSettingsCall(d) /\ d.here = TRUE /\ d.kind = "config"
      BY DEF Set!Call, IsSettingsCall
    <3>3. IsSettingsCall(c)
      BY DEF SetBusy
    <3>4. c.here = TRUE
      BY <3>1, <3>3 DEF IsSettingsCall
    <3> HIDE DEF d
    <3> QED
      BY <3>1, <3>2, <3>4, SettingsReplace DEF SaveKinds
  <2> QED
    BY <1>3, <2>1, <2>2, <2>3, <2>4 DEF Set!Answer
<1>4. ASSUME NEW c \in set_calls, Set!Serve(c) \/ Set!Refuse(c)
      PROVE  SetBusy'
  <2>1. IsSettingsCall(c) /\ UNCHANGED <<set_loading, set_saving, set_testing>>
    BY <1>4 DEF SetBusy, Set!Serve, Set!Refuse
  <2>2. PICK d : /\ set_calls' = (set_calls \ {c}) \cup {d}
                 /\ IsSettingsCall(d) /\ d.here = c.here /\ d.kind = c.kind
    <3>1. CASE Set!Serve(c)
      <4> DEFINE r == Set!View'
                 d == [c EXCEPT !.phase = "done", !.reply = r]
      <4>1. set_calls' = (set_calls \ {c}) \cup {d}
        BY <3>1 DEF Set!Serve, Set!Becomes
      <4>2. IsSettingsCall(d) /\ d.here = c.here /\ d.kind = c.kind
        <5> HIDE DEF r
        <5> QED
          BY <2>1 DEF IsSettingsCall
      <4> QED
        BY <4>1, <4>2
    <3>2. CASE Set!Refuse(c)
      <4> DEFINE d == [c EXCEPT !.phase = "failed"]
      <4>1. set_calls' = (set_calls \ {c}) \cup {d}
        BY <3>2 DEF Set!Refuse, Set!Becomes
      <4>2. IsSettingsCall(d) /\ d.here = c.here /\ d.kind = c.kind
        BY <2>1, SettingsCallMoves
      <4> QED
        BY <4>1, <4>2
    <3> QED
      BY <1>4, <3>1, <3>2
  <2> QED
    BY <2>1, <2>2, SettingsReplace
<1>5. CASE UNCHANGED <<set_calls, set_loading, set_saving, set_testing>>
  BY <1>5 DEF SetBusy
<1>6. \/ \E t \in {"site", "upstream", "other"} : Set!OpenTab(t)
      \/ Set!ResetUpstream \/ Set!SaveUpstream \/ Set!TestUpstream \/ Set!SaveSite
      \/ \E n \in Limits : Set!CommitLimit(n)
      \/ \E c \in set_calls : Set!Answer(c) \/ Set!Serve(c) \/ Set!Refuse(c)
      \/ UNCHANGED <<set_calls, set_loading, set_saving, set_testing>>
  BY DEF Set!Next, Set!EditUpstream, Set!EditSite, Set!Answered, Set!Served, Set!TypeKey, Set!TypeModels,
         Set!ChooseTestModel, Set!TypeTitle, Set!Flip, Set!DropChanges, setVars
<1> QED
  BY <1>1, <1>2, <1>3, <1>4, <1>5, <1>6

LEMMA SetInvariant ==
  /\ Set!Init => SetBusy
  /\ SetBusy /\ [Set!Next]_setVars => SetBusy'
  /\ SetBusy => BusyWhileCalling
<1>1. ASSUME Set!Init
      PROVE  SetBusy
  <2>1. set_calls = {Set!Call("load", Nothing)} /\ set_loading = TRUE /\ set_saving = FALSE /\ set_testing = FALSE
    BY <1>1 DEF Set!Init
  <2>2. CallsOf(set_calls, {"load"}) = set_calls /\ CallsOf(set_calls, SaveKinds) = {}
        /\ CallsOf(set_calls, {"test"}) = {} /\ \A c \in set_calls : IsSettingsCall(c)
    BY <2>1, NewSettingsCall DEF CallsOf, SaveKinds
  <2> QED
    BY <2>1, <2>2 DEF SetBusy, Busy, AtMostOne
<1>2. ASSUME SetBusy
      PROVE  BusyWhileCalling
  <2>1. /\ Set!Mine("load") = CallsOf(set_calls, {"load"})
        /\ Set!Mine("saveUpstream") \cup Set!Mine("saveSite") \cup Set!Mine("config") = CallsOf(set_calls, SaveKinds)
        /\ Set!Mine("test") = CallsOf(set_calls, {"test"})
    BY DEF Set!Mine, CallsOf, SaveKinds
  <2>2. \A S : Set!Cardinality(S) = Cardinality(S)
    BY DEF Set!Cardinality, Cardinality
  <2>3. \A S : AtMostOne(S) => Cardinality(S) <= 1
    BY AtMostOneIs
  <2> QED
    BY <1>2, <2>1, <2>2, <2>3 DEF SetBusy, Busy, BusyWhileCalling, Set!BusyWhileCalling
<1> QED
  BY <1>1, <1>2, SetBusyNext

-----------------------------------------------------------------------------
(* The forms of an account.  The status says that an attempt to enter is   *)
(* under way as long as no late end of the session has taken it back; a     *)
(* mount of the section knows its own change of the password by the      *)
(* number of edits before it, and each change needed edits of its own.     *)

Entering        == {c \in acc_calls : c.kind \in {"login", "register"}}
PasswordChanges == {c \in acc_calls : c.kind = "password" /\ c.at = acc_mountedAt}

AccEntry ==
    /\ acc_crossed \in BOOLEAN
    /\ acc_crossed \/ (AtMostOne(Entering) /\ (Entering = {} \/ acc_authStatus = "submitting"))

AccPassword ==
    /\ acc_edits \in Nat /\ acc_mountedAt \in 0..acc_edits
    /\ \A c \in acc_calls : c.kind = "password" => c.at \in Nat /\ c.at < acc_edits
    /\ acc_passwordOpen => acc_mountedAt < acc_edits
    /\ acc_passwordPending \in BOOLEAN
    /\ acc_passwordPending <=> PasswordChanges # {}
    /\ AtMostOne(PasswordChanges)

AccFields == {"displayName", "email", "password", "confirmPassword"}

AccForm ==
    /\ acc_values \in [AccFields -> {"empty", "bad", "own", "other", "demo"}]
    /\ acc_demoLoginEnabled \in BOOLEAN
    /\ Acc!ShownErrorsAreCurrent
    /\ acc_page = "login" => \A f \in {"email", "password"} :
         /\ acc_demoLoginEnabled \/ acc_values[f] # "demo"
         /\ f \in acc_typed => acc_values[f] \notin {"empty", "demo"}

\* What each step is to the calls.
LEMMA AccSteps ==
  ASSUME [Acc!Next]_accVars
  PROVE  \/ Acc!SubmitForm \/ Acc!SubmitPassword
         \/ \E p \in {"login", "register"} : Acc!Go(p)
         \/ \E s \in {"account", "general"} : Acc!OpenSection(s)
         \/ \E open \in BOOLEAN : Acc!PasswordDialog(open)
         \/ \E c \in acc_calls : \/ Acc!LoggedIn(c) \/ Acc!ProfileAnswered(c)
                                 \/ Acc!PasswordAnswered(c) \/ Acc!LoggedOut(c)
         \/ /\ UNCHANGED <<acc_authStatus, acc_crossed, acc_mountedAt, acc_passwordOpen,
                           acc_passwordPending>>
            /\ acc_edits' \in {acc_edits, acc_edits + 1}
            /\ \/ UNCHANGED acc_calls
               \/ \E d : acc_calls' = acc_calls \cup {d} /\ d.kind \in {"profile", "avatar", "logout"}
<1> USE DEF Acc!Edit, Acc!Config, Acc!Submit, Acc!Free, Acc!session, Acc!site, Acc!form, Acc!account
<1>1. ASSUME Acc!SaveName \/ Acc!Logout \/ \E file \in {"image", "other"} : Acc!ChooseAvatar(file)
      PROVE  /\ UNCHANGED <<acc_authStatus, acc_crossed, acc_mountedAt, acc_passwordOpen,
                            acc_passwordPending, acc_edits>>
             /\ \/ UNCHANGED acc_calls
                \/ \E d : acc_calls' = acc_calls \cup {d} /\ d.kind \in {"profile", "avatar", "logout"}
  BY <1>1 DEF Acc!SaveName, Acc!Logout, Acc!ChooseAvatar
<1>2. ASSUME \/ Acc!Agree
             \/ \E f \in Acc!Mounted : Acc!Blur(f) \/ \E v \in Acc!Choices(f) : Acc!Change(f, v)
             \/ \E registration, demo \in BOOLEAN : Acc!ConfigArrives(registration, demo)
             \/ \E n \in Names \cup {"bad"} : Acc!TypeName(n)
             \/ \E f \in DOMAIN Acc!NoPasswords, v \in {"own", "other"} : Acc!TypePassword(f, v)
             \/ \E c \in acc_calls : Acc!Written(c)
             \/ UNCHANGED accVars
      PROVE  /\ UNCHANGED <<acc_authStatus, acc_crossed, acc_mountedAt, acc_passwordOpen,
                            acc_passwordPending, acc_calls>>
             /\ acc_edits' \in {acc_edits, acc_edits + 1}
  BY <1>2 DEF Acc!Agree, Acc!Blur, Acc!Change, Acc!ConfigArrives, Acc!TypeName, Acc!TypePassword,
              Acc!PasswordUnchanged, Acc!Written, accVars
<1> QED
  BY <1>1, <1>2 DEF Acc!Next, Acc!Fields

LEMMA AccEntryNext ==
  ASSUME AccEntry, [Acc!Next]_accVars
  PROVE  AccEntry'
<1>1. CASE Acc!SubmitForm
  <2>1. CASE UNCHANGED <<acc_authStatus, acc_calls>>
    BY <1>1, <2>1 DEF Acc!SubmitForm, AccEntry, Entering
  <2>2. CASE ~UNCHANGED <<acc_authStatus, acc_calls>>
    <3>1. /\ acc_authStatus # "submitting" /\ acc_authStatus' = "submitting" /\ UNCHANGED acc_crossed
          /\ \E d : acc_calls' = acc_calls \cup {d}
      BY <1>1, <2>2 DEF Acc!SubmitForm, Acc!SubmitEnabled, Acc!Submitting
    <3>2. CASE ~acc_crossed
      <4>1. Entering = {}
        BY <3>1, <3>2 DEF AccEntry
      <4>2. AtMostOne(Entering')
        BY <3>1, <4>1 DEF Entering, AtMostOne
      <4> QED
        BY <3>1, <4>2 DEF AccEntry, AtMostOne
    <3> QED
      BY <3>1, <3>2 DEF AccEntry
  <2> QED
    BY <2>1, <2>2
<1>2. ASSUME NEW c \in acc_calls, Acc!LoggedIn(c)
      PROVE  AccEntry'
  <2>1. c \in Entering /\ acc_calls' = acc_calls \ {c} /\ UNCHANGED acc_crossed
    BY <1>2 DEF Acc!LoggedIn, Entering
  <2>2. ~acc_crossed => Entering' = {}
    BY <2>1 DEF AccEntry, AtMostOne, Entering
  <2> QED
    BY <2>1, <2>2 DEF AccEntry, AtMostOne
<1>3. ASSUME NEW c \in acc_calls, Acc!PasswordAnswered(c) \/ Acc!LoggedOut(c)
      PROVE  AccEntry'
  <2>1. Entering' = Entering
    BY <1>3 DEF Acc!PasswordAnswered, Acc!LoggedOut, Entering
  <2>2. CASE UNCHANGED <<acc_authStatus, acc_crossed>>
    BY <2>1, <2>2 DEF AccEntry, AtMostOne
  <2>3. CASE acc_crossed' = (acc_crossed \/ acc_authStatus = "submitting")
    BY <2>1, <2>3 DEF AccEntry, AtMostOne
  <2> QED
    BY <1>3, <2>2, <2>3 DEF Acc!PasswordAnswered, Acc!LoggedOut, Acc!SessionEnds, Acc!session,
                            Acc!Submitting
<1>4. ASSUME NEW p \in {"login", "register"}, Acc!Go(p)
      PROVE  AccEntry'
  BY <1>4 DEF Acc!Go, Acc!clearError, AccEntry, Entering, AtMostOne
<1>5. CASE UNCHANGED <<acc_authStatus, acc_crossed>> /\ Entering' \subseteq Entering
  BY <1>5 DEF AccEntry, AtMostOne
<1>6. CASE \/ Acc!SubmitPassword
           \/ \E s \in {"account", "general"} : Acc!OpenSection(s)
           \/ \E open \in BOOLEAN : Acc!PasswordDialog(open)
           \/ \E c \in acc_calls : Acc!ProfileAnswered(c)
  <2>1. UNCHANGED <<acc_authStatus, acc_crossed>>
    BY <1>6 DEF Acc!SubmitPassword, Acc!OpenSection, Acc!PasswordDialog, Acc!ProfileAnswered,
                Acc!session, Acc!PasswordUnchanged
  <2>2. Entering' \subseteq Entering
    BY <1>6 DEF Acc!SubmitPassword, Acc!OpenSection, Acc!PasswordDialog, Acc!ProfileAnswered, Entering
  <2> QED
    BY <1>5, <2>1, <2>2
<1>7. ASSUME UNCHANGED <<acc_authStatus, acc_crossed>>,
             \/ UNCHANGED acc_calls
             \/ \E d : acc_calls' = acc_calls \cup {d} /\ d.kind \in {"profile", "avatar", "logout"}
      PROVE  AccEntry'
  BY <1>5, <1>7 DEF Entering
<1> QED
  BY <1>1, <1>2, <1>3, <1>4, <1>6, <1>7, AccSteps

\* A section that is mounted anew has sent nothing.
LEMMA AccRemount ==
  ASSUME AccPassword, acc_mountedAt' = acc_edits', acc_edits' \in {acc_edits, acc_edits + 1},
         acc_passwordOpen' = FALSE, acc_passwordPending' = FALSE, acc_calls' \subseteq acc_calls
  PROVE  AccPassword'
<1>1. acc_edits' \in Nat /\ acc_edits <= acc_edits' /\ acc_mountedAt' \in 0..acc_edits'
  BY DEF AccPassword
<1>2. \A c \in acc_calls' : c.kind = "password" => c.at \in Nat /\ c.at < acc_edits'
  BY <1>1 DEF AccPassword
<1>3. PasswordChanges' = {}
  BY <1>2 DEF PasswordChanges
<1> QED
  BY <1>1, <1>2, <1>3 DEF AccPassword, AtMostOne

\* A step that leaves its section mounted and sends or ends no change of the password.
LEMMA AccStays ==
  ASSUME AccPassword, UNCHANGED <<acc_mountedAt, acc_passwordPending>>,
         acc_edits' \in {acc_edits, acc_edits + 1},
         acc_passwordOpen' => acc_passwordOpen \/ acc_edits' = acc_edits + 1,
         {c \in acc_calls' : c.kind = "password"} = {c \in acc_calls : c.kind = "password"}
  PROVE  AccPassword'
<1>1. PasswordChanges' = PasswordChanges
  BY DEF PasswordChanges
<1>2. acc_edits' \in Nat /\ acc_edits <= acc_edits' /\ acc_mountedAt' \in 0..acc_edits'
  BY DEF AccPassword
<1>3. \A c \in acc_calls' : c.kind = "password" => c.at \in Nat /\ c.at < acc_edits'
  BY <1>2 DEF AccPassword
<1>4. acc_passwordOpen' => acc_mountedAt' < acc_edits'
  BY DEF AccPassword
<1> QED
  BY <1>1, <1>2, <1>3, <1>4 DEF AccPassword, AtMostOne

LEMMA AccPasswordNext ==
  ASSUME AccPassword, [Acc!Next]_accVars
  PROVE  AccPassword'
<1> USE DEF Acc!Edit, Acc!Submit, Acc!Free
<1>1. CASE Acc!SubmitForm
  <2>1. UNCHANGED <<acc_mountedAt, acc_passwordPending, acc_passwordOpen, acc_edits>>
    BY <1>1 DEF Acc!SubmitForm, Acc!account
  <2>2. {c \in acc_calls' : c.kind = "password"} = {c \in acc_calls : c.kind = "password"}
    <3>1. \/ UNCHANGED acc_calls
          \/ \E d : acc_calls' = acc_calls \cup {d} /\ d.kind \in {"login", "register"}
      <4>1. acc_page \in {"login", "register"}
        BY <1>1 DEF Acc!SubmitForm, Acc!Mounted, Acc!Fields
      <4>2. \/ UNCHANGED acc_calls
            \/ acc_calls' = acc_calls \cup {[kind |-> acc_page, name |-> acc_serverName,
                                            at |-> acc_mountedAt, n |-> acc_submits]}
        BY <1>1 DEF Acc!SubmitForm
      <4> QED
        BY <4>1, <4>2
    <3> QED
      BY <3>1
  <2> QED
    BY <2>1, <2>2, AccStays
<1>2. CASE Acc!SubmitPassword
  <2>1. UNCHANGED <<acc_mountedAt, acc_passwordOpen, acc_edits>> /\ acc_passwordOpen /\ ~acc_passwordPending
    BY <1>2 DEF Acc!SubmitPassword, Acc!PasswordSubmittable, Acc!PasswordUnchanged
  <2>2. CASE UNCHANGED <<acc_passwordPending, acc_calls>>
    BY <2>1, <2>2, AccStays
  <2>3. CASE ~UNCHANGED <<acc_passwordPending, acc_calls>>
    <3>1. PICK d : /\ acc_calls' = acc_calls \cup {d} /\ d.kind = "password" /\ d.at = acc_mountedAt
                   /\ acc_passwordPending' = TRUE
      <4> DEFINE d == [kind |-> "password", name |-> acc_serverName, at |-> acc_mountedAt, n |-> acc_submits]
      <4>1. acc_calls' = acc_calls \cup {d} /\ acc_passwordPending' = TRUE
        BY <1>2, <2>3 DEF Acc!SubmitPassword
      <4>2. d.kind = "password" /\ d.at = acc_mountedAt
        OBVIOUS
      <4> HIDE DEF d
      <4> QED
        BY <4>1, <4>2
    <3>2. PasswordChanges = {}
      BY <2>1 DEF AccPassword
    <3>3. PasswordChanges' = {d}
      BY <2>1, <3>1, <3>2 DEF PasswordChanges
    <3>4. d.at \in Nat /\ d.at < acc_edits
      BY <2>1, <3>1 DEF AccPassword
    <3> QED
      BY <2>1, <3>1, <3>3, <3>4 DEF AccPassword, AtMostOne
  <2> QED
    BY <2>2, <2>3
<1>3. ASSUME NEW p \in {"login", "register"}, Acc!Go(p)
      PROVE  AccPassword'
  BY <1>3, AccStays DEF Acc!Go, Acc!account
<1>4. ASSUME NEW s \in {"account", "general"}, Acc!OpenSection(s)
      PROVE  AccPassword'
  <2>1. CASE s = "account"
    <3>1. /\ acc_mountedAt' = acc_edits' /\ acc_edits' = acc_edits + 1
          /\ acc_passwordOpen' = FALSE /\ acc_passwordPending' = FALSE
      <4>1. acc_edits' = acc_edits + 1
        BY <1>4 DEF Acc!OpenSection
      <4>2. Acc!MountAccount(acc_user)
        BY <1>4, <2>1, Zenon DEF Acc!OpenSection
      <4> QED
        BY <4>1, <4>2 DEF Acc!MountAccount
    <3>2. acc_calls' = acc_calls
      BY <1>4 DEF Acc!OpenSection
    <3> QED
      BY <3>1, <3>2, AccRemount
  <2>2. CASE s # "account"
    BY <1>4, <2>2, AccStays DEF Acc!OpenSection
  <2> QED
    BY <2>1, <2>2
<1>5. ASSUME NEW open \in BOOLEAN, Acc!PasswordDialog(open)
      PROVE  AccPassword'
  BY <1>5, AccStays DEF Acc!PasswordDialog, Acc!PasswordUnchanged
<1>6. ASSUME NEW c \in acc_calls, Acc!LoggedIn(c)
      PROVE  AccPassword'
  <2>1. acc_calls' = acc_calls \ {c} /\ c.kind # "password" /\ UNCHANGED acc_edits
    BY <1>6 DEF Acc!LoggedIn
  <2>2. CASE Acc!MountAccount(acc_serverName)
    BY <2>1, <2>2, AccRemount DEF Acc!MountAccount
  <2>3. CASE UNCHANGED Acc!account
    BY <2>1, <2>3, AccStays DEF Acc!account
  <2> QED
    BY <1>6, <2>2, <2>3 DEF Acc!LoggedIn
<1>7. ASSUME NEW c \in acc_calls, Acc!ProfileAnswered(c)
      PROVE  AccPassword'
  <2>1. acc_calls' = acc_calls \ {c} /\ c.kind # "password" /\ UNCHANGED acc_edits
    BY <1>7 DEF Acc!ProfileAnswered
  <2>2. CASE Acc!MountAccount(acc_user')
    BY <2>1, <2>2, AccRemount DEF Acc!MountAccount
  <2>3. CASE UNCHANGED <<acc_mountedAt, acc_passwordOpen, acc_passwordPending>>
    BY <2>1, <2>3, AccStays
  <2> QED
    BY <1>7, <2>2, <2>3 DEF Acc!ProfileAnswered
<1>8. ASSUME NEW c \in acc_calls, Acc!PasswordAnswered(c)
      PROVE  AccPassword'
  <2>1. acc_calls' = acc_calls \ {c} /\ c.kind = "password" /\ UNCHANGED acc_edits
    BY <1>8 DEF Acc!PasswordAnswered
  <2>2. CASE Acc!SessionEnds
    BY <2>1, <2>2, AccRemount DEF Acc!SessionEnds, Acc!MountAccount
  <2>3. CASE /\ acc_passwordPending' = (acc_passwordPending /\ c.at # acc_mountedAt)
             /\ UNCHANGED <<acc_mountedAt, acc_passwordOpen>>
    <3>1. CASE c.at = acc_mountedAt
      <4>1. PasswordChanges' = {}
        BY <2>1, <2>3, <3>1 DEF PasswordChanges, AccPassword, AtMostOne
      <4> QED
        BY <2>1, <2>3, <3>1, <4>1 DEF AccPassword, AtMostOne
    <3>2. CASE c.at # acc_mountedAt
      <4>1. PasswordChanges' = PasswordChanges
        BY <2>1, <2>3, <3>2 DEF PasswordChanges
      <4>2. acc_passwordPending' = acc_passwordPending
        BY <2>3, <3>2 DEF AccPassword
      <4> QED
        BY <2>1, <2>3, <4>1, <4>2 DEF AccPassword, AtMostOne
    <3> QED
      BY <3>1, <3>2
  <2> QED
    BY <1>8, <2>2, <2>3 DEF Acc!PasswordAnswered
<1>9. ASSUME UNCHANGED <<acc_mountedAt, acc_passwordOpen, acc_passwordPending>>,
             acc_edits' \in {acc_edits, acc_edits + 1},
             \/ UNCHANGED acc_calls
             \/ \E d : acc_calls' = acc_calls \cup {d} /\ d.kind \in {"profile", "avatar", "logout"}
      PROVE  AccPassword'
  <2>1. {c \in acc_calls' : c.kind = "password"} = {c \in acc_calls : c.kind = "password"}
    BY <1>9
  <2> QED
    BY <1>9, <2>1, AccStays
<1>10. ASSUME NEW c \in acc_calls, Acc!LoggedOut(c)
       PROVE  AccPassword'
  BY <1>10, AccRemount DEF Acc!LoggedOut, Acc!SessionEnds, Acc!MountAccount
<1> QED
  BY <1>1, <1>2, <1>3, <1>4, <1>5, <1>6, <1>7, <1>8, <1>9, <1>10, AccSteps

\* What a blank form and the demo login make of the fields.
LEMMA AccBlank ==
  /\ Acc!Blank \in [AccFields -> {"empty", "bad", "own", "other", "demo"}]
  /\ \A demo \in BOOLEAN, vs \in [AccFields -> {"empty", "bad", "own", "other", "demo"}] :
       /\ Acc!DemoFilled(vs, demo) \in [AccFields -> {"empty", "bad", "own", "other", "demo"}]
       /\ \A f \in {"email", "password"} :
            /\ ~demo => Acc!DemoFilled(vs, demo)[f] # "demo"
            /\ vs[f] \notin {"empty", "demo"} => Acc!DemoFilled(vs, demo)[f] = vs[f]
<1>1. Acc!Blank \in [AccFields -> {"empty", "bad", "own", "other", "demo"}]
  BY DEF Acc!Blank, Acc!Fields, AccFields
<1>2. ASSUME NEW demo \in BOOLEAN, NEW vs \in [AccFields -> {"empty", "bad", "own", "other", "demo"}]
      PROVE  /\ Acc!DemoFilled(vs, demo) \in [AccFields -> {"empty", "bad", "own", "other", "demo"}]
             /\ \A f \in {"email", "password"} :
                  /\ ~demo => Acc!DemoFilled(vs, demo)[f] # "demo"
                  /\ vs[f] \notin {"empty", "demo"} => Acc!DemoFilled(vs, demo)[f] = vs[f]
  <2>1. CASE demo
    BY <1>2, <2>1 DEF Acc!DemoFilled, AccFields
  <2>2. CASE ~demo
    BY <1>2, <2>2 DEF Acc!DemoFilled, AccFields
  <2> QED
    BY <2>1, <2>2
<1> QED
  BY <1>1, <1>2

\* What is validated is among the fields.
LEMMA AccFieldsAre == Acc!Mounted \subseteq AccFields
<1> QED
  BY DEF Acc!Mounted, Acc!Fields, AccFields

\* A form that has just been mounted.
LEMMA AccMounted ==
  ASSUME NEW p \in {"login", "register", "settings"}, Acc!Mount(p), acc_demoLoginEnabled \in BOOLEAN,
         UNCHANGED acc_demoLoginEnabled
  PROVE  AccForm'
<1>1. acc_values' \in [AccFields -> {"empty", "bad", "own", "other", "demo"}]
  BY AccBlank DEF Acc!Mount
<1>2. acc_touched' = {} /\ acc_typed' = {} /\ acc_page' = p
  BY DEF Acc!Mount
<1>3. ASSUME p = "login", ~acc_demoLoginEnabled, NEW f \in {"email", "password"}
      PROVE  acc_values'[f] # "demo"
  BY <1>3, AccBlank DEF Acc!Mount
<1>4. Acc!ShownErrorsAreCurrent'
  BY <1>2 DEF Acc!ShownErrorsAreCurrent
<1> QED
  BY <1>1, <1>2, <1>3, <1>4 DEF AccForm

LEMMA AccFormNext ==
  ASSUME AccForm, [Acc!Next]_accVars
  PROVE  AccForm'
<1>1. CASE UNCHANGED <<acc_page, acc_demoLoginEnabled, acc_values, acc_typed, acc_touched, acc_errors,
                       acc_refilled>>
  BY <1>1 DEF AccForm, Acc!ShownErrorsAreCurrent, Acc!runValidation, Acc!Mounted, Acc!Valid
<1>2. CASE Acc!SubmitForm
  <2>1. /\ UNCHANGED <<acc_page, acc_demoLoginEnabled, acc_values, acc_typed>>
        /\ acc_errors' = Acc!runValidation(acc_values)
    BY <1>2 DEF Acc!SubmitForm, Acc!site
  <2>2. Acc!ShownErrorsAreCurrent'
    BY <2>1 DEF Acc!ShownErrorsAreCurrent, Acc!runValidation, Acc!Mounted, Acc!Valid
  <2> QED
    BY <2>1, <2>2 DEF AccForm
<1>3. ASSUME NEW f \in Acc!Mounted, Acc!Blur(f)
      PROVE  AccForm'
  <2>1. /\ UNCHANGED <<acc_page, acc_demoLoginEnabled, acc_values, acc_typed>>
        /\ acc_errors' = Acc!runValidation(acc_values)
    BY <1>3 DEF Acc!Blur, Acc!site
  <2>2. Acc!ShownErrorsAreCurrent'
    BY <2>1 DEF Acc!ShownErrorsAreCurrent, Acc!runValidation, Acc!Mounted, Acc!Valid
  <2> QED
    BY <2>1, <2>2 DEF AccForm
<1>4. ASSUME NEW f \in Acc!Mounted, NEW v \in Acc!Choices(f), Acc!Change(f, v)
      PROVE  AccForm'
  <2>1. /\ UNCHANGED <<acc_page, acc_demoLoginEnabled, acc_touched>>
        /\ acc_values' = [acc_values EXCEPT ![f] = v]
    BY <1>4 DEF Acc!Change, Acc!site
  <2>2. v \in {"empty", "bad", "own", "other"} /\ f \in AccFields
    BY AccFieldsAre DEF Acc!Choices
  <2>3. acc_values' \in [AccFields -> {"empty", "bad", "own", "other", "demo"}]
        /\ \A g \in AccFields : acc_values'[g] = IF g = f THEN v ELSE acc_values[g]
    BY <2>1, <2>2 DEF AccForm
  <2>4. Acc!ShownErrorsAreCurrent'
    <3>1. Acc!runValidation(acc_values)' = Acc!runValidation(acc_values')
      BY <2>1 DEF Acc!runValidation, Acc!Mounted, Acc!Valid
    <3>2. CASE Acc!Revalidates(f)
      <4>1. acc_errors' = Acc!runValidation(acc_values')
        BY <1>4, <3>2 DEF Acc!Change
      <4> QED
        BY <3>1, <4>1 DEF Acc!ShownErrorsAreCurrent
    <3>3. CASE ~Acc!Revalidates(f)
      <4>1. UNCHANGED <<acc_errors, acc_refilled>>
        BY <1>4, <3>3 DEF Acc!Change
      <4>2. ASSUME NEW g \in acc_touched \ acc_refilled
            PROVE  g \in Acc!runValidation(acc_values') <=> g \in Acc!runValidation(acc_values)
        <5>1. CASE g \notin Acc!Mounted
          BY <5>1 DEF Acc!runValidation
        <5>2. CASE g \in Acc!Mounted /\ g # "confirmPassword"
          <6>1. g # f /\ g \in AccFields
            BY <3>3, <5>2, AccFieldsAre DEF Acc!Revalidates
          <6>2. acc_values'[g] = acc_values[g]
            BY <2>3, <6>1
          <6> QED
            BY <5>2, <6>2 DEF Acc!runValidation, Acc!Valid
        <5>3. CASE g \in Acc!Mounted /\ g = "confirmPassword"
          <6>1. f # "password" /\ f # "confirmPassword"
            <7>1. acc_page = "register"
              BY <5>3 DEF Acc!Mounted, Acc!Fields
            <7> QED
              BY <3>3, <5>3, <7>1 DEF Acc!Revalidates
          <6>2. /\ acc_values'["confirmPassword"] = acc_values["confirmPassword"]
                /\ acc_values'["password"] = acc_values["password"]
            BY <2>3, <6>1 DEF AccFields
          <6> QED
            BY <5>3, <6>2 DEF Acc!runValidation
        <5> QED
          BY <5>1, <5>2, <5>3
      <4> QED
        BY <2>1, <3>1, <4>1, <4>2 DEF AccForm, Acc!ShownErrorsAreCurrent
    <3> QED
      BY <3>2, <3>3
  <2>5. acc_page = "login" => \A g \in {"email", "password"} :
          /\ acc_demoLoginEnabled \/ acc_values'[g] # "demo"
          /\ g \in acc_typed' => acc_values'[g] \notin {"empty", "demo"}
    <3>1. acc_typed' = IF v = "empty" THEN acc_typed \ {f} ELSE acc_typed \cup {f}
      BY <1>4 DEF Acc!Change
    <3> QED
      BY <2>2, <2>3, <3>1 DEF AccForm, AccFields
  <2> QED
    BY <2>1, <2>3, <2>4, <2>5 DEF AccForm
<1>5. ASSUME NEW registration \in BOOLEAN, NEW demo \in BOOLEAN, Acc!ConfigArrives(registration, demo)
      PROVE  AccForm'
  <2>1. UNCHANGED <<acc_page, acc_typed, acc_touched, acc_errors>> /\ acc_demoLoginEnabled' = demo
    BY <1>5 DEF Acc!ConfigArrives
  <2>2. acc_values' \in [AccFields -> {"empty", "bad", "own", "other", "demo"}]
    BY <1>5, AccBlank DEF AccForm, Acc!ConfigArrives
  <2>3. Acc!ShownErrorsAreCurrent'
    <3> SUFFICES ASSUME NEW g \in acc_touched \ acc_refilled'
                 PROVE  g \in acc_errors' <=> g \in Acc!runValidation(acc_values)'
      BY <2>1 DEF Acc!ShownErrorsAreCurrent
    <3>1. /\ g \notin acc_refilled
          /\ g \in Acc!Mounted => acc_values'[g] = acc_values[g]
      BY <1>5 DEF Acc!ConfigArrives
    <3>2. acc_page # "login" => acc_values' = acc_values
      BY <1>5 DEF Acc!ConfigArrives
    <3>3. acc_page = "login" => Acc!Mounted = {"email", "password"}
      BY DEF Acc!Mounted, Acc!Fields
    <3>4. g \in Acc!runValidation(acc_values)' <=> g \in Acc!runValidation(acc_values')
      BY <2>1 DEF Acc!runValidation, Acc!Mounted, Acc!Valid
    <3>5. g \in Acc!runValidation(acc_values') <=> g \in Acc!runValidation(acc_values)
      <4>1. CASE acc_page = "login"
        BY <3>1, <3>3, <4>1 DEF Acc!runValidation, Acc!Valid
      <4>2. CASE acc_page # "login"
        BY <3>2, <4>2
      <4> QED
        BY <4>1, <4>2
    <3> QED
      BY <2>1, <3>1, <3>4, <3>5 DEF AccForm, Acc!ShownErrorsAreCurrent
  <2>4. ASSUME acc_page = "login", NEW g \in {"email", "password"}
        PROVE  /\ demo \/ acc_values'[g] # "demo"
               /\ g \in acc_typed => acc_values'[g] \notin {"empty", "demo"}
    <3>1. CASE demo # acc_demoLoginEnabled
      <4>1. acc_values' = Acc!DemoFilled(acc_values, demo)
        BY <1>5, <2>4, <3>1 DEF Acc!ConfigArrives
      <4> QED
        BY <2>4, <4>1, AccBlank DEF AccForm
    <3>2. CASE demo = acc_demoLoginEnabled
      <4>1. acc_values' = acc_values
        BY <1>5, <3>2 DEF Acc!ConfigArrives
      <4> QED
        BY <2>4, <3>2, <4>1 DEF AccForm
    <3> QED
      BY <3>1, <3>2
  <2> QED
    BY <2>1, <2>2, <2>3, <2>4 DEF AccForm
<1>6. ASSUME UNCHANGED acc_demoLoginEnabled, \E p \in {"login", "register", "settings"} : Acc!Mount(p)
      PROVE  AccForm'
  BY <1>6, AccMounted DEF AccForm
<1>7. ASSUME NEW p \in {"login", "register"}, Acc!Go(p)
      PROVE  AccForm'
  BY <1>6, <1>7 DEF Acc!Go, Acc!site
<1>8. ASSUME NEW c \in acc_calls,
             Acc!LoggedIn(c) \/ Acc!ProfileAnswered(c) \/ Acc!PasswordAnswered(c) \/ Acc!LoggedOut(c)
      PROVE  AccForm'
  <2>1. UNCHANGED acc_demoLoginEnabled
    BY <1>8 DEF Acc!LoggedIn, Acc!ProfileAnswered, Acc!PasswordAnswered, Acc!LoggedOut, Acc!site
  <2>2. \/ Acc!Mount("settings") \/ Acc!Mount("login")
        \/ UNCHANGED <<acc_page, acc_values, acc_typed, acc_touched, acc_errors, acc_refilled>>
    BY <1>8 DEF Acc!LoggedIn, Acc!ProfileAnswered, Acc!PasswordAnswered, Acc!LoggedOut,
                Acc!SessionEnds, Acc!form
  <2> QED
    BY <1>1, <1>6, <2>1, <2>2
<1>9. CASE \/ Acc!Agree \/ Acc!SaveName \/ Acc!SubmitPassword \/ Acc!Logout
           \/ \E s \in {"account", "general"} : Acc!OpenSection(s)
           \/ \E n \in Names \cup {"bad"} : Acc!TypeName(n)
           \/ \E file \in {"image", "other"} : Acc!ChooseAvatar(file)
           \/ \E open \in BOOLEAN : Acc!PasswordDialog(open)
           \/ \E f \in DOMAIN Acc!NoPasswords, v \in {"own", "other"} : Acc!TypePassword(f, v)
           \/ \E c \in acc_calls : Acc!Written(c)
           \/ UNCHANGED accVars
  BY <1>1, <1>9 DEF Acc!Agree, Acc!SaveName, Acc!SubmitPassword, Acc!Logout, Acc!OpenSection, Acc!TypeName,
                    Acc!ChooseAvatar, Acc!PasswordDialog, Acc!TypePassword, Acc!PasswordUnchanged,
                    Acc!Written, Acc!site, Acc!form, accVars
<1> QED
  BY <1>2, <1>3, <1>4, <1>5, <1>7, <1>8, <1>9 DEF Acc!Next, Acc!Fields

LEMMA AccInvariant ==
  /\ Acc!Init => AccEntry /\ AccPassword /\ AccForm
  /\ AccEntry /\ [Acc!Next]_accVars => AccEntry'
  /\ AccPassword /\ [Acc!Next]_accVars => AccPassword'
  /\ AccForm /\ [Acc!Next]_accVars => AccForm'
  /\ AccEntry /\ AccPassword => OneAttempt
  /\ AccForm => FormIsCurrent
<1>1. ASSUME Acc!Init
      PROVE  AccEntry /\ AccPassword
  <2>1. /\ acc_calls = {} /\ acc_crossed = FALSE /\ acc_edits = 0 /\ acc_mountedAt = 0
        /\ acc_passwordOpen = FALSE /\ acc_passwordPending = FALSE
    BY <1>1 DEF Acc!Init
  <2>2. Entering = {} /\ PasswordChanges = {}
    BY <2>1 DEF Entering, PasswordChanges
  <2>3. AccEntry
    BY <2>1, <2>2 DEF AccEntry, AtMostOne
  <2>4. /\ acc_edits \in Nat /\ acc_mountedAt \in 0..acc_edits
        /\ acc_passwordOpen => acc_mountedAt < acc_edits
    BY <2>1
  <2>5. AtMostOne(PasswordChanges) /\ (acc_passwordPending <=> PasswordChanges # {})
    BY <2>1, <2>2 DEF AtMostOne
  <2> QED
    BY <2>1, <2>3, <2>4, <2>5 DEF AccPassword
<1>2. ASSUME Acc!Init
      PROVE  AccForm
  <2>1. /\ acc_values = Acc!DemoFilled(Acc!Blank, acc_demoLoginEnabled)
        /\ acc_typed = {} /\ acc_touched = {} /\ acc_demoLoginEnabled \in BOOLEAN
    BY <1>2 DEF Acc!Init
  <2> QED
    BY <2>1, AccBlank DEF AccForm, Acc!ShownErrorsAreCurrent
<1>3. ASSUME AccEntry, AccPassword
      PROVE  OneAttempt
  <2>1. \A S : Acc!Cardinality(S) = Cardinality(S)
    BY DEF Acc!Cardinality, Cardinality
  <2>2. \A S : AtMostOne(S) => Cardinality(S) <= 1
    BY AtMostOneIs
  <2> QED
    BY <1>3, <2>1, <2>2 DEF AccEntry, AccPassword, Entering, PasswordChanges, OneAttempt, Acc!OneAttempt
<1>4. ASSUME AccForm
      PROVE  FormIsCurrent
  BY <1>4 DEF AccForm, FormIsCurrent, Acc!FormIsCurrent, Acc!DemoGone, Acc!Fields
<1> QED
  BY <1>1, <1>2, <1>3, <1>4, AccEntryNext, AccPasswordNext, AccFormNext

-----------------------------------------------------------------------------
(* The lightbox.  Whatever changes the size of the image or of the         *)
(* viewport makes the limits due to be looked at again; until then the pan *)
(* may lie outside of them, and no longer.                                 *)

Zooms == [id : Pictures \cup {NoPicture}, value : 4..12, x : Int, dragging : BOOLEAN]

BoxTypes ==
    /\ box_open \in BOOLEAN /\ box_due \in BOOLEAN
    /\ box_open => box_recordId \in Pictures
    /\ box_viewport \in Nat
    /\ box_element \in [id : Pictures \cup {NoPicture}, loaded : BOOLEAN]
    /\ box_element.loaded => box_element.id \in Pictures
    /\ box_zoomState \in Zooms
    /\ box_zoomState.value = 4 => box_zoomState.x = 0

Within(z) == z.x \in -Box!getPanLimits(z.value)..Box!getPanLimits(z.value)

BoxPan ==
    box_open /\ ~box_due /\ box_element.loaded =>
        /\ box_imageBox = Box!getFittedImageSize
        /\ box_zoomState.id = box_recordId => Within(box_zoomState)

\* The limits are distances, and without a zoom there is no way to go.
LEMMA PanLimits ==
  ASSUME BoxTypes
  PROVE  /\ Box!getFittedImageSize \in Nat
         /\ \A value \in 4..12 : Box!getPanLimits(value) \in Nat
         /\ Box!getPanLimits(4) = 0
<1>1. Box!getFittedImageSize \in Nat
  BY LightboxAssumption DEF LightboxAssumption, Box!getFittedImageSize, Box!Smaller, BoxTypes
<1>2. ASSUME NEW value \in 4..12
      PROVE  Box!getPanLimits(value) \in Nat
  <2>1. Box!getFittedImageSize * value - 4 * box_viewport \in Int
    BY <1>1 DEF BoxTypes
  <2>2. (Box!getFittedImageSize * value - 4 * box_viewport) \div 8 \in Int
    BY <2>1
  <2> QED
    BY <2>2 DEF Box!getPanLimits, Box!Larger
<1> QED
  BY <1>1, <1>2 DEF Box!getPanLimits, Box!MinZoom

\* What is clamped lies within the limit.
LEMMA Clamped ==
  /\ \A x \in Int, limit \in Nat : Box!clampPan(x, limit) \in Int /\ Box!clampPan(x, limit) \in -limit..limit
  /\ \A value \in Int : Box!clampZoom(value) \in 4..12
BY DEF Box!clampPan, Box!clampZoom, Box!Larger, Box!Smaller, Box!MinZoom, Box!MaxZoom

\* The zoom that counts.
LEMMA ZoomCounts ==
  ASSUME BoxTypes, box_open
  PROVE  /\ Box!zoom \in Zooms /\ Box!zoom.id = box_recordId
         /\ Box!zoom.value = 4 => Box!zoom.x = 0
         /\ BoxPan /\ ~box_due /\ box_element.loaded => Within(Box!zoom)
<1>1. CASE box_zoomState.id = box_recordId
  BY <1>1 DEF Box!zoom, BoxTypes, BoxPan
<1>2. CASE box_zoomState.id # box_recordId
  <2> DEFINE z == Box!zoom
  <2>1. z = [id |-> box_recordId, value |-> 4, x |-> 0, dragging |-> FALSE]
    BY <1>2 DEF Box!zoom, Box!DefaultZoom, Box!MinZoom
  <2>2. z \in Zooms /\ z.id = box_recordId /\ z.value = 4 /\ z.x = 0
    BY <2>1 DEF Zooms, BoxTypes
  <2> HIDE DEF z
  <2>3. Within(z)
    BY <2>2, PanLimits DEF Within
  <2> QED
    BY <2>2, <2>3 DEF z
<1> QED
  BY <1>1, <1>2

LEMMA BoxZooms ==
  ASSUME BoxTypes, BoxPan, NEW z \in Zooms, Box!SetZoom(z), box_open, z.value = 4 => z.x = 0,
         ~box_due /\ box_element.loaded => Within(z)
  PROVE  (BoxTypes /\ BoxPan)'
<1>1. /\ box_zoomState' = z
      /\ UNCHANGED <<box_open, box_recordId, box_imageBox, box_viewport, box_element, box_due>>
  BY DEF Box!SetZoom, Box!shown, Box!dom
<1>2. BoxTypes'
  BY <1>1 DEF BoxTypes
<1>3. BoxPan'
  BY <1>1 DEF BoxPan, Within, Box!getPanLimits, Box!getFittedImageSize
<1> QED
  BY <1>2, <1>3

\* Steps that leave the image, the viewport and the zoom as they are.
LEMMA BoxStays ==
  ASSUME BoxTypes, BoxPan,
         UNCHANGED <<box_open, box_recordId, box_zoomState, box_imageBox, box_viewport, box_element, box_due>>
  PROVE  (BoxTypes /\ BoxPan)'
<1>1. BoxTypes'
  BY DEF BoxTypes
<1>2. BoxPan'
  BY DEF BoxPan, Within, Box!getPanLimits, Box!getFittedImageSize
<1> QED
  BY <1>1, <1>2

LEMMA BoxNext ==
  ASSUME BoxTypes, BoxPan, [Box!Next]_boxVars
  PROVE  (BoxTypes /\ BoxPan)'
<1> USE DEF Box!history, Box!shown, Box!dom, Box!limits, Box!MinZoom
<1>1. CASE Box!UpdateImageBox
  <2>1. /\ box_due' = FALSE /\ box_imageBox' = Box!getFittedImageSize /\ Box!UpdateZoom
        /\ UNCHANGED <<box_open, box_recordId, box_viewport, box_element>>
    BY <1>1 DEF Box!UpdateImageBox
  <2>2. box_zoomState' \in Zooms /\ (box_zoomState'.value = 4 => box_zoomState'.x = 0)
        /\ (box_zoomState'.id = box_recordId => Within(box_zoomState'))
    <3>1. CASE box_zoomState.id # box_recordId \/ box_zoomState.value <= 4
      <4>1. box_zoomState' = box_zoomState
        BY <2>1, <3>1 DEF Box!UpdateZoom
      <4>2. box_zoomState.id = box_recordId => Within(box_zoomState)
        BY <3>1, PanLimits DEF BoxTypes, Zooms, Within
      <4> QED
        BY <4>1, <4>2 DEF BoxTypes
    <3>2. CASE ~(box_zoomState.id # box_recordId \/ box_zoomState.value <= 4)
      <4> DEFINE x == Box!clampPan(box_zoomState.x, Box!getPanLimits(box_zoomState.value))
      <4>1. box_zoomState' = [box_zoomState EXCEPT !.x = x]
        BY <2>1, <3>2 DEF Box!UpdateZoom
      <4>2. x \in Int /\ x \in -Box!getPanLimits(box_zoomState.value)..Box!getPanLimits(box_zoomState.value)
        <5>1. box_zoomState.x \in Int /\ box_zoomState.value \in 4..12
          BY DEF BoxTypes, Zooms
        <5>2. Box!getPanLimits(box_zoomState.value) \in Nat
          BY <5>1, PanLimits
        <5> QED
          BY <5>1, <5>2, Clamped
      <4> HIDE DEF x
      <4>3. box_zoomState' \in Zooms /\ box_zoomState'.x = x /\ box_zoomState'.value = box_zoomState.value
        BY <4>1, <4>2 DEF BoxTypes, Zooms
      <4> QED
        BY <3>2, <4>2, <4>3 DEF Within, BoxTypes, Zooms
    <3> QED
      BY <3>1, <3>2
  <2>3. BoxTypes'
    BY <2>1, <2>2 DEF BoxTypes
  <2> DEFINE z == box_zoomState'
  <2>4. BoxPan'
    BY <2>1, <2>2 DEF BoxPan, Within, Box!getPanLimits, Box!getFittedImageSize
  <2> QED
    BY <2>3, <2>4
<1>2. CASE Box!Mount
  <2>1. /\ box_open /\ box_element' = [id |-> box_recordId, loaded |-> FALSE]
        /\ UNCHANGED <<box_open, box_recordId, box_zoomState, box_viewport, box_due>>
    BY <1>2 DEF Box!Mount
  <2>2. box_element' \in [id : Pictures \cup {NoPicture}, loaded : BOOLEAN] /\ ~box_element'.loaded
    BY <2>1 DEF BoxTypes
  <2> QED
    BY <2>1, <2>2 DEF BoxTypes, BoxPan
<1>3. CASE Box!ImageLoads
  <2>1. /\ box_element.id # NoPicture /\ box_element' = [box_element EXCEPT !.loaded = TRUE]
        /\ box_due' = TRUE /\ UNCHANGED <<box_open, box_recordId, box_zoomState, box_viewport>>
    BY <1>3 DEF Box!ImageLoads, Box!Visible
  <2>2. box_element' \in [id : Pictures \cup {NoPicture}, loaded : BOOLEAN] /\ box_element'.id \in Pictures
    BY <2>1 DEF BoxTypes
  <2> QED
    BY <2>1, <2>2 DEF BoxTypes, BoxPan
<1>4. CASE Box!ReloadImage \/ Box!Publish \/ UNCHANGED boxVars
  BY <1>4, BoxStays DEF Box!ReloadImage, Box!Publish, boxVars
<1>5. CASE Box!Zoom
  <2>1. box_open /\ \E value \in Int : Box!ApplyZoom(value)
    BY <1>5, ZoomCounts, LightboxAssumption
       DEF Box!Zoom, Box!Visible, LightboxAssumption, Zooms, Box!DoubleClickZoom
  <2>2. PICK value \in Int : Box!ApplyZoom(value)
    BY <2>1
  <2> DEFINE v == Box!clampZoom(value)
             x == Box!clampPan(Box!zoom.x, Box!getPanLimits(v))
             z == [Box!zoom EXCEPT !.value = v, !.dragging = FALSE, !.x = x]
  <2>3. Box!SetZoom(z)
    BY <2>2 DEF Box!ApplyZoom
  <2>4. v \in 4..12 /\ Box!getPanLimits(v) \in Nat /\ Box!zoom \in Zooms
    BY <2>1, Clamped, PanLimits, ZoomCounts
  <2> HIDE DEF v
  <2>5. x \in Int /\ x \in -Box!getPanLimits(v)..Box!getPanLimits(v)
    BY <2>4, Clamped DEF Zooms
  <2>6. v = 4 => x = 0
    BY <2>5, PanLimits
  <2> HIDE DEF x
  <2>7. z \in Zooms /\ z.value = v /\ z.x = x
    BY <2>4, <2>5 DEF Zooms
  <2> HIDE DEF z
  <2> QED
    BY <2>1, <2>3, <2>5, <2>6, <2>7, BoxZooms DEF Within
<1>6. CASE Box!PointerDown \/ Box!PointerUp
  <2>1. box_open /\ \E b \in BOOLEAN : Box!SetZoom([Box!zoom EXCEPT !.dragging = b])
    BY <1>6 DEF Box!PointerDown, Box!PointerUp, Box!Visible
  <2>2. PICK b \in BOOLEAN : Box!SetZoom([Box!zoom EXCEPT !.dragging = b])
    BY <2>1
  <2> DEFINE z == [Box!zoom EXCEPT !.dragging = b]
  <2>3. z \in Zooms /\ z.value = Box!zoom.value /\ z.x = Box!zoom.x
    BY <2>1, ZoomCounts DEF Zooms
  <2>4. Box!SetZoom(z)
    BY <2>2
  <2> HIDE DEF z
  <2> QED
    BY <2>1, <2>3, <2>4, BoxZooms, ZoomCounts DEF Within
<1>7. CASE Box!PointerMove
  <2>1. PICK d \in Drags : /\ box_open /\ Box!zoom.value > 4
                           /\ Box!SetZoom([Box!zoom EXCEPT !.x = Box!clampPan(d, Box!getPanLimits(Box!zoom.value))])
    BY <1>7 DEF Box!PointerMove, Box!Visible
  <2> DEFINE x == Box!clampPan(d, Box!getPanLimits(Box!zoom.value))
             z == [Box!zoom EXCEPT !.x = x]
  <2>2. Box!zoom \in Zooms /\ Box!zoom.value \in 4..12
    BY <2>1, ZoomCounts DEF Zooms
  <2>3. x \in Int /\ x \in -Box!getPanLimits(Box!zoom.value)..Box!getPanLimits(Box!zoom.value)
    <3>1. d \in Int /\ Box!getPanLimits(Box!zoom.value) \in Nat
      BY <2>2, PanLimits, LightboxAssumption DEF LightboxAssumption
    <3> QED
      BY <3>1, Clamped
  <2>4. Box!SetZoom(z)
    BY <2>1
  <2> HIDE DEF x
  <2>5. z \in Zooms /\ z.value = Box!zoom.value /\ z.x = x
    BY <2>2, <2>3 DEF Zooms
  <2> HIDE DEF z
  <2> QED
    BY <2>1, <2>2, <2>3, <2>4, <2>5, BoxZooms DEF Within
<1>8. CASE Box!Close \/ Box!CloseGone
  <2>1. /\ box_open' = FALSE /\ box_due' = FALSE /\ box_element' = Box!NoElement
        /\ UNCHANGED box_viewport /\ box_zoomState' \in {box_zoomState, Box!DefaultZoom}
    BY <1>8 DEF Box!Close, Box!CloseGone, Box!Closed
  <2>2. Box!DefaultZoom \in Zooms /\ Box!DefaultZoom.x = 0
    BY DEF Box!DefaultZoom, Zooms
  <2>3. Box!NoElement \in [id : Pictures \cup {NoPicture}, loaded : BOOLEAN] /\ ~Box!NoElement.loaded
    BY DEF Box!NoElement
  <2> QED
    BY <2>1, <2>2, <2>3 DEF BoxTypes, BoxPan
<1>9. ASSUME NEW v \in Viewports, Box!Resize(v)
      PROVE  (BoxTypes /\ BoxPan)'
  BY <1>9, LightboxAssumption DEF Box!Resize, BoxTypes, BoxPan, LightboxAssumption
<1>10. ASSUME NEW i \in Pictures, Box!Step(i) \/ \E n \in BOOLEAN : Box!OpenWith(i, n)
       PROVE  (BoxTypes /\ BoxPan)'
  <2>1. /\ box_open' \in BOOLEAN /\ box_recordId' = i /\ box_due' = TRUE
        /\ UNCHANGED <<box_zoomState, box_viewport, box_element>>
    BY <1>10 DEF Box!Step, Box!OpenWith, BoxTypes
  <2> QED
    BY <2>1 DEF BoxTypes, BoxPan
<1>11. ASSUME NEW i \in Pictures, Box!Lose(i)
       PROVE  (BoxTypes /\ BoxPan)'
  <2>1. CASE UNCHANGED box_element
    BY <1>11, <2>1, BoxStays DEF Box!Lose
  <2>2. CASE box_element' = Box!NoElement
    <3>1. Box!NoElement \in [id : Pictures \cup {NoPicture}, loaded : BOOLEAN] /\ ~Box!NoElement.loaded
      BY DEF Box!NoElement
    <3>2. UNCHANGED <<box_open, box_recordId, box_zoomState, box_viewport, box_due>>
      BY <1>11 DEF Box!Lose
    <3> QED
      BY <2>2, <3>1, <3>2 DEF BoxTypes, BoxPan
  <2> QED
    BY <1>11, <2>1, <2>2 DEF Box!Lose
<1> QED
  BY <1>1, <1>2, <1>3, <1>4, <1>5, <1>6, <1>7, <1>8, <1>9, <1>10, <1>11 DEF Box!Next

LEMMA BoxInvariant ==
  /\ Box!Init => BoxTypes /\ BoxPan
  /\ BoxTypes /\ BoxPan /\ [Box!Next]_boxVars => (BoxTypes /\ BoxPan)'
  /\ BoxTypes /\ BoxPan => PanWithinLimits
<1>1. ASSUME Box!Init
      PROVE  BoxTypes /\ BoxPan
  <2>1. Box!DefaultZoom \in Zooms /\ Box!DefaultZoom.x = 0
    BY DEF Box!DefaultZoom, Zooms, Box!MinZoom
  <2>2. Box!NoElement \in [id : Pictures \cup {NoPicture}, loaded : BOOLEAN] /\ ~Box!NoElement.loaded
    BY DEF Box!NoElement
  <2> QED
    BY <1>1, <2>1, <2>2, LightboxAssumption DEF Box!Init, BoxTypes, BoxPan, LightboxAssumption
<1>2. ASSUME BoxTypes, BoxPan
      PROVE  PanWithinLimits
  BY <1>2, ZoomCounts
     DEF PanWithinLimits, Box!PanWithinLimits, Box!Settled, Box!Visible, BoxPan, Within
<1> QED
  BY <1>1, <1>2, BoxNext

-----------------------------------------------------------------------------
(* The stage.  The time that was read lies in the past, the bar grows with *)
(* it, and what a bar counts from only changes with the status.            *)

Makings == [status : {"none", "waiting", "running", "completed", "failed"}, created : Int, started : Int,
            image : {"none", "url", "error"}, marks : SUBSET {"favorite", "public"}]

StaTimes ==
    /\ sta_clock \in Int /\ sta_skew \in Int /\ sta_now \in Int /\ sta_now <= sta_clock
    /\ sta_active \in Ids \cup {NoRecord} /\ sta_publishTarget \in Ids \cup {NoRecord}
    /\ sta_records \in [Ids -> Makings]
    /\ sta_saving \subseteq [id : Ids, mark : {"favorite", "public"}, on : BOOLEAN, confirmed : BOOLEAN]

\* The bar grows with the time it has read and with the rank of the status.
LEMMA ProgressGrows ==
  ASSUME NEW r \in Makings, NEW s \in Makings, NEW t \in Int, NEW u \in Int, t <= u,
         Sta!Rank(r) <= Sta!Rank(s),
         r.status = s.status /\ r.status \in {"waiting", "running"} => Sta!StartOf(r) = Sta!StartOf(s)
  PROVE  Sta!GeneratingState(r, t) <= Sta!GeneratingState(s, u)
<1>1. Sta!StartOf(r) \in Int /\ Sta!StartOf(s) \in Int
  BY DEF Sta!StartOf, Makings
<1>2. \A q \in Makings, v \in Int : Sta!StartOf(q) \in Int => Sta!Elapsed(q, v) \in Nat
  BY DEF Sta!Elapsed
<1>3. Sta!Elapsed(r, t) \in Nat /\ Sta!Elapsed(s, u) \in Nat
  BY <1>1, <1>2
<1>4. Sta!StartOf(r) = Sta!StartOf(s) => Sta!Elapsed(r, t) <= Sta!Elapsed(s, u)
  BY <1>1 DEF Sta!Elapsed
<1>5. CASE r.status = "waiting"
  <2>1. s.status = "waiting" => Sta!Elapsed(r, t) <= Sta!Elapsed(s, u)
    BY <1>4, <1>5
  <2> QED
    BY <1>3, <1>5, <2>1 DEF Sta!GeneratingState, Sta!getGeneratingProgress, Sta!AtMost
<1>6. CASE r.status = "running"
  <2>1. s.status = "running" => Sta!Elapsed(r, t) <= Sta!Elapsed(s, u)
    BY <1>4, <1>6
  <2>2. s.status # "waiting"
    BY <1>6 DEF Sta!Rank
  <2> QED
    BY <1>3, <1>6, <2>1, <2>2 DEF Sta!GeneratingState, Sta!getGeneratingProgress, Sta!AtMost
<1>7. CASE r.status \notin {"waiting", "running"}
  <2>1. s.status \notin {"waiting", "running"}
    BY <1>7 DEF Sta!Rank
  <2> QED
    BY <1>7, <2>1 DEF Sta!GeneratingState, Sta!getGeneratingProgress
<1> QED
  BY <1>5, <1>6, <1>7

\* A record as it is created.
LEMMA NewMaking ==
  ASSUME StaTimes
  PROVE  Sta!Created \in Makings /\ Sta!NoMaking \in Makings /\ Sta!NoMaking.status = "none"
<1>1. Sta!NoMaking \in Makings /\ Sta!NoMaking.status = "none"
  BY DEF Sta!NoMaking, Sta!NoTime, Makings
<1>2. sta_clock + sta_skew \in Int
  BY DEF StaTimes
<1> QED
  BY <1>1, <1>2 DEF Sta!Created, Makings

\* What is offered is about the active record and depends on its status.
LEMMA StageOffers ==
  ASSUME StaTimes, NEW offer \in Sta!Offers
  PROVE  /\ sta_active \in Ids
         /\ Sta!StageKey[1] # "loading"
<1> USE DEF Sta!Offers, Sta!StageKey
<1>1. CASE sta_active = NoRecord
  BY <1>1
<1>2. CASE sta_active # NoRecord
  <2>1. sta_active \in Ids /\ sta_records[sta_active] \in Makings
    BY <1>2 DEF StaTimes
  <2>2. Sta!StageKey[1] # "loading"
    OBVIOUS
  <2> QED
    BY <2>1, <2>2
<1> QED
  BY <1>1, <1>2

\* What a step does to the records: it changes one, and neither the creation nor the start of one
\* whose status stays; and only the clock and what is mounted anew move what was read.
StageStep ==
    /\ \/ UNCHANGED sta_records
       \/ \E i \in Ids, r \in Makings :
            /\ sta_records' = [sta_records EXCEPT ![i] = r]
            /\ \/ r.status # sta_records[i].status
               \/ r.created = sta_records[i].created /\ r.started = sta_records[i].started
    /\ \/ UNCHANGED <<sta_clock, sta_now>>
       \/ UNCHANGED sta_clock /\ Sta!Remount
       \/ sta_clock' = sta_clock + 1 /\ sta_now' \in {sta_now, sta_clock + 1}
    /\ UNCHANGED sta_skew
    /\ sta_active' \in Ids \cup {NoRecord} /\ sta_publishTarget' \in Ids \cup {NoRecord}
    /\ sta_saving' \subseteq [id : Ids, mark : {"favorite", "public"}, on : BOOLEAN, confirmed : BOOLEAN]

\* A step that puts a record in the place of another.
LEMMA StagePuts ==
  ASSUME StaTimes, NEW i \in Ids, NEW r \in Makings, Sta!Put(i, r), Sta!Remount,
         sta_active' \in Ids \cup {NoRecord},
         \/ r.status # sta_records[i].status
         \/ r.created = sta_records[i].created /\ r.started = sta_records[i].started
  PROVE  StageStep
BY DEF StageStep, Sta!Put, StaTimes

LEMMA StageSteps ==
  ASSUME StaTimes, [Sta!Next]_staVars
  PROVE  StageStep
<1> DEFINE old(i) == sta_records[i]
<1> \A i \in Ids : old(i) \in Makings
  BY DEF StaTimes
<1> sta_clock + sta_skew \in Int
  BY DEF StaTimes
<1>0. Sta!NoTime \in Int
  BY DEF Sta!NoTime
<1>1. CASE Sta!Regenerate
  <2>1. PICK i \in Ids : old(i) = Sta!NoMaking /\ Sta!Put(i, Sta!Created) /\ sta_active' = i /\ Sta!Remount
    BY <1>1 DEF Sta!Regenerate
  <2>2. Sta!Created.status = "waiting"
    BY DEF Sta!Created, Sta!NoMaking
  <2> QED
    BY <2>1, <2>2, NewMaking, StagePuts
<1>2. CASE Sta!Retry
  <2> DEFINE r == [old(sta_active) EXCEPT !.status = "waiting", !.started = Sta!NoTime, !.image = "none"]
  <2>1. /\ "retry" \in Sta!Offers /\ Sta!Put(sta_active, r) /\ UNCHANGED sta_active /\ Sta!Remount
    BY <1>2 DEF Sta!Retry
  <2>2. sta_active \in Ids /\ old(sta_active) \in Makings /\ Sta!StageKey[1] # "loading"
    BY <2>1, StageOffers DEF StaTimes
  <2>3. old(sta_active).status # "waiting"
    BY <2>2, StageAssumption DEF Sta!StageKey, StageAssumption
  <2>4. r \in Makings /\ r.status = "waiting"
    BY <2>2, <1>0 DEF Makings
  <2> HIDE DEF r
  <2> QED
    BY <2>1, <2>2, <2>3, <2>4, StagePuts
<1>3. CASE Sta!ReloadImage
  <2> DEFINE r == [old(sta_active) EXCEPT !.image = "none"]
  <2>1. /\ "reload" \in Sta!Offers /\ Sta!Put(sta_active, r) /\ UNCHANGED sta_active /\ Sta!Remount
    BY <1>3 DEF Sta!ReloadImage
  <2>2. sta_active \in Ids /\ old(sta_active) \in Makings
    BY <2>1, StageOffers DEF StaTimes
  <2>3. r \in Makings /\ r.created = old(sta_active).created /\ r.started = old(sta_active).started
    BY <2>2 DEF Makings
  <2> HIDE DEF r
  <2> QED
    BY <2>1, <2>2, <2>3, StagePuts
<1>4. ASSUME NEW mark \in {"favorite", "public"}, Sta!Toggle(mark)
      PROVE  StageStep
  <2>1. sta_active \in Ids /\ UNCHANGED <<sta_records, sta_active, sta_clock, sta_skew, sta_now>>
    BY <1>4, StageOffers DEF Sta!Toggle
  <2>2. sta_publishTarget' \in Ids \cup {NoRecord}
    BY <1>4, <2>1 DEF Sta!Toggle, StaTimes
  <2>3. \A on \in BOOLEAN : [id |-> sta_active, mark |-> mark, on |-> on, confirmed |-> FALSE]
           \in [id : Ids, mark : {"favorite", "public"}, on : BOOLEAN, confirmed : BOOLEAN]
    BY <2>1
  <2>4. sta_saving' \subseteq [id : Ids, mark : {"favorite", "public"}, on : BOOLEAN, confirmed : BOOLEAN]
    BY <1>4, <2>3 DEF Sta!Toggle, StaTimes
  <2> QED
    BY <2>1, <2>2, <2>4 DEF StageStep
<1>5. CASE Sta!ConfirmPublish
  <2> DEFINE s == [id |-> sta_publishTarget, mark |-> "public", on |-> TRUE, confirmed |-> TRUE]
  <2>1. /\ sta_publishTarget \in Ids /\ sta_saving' = sta_saving \cup {s}
        /\ UNCHANGED <<sta_records, sta_active, sta_publishTarget, sta_clock, sta_skew, sta_now>>
    BY <1>5 DEF Sta!ConfirmPublish, StaTimes
  <2>2. s \in [id : Ids, mark : {"favorite", "public"}, on : BOOLEAN, confirmed : BOOLEAN]
    BY <2>1
  <2> HIDE DEF s
  <2>3. sta_saving' \subseteq [id : Ids, mark : {"favorite", "public"}, on : BOOLEAN, confirmed : BOOLEAN]
    BY <2>1, <2>2 DEF StaTimes
  <2> QED
    BY <2>1, <2>3 DEF StageStep, StaTimes
<1>6. CASE Sta!Reuse \/ Sta!OpenLightbox \/ Sta!CancelPublish \/ Sta!Time \/ UNCHANGED staVars
  BY <1>6 DEF Sta!Reuse, Sta!OpenLightbox, Sta!CancelPublish, Sta!Time, staVars, StageStep, StaTimes
<1>7. ASSUME NEW s \in sta_saving, Sta!Saved(s)
      PROVE  StageStep
  <2>1. s \in [id : Ids, mark : {"favorite", "public"}, on : BOOLEAN, confirmed : BOOLEAN]
    BY DEF StaTimes
  <2> DEFINE marks == IF s.on THEN old(s.id).marks \cup {s.mark} ELSE old(s.id).marks \ {s.mark}
             r == [old(s.id) EXCEPT !.marks = marks]
  <2>2. r \in Makings /\ r.created = old(s.id).created /\ r.started = old(s.id).started
    <3>1. old(s.id) \in Makings /\ marks \in SUBSET {"favorite", "public"}
      BY <2>1 DEF Makings
    <3> HIDE DEF marks
    <3> QED
      BY <3>1 DEF Makings
  <2>3. UNCHANGED sta_records \/ sta_records' = [sta_records EXCEPT ![s.id] = r]
    BY <1>7, <2>1 DEF Sta!Saved, StaTimes
  <2>4. /\ UNCHANGED <<sta_active, sta_clock, sta_skew, sta_now>> /\ sta_saving' \subseteq sta_saving
        /\ sta_publishTarget' \in {NoRecord, sta_publishTarget}
    BY <1>7 DEF Sta!Saved
  <2> HIDE DEF r
  <2>5. UNCHANGED sta_records \/ \E i \in Ids, q \in Makings :
            /\ sta_records' = [sta_records EXCEPT ![i] = q]
            /\ q.created = sta_records[i].created /\ q.started = sta_records[i].started
    BY <2>1, <2>2, <2>3
  <2> QED
    BY <2>4, <2>5 DEF StageStep, StaTimes
<1>8. ASSUME NEW i \in Ids, Sta!Select(i)
      PROVE  StageStep
  BY <1>8 DEF Sta!Select, StageStep, StaTimes
<1>9. ASSUME NEW i \in Ids, Sta!Starts(i)
      PROVE  StageStep
  <2> DEFINE r == [old(i) EXCEPT !.status = "running", !.started = sta_clock + sta_skew]
  <2>1. r \in Makings /\ r.status = "running"
    BY DEF Makings
  <2>2. old(i).status = "waiting" /\ Sta!Put(i, r) /\ UNCHANGED sta_active /\ Sta!Remount
    BY <1>9 DEF Sta!Starts, Sta!Server
  <2> HIDE DEF r
  <2> QED
    BY <2>1, <2>2, StagePuts DEF StaTimes
<1>10. ASSUME NEW i \in Ids, Sta!Requeued(i)
       PROVE  StageStep
  <2> DEFINE r == [old(i) EXCEPT !.status = "waiting", !.started = Sta!NoTime]
  <2>1. r \in Makings /\ r.status = "waiting"
    BY <1>0 DEF Makings
  <2>2. old(i).status = "running" /\ Sta!Put(i, r) /\ UNCHANGED sta_active /\ Sta!Remount
    BY <1>10 DEF Sta!Requeued, Sta!Server
  <2> HIDE DEF r
  <2> QED
    BY <2>1, <2>2, StagePuts DEF StaTimes
<1>11. ASSUME NEW i \in Ids, Sta!Ends(i)
       PROVE  StageStep
  <2>1. PICK s \in {"completed", "failed"} : Sta!Server(i, [old(i) EXCEPT !.status = s])
    BY <1>11 DEF Sta!Ends
  <2> DEFINE r == [old(i) EXCEPT !.status = s]
  <2>2. r \in Makings /\ r.status = s /\ old(i).status = "running"
    BY <1>11 DEF Makings, Sta!Ends
  <2>3. Sta!Put(i, r) /\ UNCHANGED sta_active /\ Sta!Remount
    BY <2>1 DEF Sta!Server
  <2> HIDE DEF r
  <2> QED
    BY <2>2, <2>3, StagePuts DEF StaTimes
<1>12. ASSUME NEW i \in Ids, Sta!ImageEnds(i)
       PROVE  StageStep
  <2>1. PICK image \in {"url", "error"} : Sta!Server(i, [old(i) EXCEPT !.image = image])
    BY <1>12 DEF Sta!ImageEnds
  <2> DEFINE r == [old(i) EXCEPT !.image = image]
  <2>2. r \in Makings /\ r.created = old(i).created /\ r.started = old(i).started
    BY DEF Makings
  <2>3. Sta!Put(i, r) /\ UNCHANGED sta_active /\ Sta!Remount
    BY <2>1 DEF Sta!Server
  <2> HIDE DEF r
  <2> QED
    BY <2>2, <2>3, StagePuts DEF StaTimes
<1>13. ASSUME NEW i \in Ids, Sta!Deleted(i)
       PROVE  StageStep
  <2> DEFINE r == [old(i) EXCEPT !.status = "none"]
  <2>1. r \in Makings /\ r.status = "none"
    BY DEF Makings
  <2>2. /\ old(i).status # "none" /\ Sta!Put(i, r) /\ sta_active' \in {NoRecord, sta_active} /\ Sta!Remount
    BY <1>13 DEF Sta!Deleted
  <2> HIDE DEF r
  <2> QED
    BY <2>1, <2>2, StagePuts DEF StaTimes
<1> QED
  BY <1>1, <1>2, <1>3, <1>4, <1>5, <1>6, <1>7, <1>8, <1>9, <1>10, <1>11, <1>12, <1>13 DEF Sta!Next

LEMMA StageTimes ==
  /\ Sta!Init => StaTimes
  /\ StaTimes /\ [Sta!Next]_staVars => StaTimes'
<1>1. ASSUME Sta!Init
      PROVE  StaTimes
  <2>1. sta_skew \in Int /\ sta_clock = 0 /\ sta_now = 0 /\ sta_publishTarget = NoRecord /\ sta_saving = {}
    BY <1>1, StageAssumption DEF Sta!Init, StageAssumption
  <2>2. Sta!NoMaking \in Makings
    BY DEF Sta!NoMaking, Sta!NoTime, Makings
  <2>3. Sta!Created \in Makings
    <3>1. sta_clock + sta_skew \in Int
      BY <2>1
    <3> QED
      BY <2>2, <3>1 DEF Sta!Created, Makings
  <2>4. PICK i \in Ids : sta_records = [j \in Ids |-> IF j = i THEN Sta!Created ELSE Sta!NoMaking]
                        /\ sta_active = i
    BY <1>1 DEF Sta!Init
  <2> QED
    BY <2>1, <2>2, <2>3, <2>4 DEF StaTimes
<1>2. ASSUME StaTimes, [Sta!Next]_staVars
      PROVE  StaTimes'
  <2>1. StageStep
    BY <1>2, StageSteps
  <2>2. sta_records' \in [Ids -> Makings]
    BY <1>2, <2>1 DEF StageStep, StaTimes
  <2>3. sta_now' \in Int /\ sta_clock' \in Int /\ sta_now' <= sta_clock'
    BY <1>2, <2>1 DEF StageStep, StaTimes, Sta!Remount
  <2> QED
    BY <1>2, <2>1, <2>2, <2>3 DEF StageStep, StaTimes
<1> QED
  BY <1>1, <1>2

LEMMA StageProgress ==
  ASSUME StaTimes, [Sta!Next]_staVars,
         Sta!StageKey[1] = "loading", Sta!StageKey' = Sta!StageKey,
         Sta!Rank(sta_records[sta_active]) <= Sta!Rank(sta_records'[sta_active'])
  PROVE  Sta!GeneratingState(sta_records[sta_active], sta_now)
            <= Sta!GeneratingState(sta_records'[sta_active'], sta_now')
<1>1. StageStep /\ StaTimes'
  BY StageSteps, StageTimes
<1>2. sta_active # NoRecord /\ Sta!StageKey = <<"loading", sta_active>>
  BY DEF Sta!StageKey
<1>3. sta_active' # NoRecord /\ Sta!StageKey' = <<"loading", sta_active'>>
  BY <1>2 DEF Sta!StageKey
<1>4. sta_active' = sta_active /\ sta_active \in Ids
  BY <1>2, <1>3 DEF StaTimes
<1> DEFINE r == sta_records[sta_active]
           s == sta_records'[sta_active]
<1>5. r \in Makings /\ s \in Makings
  BY <1>1, <1>4 DEF StaTimes
<1>6. r.status = s.status => Sta!StartOf(r) = Sta!StartOf(s)
  BY <1>1, <1>4 DEF StageStep, StaTimes, Sta!StartOf
<1>7. sta_now \in Int /\ sta_now' \in Int /\ sta_now <= sta_now'
  BY <1>1 DEF StageStep, StaTimes, Sta!Remount
<1> HIDE DEF r, s
<1>8. Sta!Rank(r) <= Sta!Rank(s)
  BY <1>4 DEF r, s
<1>9. Sta!GeneratingState(r, sta_now) <= Sta!GeneratingState(s, sta_now')
  BY <1>5, <1>6, <1>7, <1>8, ProgressGrows
<1> QED
  BY <1>4, <1>9 DEF r, s

-----------------------------------------------------------------------------
(* The library.  A deletion that is under way has seen the filter it       *)
(* clears, or that filter was chosen since; a record that is in a project  *)
(* there is not was moved there meanwhile.                                 *)

Deletions == {j \in lib_jobs : j.kind = "deleteProject"}

LibFilter ==
    /\ Lib!FilterExists
    /\ DOMAIN lib_projects \subseteq ProjectIds
    /\ lib_deleteProjectTarget \in ProjectIds \cup {None}
    /\ \A j \in Deletions :
         /\ j.id \in ProjectIds
         /\ lib_projectFilter = j.id => j.filter = j.id \/ j.id \in lib_reselected

\* c is a record with these fields.
IsCard(c) == c \in [status : {c.status}, favorite : {c.favorite}, project : {c.project}, image : {c.image}]

LibCards ==
    /\ \A i \in DOMAIN lib_cards : IsCard(lib_cards[i])
    /\ Lib!NoOrphans

\* The fields of a card change one at a time.
LEMMA CardFields ==
  ASSUME NEW c, IsCard(c), NEW v
  PROVE  /\ IsCard([c EXCEPT !.status = v]) /\ [c EXCEPT !.status = v].project = c.project
         /\ IsCard([c EXCEPT !.favorite = v]) /\ [c EXCEPT !.favorite = v].project = c.project
         /\ IsCard([c EXCEPT !.image = v]) /\ [c EXCEPT !.image = v].project = c.project
         /\ IsCard([c EXCEPT !.project = v]) /\ [c EXCEPT !.project = v].project = v
<1>1. IsCard([c EXCEPT !.status = v]) /\ [c EXCEPT !.status = v].project = c.project
  BY DEF IsCard
<1>2. IsCard([c EXCEPT !.favorite = v]) /\ [c EXCEPT !.favorite = v].project = c.project
  BY DEF IsCard
<1>3. IsCard([c EXCEPT !.image = v]) /\ [c EXCEPT !.image = v].project = c.project
  BY DEF IsCard
<1>4. IsCard([c EXCEPT !.project = v]) /\ [c EXCEPT !.project = v].project = v
  BY DEF IsCard
<1> QED
  BY <1>1, <1>2, <1>3, <1>4

\* What each step is to the filter and to the deletions of projects.
LEMMA LibSteps ==
  ASSUME [Lib!Next]_libVars
  PROVE  \/ Lib!Navigate \/ Lib!ConfirmDeleteProject
         \/ \E p \in ProjectIds : Lib!AskDeleteProject(p)
         \/ \E j \in lib_jobs : Lib!ProjectCreated(j) \/ Lib!ProjectDeleted(j)
         \/ /\ UNCHANGED <<lib_projectFilter, lib_reselected>> /\ DOMAIN lib_projects' = DOMAIN lib_projects
            /\ lib_deleteProjectTarget' \in {lib_deleteProjectTarget, None}
            /\ \/ lib_jobs' \subseteq lib_jobs
               \/ \E d : lib_jobs' = lib_jobs \cup {d} /\ d.kind # "deleteProject"
<1> USE DEF Lib!place, Lib!ghosts, Lib!targets, Lib!provider
<1> DEFINE Others == /\ UNCHANGED <<lib_projectFilter, lib_reselected>>
                     /\ DOMAIN lib_projects' = DOMAIN lib_projects
                     /\ lib_deleteProjectTarget' \in {lib_deleteProjectTarget, None}
                     /\ \/ lib_jobs' \subseteq lib_jobs
                        \/ \E d : lib_jobs' = lib_jobs \cup {d} /\ d.kind # "deleteProject"
<1>1. CASE \/ Lib!Dismiss \/ Lib!NameProject \/ UNCHANGED libVars
           \/ \E i \in LibraryCards : Lib!Select(i) \/ Lib!AskDelete(i) \/ Lib!AskCancel(i) \/ Lib!Progress(i)
           \/ \E p \in ProjectIds : Lib!EditName(p)
  <2>1. Others
    BY <1>1 DEF Lib!Dismiss, Lib!NameProject, Lib!Select, Lib!AskDelete, Lib!AskCancel, Lib!Progress,
                Lib!EditName, libVars
  <2> QED
    BY <2>1
<1>2. ASSUME NEW kind \in {"favorite", "move", "retry", "delete", "cancel", "create", "rename"},
             NEW id, NEW arg, Lib!Await(kind, id, arg)
      PROVE  \E d : lib_jobs' = lib_jobs \cup {d} /\ d.kind # "deleteProject"
  <2> DEFINE d == Lib!Job(kind, id, arg)
  <2>1. lib_jobs' = lib_jobs \cup {d}
    BY <1>2 DEF Lib!Await
  <2>2. d.kind = kind
    BY DEF Lib!Job
  <2> HIDE DEF d
  <2> QED
    BY <2>1, <2>2
<1>3. CASE \/ Lib!ConfirmDelete \/ Lib!ConfirmCancel \/ Lib!CreateProject
           \/ \E i \in LibraryCards : \/ Lib!ToggleFavorite(i) \/ Lib!RetryCard(i)
                                    \/ \E p \in ProjectIds \cup {None} : Lib!MoveToProject(i, p)
           \/ \E p \in ProjectIds : Lib!CommitName(p)
  <2>1. /\ UNCHANGED <<lib_projectFilter, lib_reselected>> /\ DOMAIN lib_projects' = DOMAIN lib_projects
        /\ lib_deleteProjectTarget' = lib_deleteProjectTarget
    BY <1>3 DEF Lib!ConfirmDelete, Lib!ConfirmCancel, Lib!CreateProject, Lib!ToggleFavorite, Lib!RetryCard,
                Lib!MoveToProject, Lib!CommitName
  <2>2. \/ UNCHANGED lib_jobs
        \/ \E id, arg : \E kind \in {"favorite", "move", "retry", "delete", "cancel", "create", "rename"} :
               Lib!Await(kind, id, arg)
    <3>1. CASE Lib!ConfirmDelete \/ Lib!ConfirmCancel \/ Lib!CreateProject
      BY <3>1 DEF Lib!ConfirmDelete, Lib!ConfirmCancel, Lib!CreateProject
    <3>2. CASE \E i \in LibraryCards : \/ Lib!ToggleFavorite(i) \/ Lib!RetryCard(i)
                                    \/ \E p \in ProjectIds \cup {None} : Lib!MoveToProject(i, p)
      BY <3>2 DEF Lib!ToggleFavorite, Lib!RetryCard, Lib!MoveToProject
    <3>3. CASE \E p \in ProjectIds : Lib!CommitName(p)
      BY <3>3 DEF Lib!CommitName
    <3> QED
      BY <1>3, <3>1, <3>2, <3>3
  <2>3. Others
    BY <1>2, <2>1, <2>2
  <2> QED
    BY <2>3
<1>4. ASSUME NEW j \in lib_jobs,
             Lib!Updated(j) \/ Lib!Retried(j) \/ Lib!Deleted(j) \/ Lib!Throws(j) \/ Lib!ProjectRenamed(j)
      PROVE  Others
  BY <1>4 DEF Lib!Updated, Lib!Retried, Lib!Deleted, Lib!Throws, Lib!ProjectRenamed, Lib!Ends
<1> QED
  BY <1>1, <1>3, <1>4 DEF Lib!Next, Lib!Answers

LEMMA LibFilterNext ==
  ASSUME LibFilter, [Lib!Next]_libVars
  PROVE  LibFilter'
<1> USE DEF Lib!place, Lib!ghosts, Lib!targets, Lib!provider
<1>1. CASE Lib!Navigate
  <2>1. UNCHANGED <<lib_projects, lib_jobs, lib_deleteProjectTarget>>
    BY <1>1 DEF Lib!Navigate
  <2>2. \/ UNCHANGED <<lib_projectFilter, lib_reselected>>
        \/ lib_projectFilter' \in {"all", "inbox"} /\ UNCHANGED lib_reselected
        \/ \E p \in DOMAIN lib_projects :
             /\ lib_projectFilter' = p
             /\ lib_reselected' = IF \E j \in lib_jobs : j.kind = "deleteProject" /\ j.id = p
                                  THEN lib_reselected \cup {p} ELSE lib_reselected
    BY <1>1 DEF Lib!Navigate, Lib!GoTo
  <2>3. Lib!FilterExists'
    BY <2>1, <2>2 DEF LibFilter, Lib!FilterExists
  <2>4. ASSUME NEW j \in Deletions'
        PROVE  j.id \in ProjectIds /\ (lib_projectFilter' = j.id => j.filter = j.id \/ j.id \in lib_reselected')
    BY <2>1, <2>2, <2>4, LibraryAssumption DEF LibFilter, Deletions, LibraryAssumption
  <2> QED
    BY <2>1, <2>3, <2>4 DEF LibFilter
<1>2. CASE Lib!ConfirmDeleteProject
  <2> DEFINE d == Lib!Job("deleteProject", lib_deleteProjectTarget, None)
  <2>1. /\ UNCHANGED <<lib_projects, lib_projectFilter, lib_reselected>>
        /\ lib_deleteProjectTarget \in ProjectIds /\ lib_deleteProjectTarget' = None
        /\ lib_jobs' = lib_jobs \cup {d}
    BY <1>2 DEF Lib!ConfirmDeleteProject, Lib!Await, LibFilter
  <2>2. d.id = lib_deleteProjectTarget /\ d.filter = lib_projectFilter
    BY DEF Lib!Job
  <2> HIDE DEF d
  <2> QED
    BY <2>1, <2>2 DEF LibFilter, Lib!FilterExists, Deletions
<1>3. ASSUME NEW p \in ProjectIds, Lib!AskDeleteProject(p)
      PROVE  LibFilter'
  BY <1>3 DEF Lib!AskDeleteProject, LibFilter, Lib!FilterExists, Deletions
<1>4. ASSUME NEW j \in lib_jobs, Lib!ProjectCreated(j)
      PROVE  LibFilter'
  <2>1. /\ lib_jobs' \subseteq lib_jobs
        /\ UNCHANGED <<lib_projectFilter, lib_reselected, lib_deleteProjectTarget>>
        /\ \E p \in ProjectIds : DOMAIN lib_projects' = DOMAIN lib_projects \cup {p}
    BY <1>4 DEF Lib!ProjectCreated, Lib!Ends
  <2> QED
    BY <2>1 DEF LibFilter, Lib!FilterExists, Deletions
<1>5. ASSUME NEW j \in lib_jobs, Lib!ProjectDeleted(j)
      PROVE  LibFilter'
  <2>1. /\ lib_jobs' \subseteq lib_jobs /\ j \in Deletions
        /\ UNCHANGED lib_reselected /\ lib_deleteProjectTarget' = None
        /\ DOMAIN lib_projects' = DOMAIN lib_projects \ {j.id}
        /\ lib_projectFilter' = IF j.filter = j.id THEN "all" ELSE lib_projectFilter
    BY <1>5 DEF Lib!ProjectDeleted, Lib!Ends, Lib!DropProject, Lib!FilterAfter, Deletions
  <2>2. Lib!FilterExists'
    BY <2>1 DEF LibFilter, Lib!FilterExists
  <2>3. ASSUME NEW k \in Deletions'
        PROVE  k.id \in ProjectIds /\ (lib_projectFilter' = k.id => k.filter = k.id \/ k.id \in lib_reselected')
    BY <2>1, <2>3, LibraryAssumption DEF LibFilter, Deletions, LibraryAssumption
  <2> QED
    BY <2>1, <2>2, <2>3 DEF LibFilter
<1>6. ASSUME UNCHANGED <<lib_projectFilter, lib_reselected>>, DOMAIN lib_projects' = DOMAIN lib_projects,
             lib_deleteProjectTarget' \in {lib_deleteProjectTarget, None},
             \/ lib_jobs' \subseteq lib_jobs
             \/ \E d : lib_jobs' = lib_jobs \cup {d} /\ d.kind # "deleteProject"
      PROVE  LibFilter'
  <2>1. Deletions' \subseteq Deletions
    BY <1>6 DEF Deletions
  <2> QED
    BY <1>6, <2>1 DEF LibFilter, Lib!FilterExists
<1> QED
  BY <1>1, <1>2, <1>3, <1>4, <1>5, <1>6, LibSteps

\* A step that changes one card and no project.
LEMMA CardPatched ==
  ASSUME LibCards, NEW i, NEW card, lib_cards' = Lib!Patch(i, card), IsCard(card),
         i \in DOMAIN lib_cards => card.project = lib_cards[i].project,
         UNCHANGED <<lib_projects, lib_raced>>
  PROVE  LibCards'
BY DEF LibCards, Lib!NoOrphans, Lib!Patch, Lib!Visible

LEMMA LibCardsNext ==
  ASSUME LibCards, [Lib!Next]_libVars
  PROVE  LibCards'
<1> USE DEF Lib!place, Lib!ghosts, Lib!targets, Lib!provider
<1>1. CASE UNCHANGED <<lib_cards, lib_raced>> /\ DOMAIN lib_projects' = DOMAIN lib_projects
  BY <1>1 DEF LibCards, Lib!NoOrphans, Lib!Visible
<1>2. CASE \/ Lib!Navigate \/ Lib!Dismiss \/ Lib!NameProject \/ UNCHANGED libVars
           \/ \E i \in LibraryCards : Lib!Select(i) \/ Lib!AskDelete(i) \/ Lib!AskCancel(i)
           \/ \E p \in ProjectIds : Lib!EditName(p) \/ Lib!AskDeleteProject(p)
  BY <1>1, <1>2 DEF Lib!Navigate, Lib!Dismiss, Lib!NameProject, Lib!Select, Lib!AskDelete, Lib!AskCancel,
                    Lib!EditName, Lib!AskDeleteProject, libVars
<1>3. CASE \/ Lib!ConfirmDelete \/ Lib!ConfirmCancel \/ Lib!ConfirmDeleteProject \/ Lib!CreateProject
           \/ \E i \in LibraryCards : \/ Lib!ToggleFavorite(i) \/ Lib!RetryCard(i)
                                    \/ \E p \in ProjectIds \cup {None} : Lib!MoveToProject(i, p)
           \/ \E p \in ProjectIds : Lib!CommitName(p)
  BY <1>1, <1>3 DEF Lib!ConfirmDelete, Lib!ConfirmCancel, Lib!ConfirmDeleteProject, Lib!CreateProject,
                    Lib!ToggleFavorite, Lib!RetryCard, Lib!MoveToProject, Lib!CommitName
<1>4. ASSUME NEW j \in lib_jobs, Lib!Throws(j) \/ Lib!ProjectRenamed(j)
      PROVE  LibCards'
  <2>1. UNCHANGED <<lib_cards, lib_raced>> /\ DOMAIN lib_projects' = DOMAIN lib_projects
    BY <1>4 DEF Lib!Throws, Lib!ProjectRenamed
  <2> QED
    BY <1>1, <2>1
<1>5. ASSUME NEW i \in LibraryCards, Lib!Progress(i)
      PROVE  LibCards'
  <2>1. /\ i \in DOMAIN lib_cards /\ UNCHANGED <<lib_projects, lib_raced>>
    BY <1>5 DEF Lib!Progress, Lib!Visible
  <2>2. PICK v : \/ lib_cards' = Lib!Patch(i, [lib_cards[i] EXCEPT !.status = v])
                 \/ lib_cards' = Lib!Patch(i, [lib_cards[i] EXCEPT !.image = v])
    BY <1>5 DEF Lib!Progress
  <2>3. IsCard(lib_cards[i])
    BY <2>1 DEF LibCards
  <2>4. /\ IsCard([lib_cards[i] EXCEPT !.status = v])
        /\ [lib_cards[i] EXCEPT !.status = v].project = lib_cards[i].project
        /\ IsCard([lib_cards[i] EXCEPT !.image = v])
        /\ [lib_cards[i] EXCEPT !.image = v].project = lib_cards[i].project
    BY <2>3, CardFields
  <2>5. CASE lib_cards' = Lib!Patch(i, [lib_cards[i] EXCEPT !.status = v])
    BY <2>1, <2>4, <2>5, CardPatched
  <2>6. CASE lib_cards' = Lib!Patch(i, [lib_cards[i] EXCEPT !.image = v])
    BY <2>1, <2>4, <2>6, CardPatched
  <2> QED
    BY <2>2, <2>5, <2>6
<1>6. ASSUME NEW j \in lib_jobs, Lib!Retried(j)
      PROVE  LibCards'
  <2>1. UNCHANGED lib_projects /\ UNCHANGED lib_raced
    BY <1>6 DEF Lib!Retried
  <2>2. CASE UNCHANGED lib_cards
    BY <1>1, <2>1, <2>2
  <2>3. CASE lib_cards' = Lib!Patch(j.id, [lib_cards[j.id] EXCEPT !.status = "waiting"])
    <3>1. CASE j.id \in DOMAIN lib_cards
      <4>1. IsCard(lib_cards[j.id])
        BY <3>1 DEF LibCards
      <4> QED
        BY <2>1, <2>3, <4>1, CardFields, CardPatched
    <3>2. CASE j.id \notin DOMAIN lib_cards
      BY <2>1, <2>3, <3>2 DEF LibCards, Lib!NoOrphans, Lib!Patch, Lib!Visible
    <3> QED
      BY <3>1, <3>2
  <2> QED
    BY <1>6, <2>2, <2>3 DEF Lib!Retried
<1>7. ASSUME NEW j \in lib_jobs, Lib!Updated(j)
      PROVE  LibCards'
  <2> DEFINE card == IF j.kind = "favorite" THEN [lib_cards[j.id] EXCEPT !.favorite = j.arg]
                     ELSE [lib_cards[j.id] EXCEPT !.project = j.arg]
  <2>1. /\ UNCHANGED lib_projects /\ j.kind \in {"favorite", "move"} /\ lib_cards' = Lib!Patch(j.id, card)
        /\ lib_raced' = IF j.kind = "move" /\ j.arg \notin DOMAIN lib_projects \cup {None}
                        THEN lib_raced \cup {j.id} ELSE lib_raced
    BY <1>7 DEF Lib!Updated, Lib!Ends
  <2>2. ASSUME j.id \in DOMAIN lib_cards
        PROVE  /\ IsCard(card)
               /\ card.project = IF j.kind = "favorite" THEN lib_cards[j.id].project ELSE j.arg
    <3>1. IsCard(lib_cards[j.id])
      BY <2>2 DEF LibCards
    <3> QED
      BY <3>1, CardFields
  <2> HIDE DEF card
  <2>3. /\ DOMAIN lib_cards' = DOMAIN lib_cards
        /\ \A k \in DOMAIN lib_cards : lib_cards'[k] = IF k = j.id THEN card ELSE lib_cards[k]
    BY <2>1 DEF Lib!Patch, Lib!Visible
  <2>4. \A k \in DOMAIN lib_cards' : IsCard(lib_cards'[k])
    BY <2>2, <2>3 DEF LibCards
  <2>5. Lib!NoOrphans'
    BY <2>1, <2>2, <2>3 DEF LibCards, Lib!NoOrphans, Lib!Visible
  <2> QED
    BY <2>4, <2>5 DEF LibCards
<1>8. ASSUME NEW j \in lib_jobs, Lib!Deleted(j)
      PROVE  LibCards'
  BY <1>8 DEF Lib!Deleted, LibCards, Lib!NoOrphans, Lib!Visible
<1>9. ASSUME NEW j \in lib_jobs, Lib!ProjectCreated(j)
      PROVE  LibCards'
  <2>1. PICK p \in ProjectIds : /\ DOMAIN lib_projects' = DOMAIN lib_projects \cup {p}
                               /\ lib_raced' = {i \in lib_raced : lib_cards[i].project # p}
                               /\ \A i \in DOMAIN lib_cards : lib_cards[i].project # p
    BY <1>9 DEF Lib!ProjectCreated, Lib!Visible
  <2>2. UNCHANGED lib_cards
    BY <1>9 DEF Lib!ProjectCreated
  <2>3. Lib!NoOrphans'
    BY <2>1, <2>2 DEF LibCards, Lib!NoOrphans, Lib!Visible
  <2>4. \A i \in DOMAIN lib_cards' : IsCard(lib_cards'[i])
    BY <2>2 DEF LibCards
  <2> QED
    BY <2>3, <2>4 DEF LibCards
<1>10. ASSUME NEW j \in lib_jobs, Lib!ProjectDeleted(j)
       PROVE  LibCards'
  <2>1. /\ DOMAIN lib_projects' = DOMAIN lib_projects \ {j.id} /\ UNCHANGED lib_raced
        /\ DOMAIN lib_cards' = DOMAIN lib_cards
        /\ \A k \in DOMAIN lib_cards : lib_cards'[k] =
             IF lib_cards[k].project = j.id THEN [lib_cards[k] EXCEPT !.project = None] ELSE lib_cards[k]
    BY <1>10 DEF Lib!ProjectDeleted, Lib!DropProject, Lib!Visible
  <2>2. ASSUME NEW k \in DOMAIN lib_cards
        PROVE  /\ IsCard(lib_cards'[k])
               /\ lib_cards'[k].project = IF lib_cards[k].project = j.id THEN None ELSE lib_cards[k].project
    <3>1. IsCard(lib_cards[k])
      BY DEF LibCards
    <3>2. /\ IsCard([lib_cards[k] EXCEPT !.project = None])
          /\ [lib_cards[k] EXCEPT !.project = None].project = None
      BY <3>1, CardFields
    <3> QED
      BY <2>1, <3>1, <3>2
  <2> QED
    BY <2>1, <2>2 DEF LibCards, Lib!NoOrphans, Lib!Visible
<1> QED
  BY <1>2, <1>3, <1>4, <1>5, <1>6, <1>7, <1>8, <1>9, <1>10 DEF Lib!Next, Lib!Answers

LEMMA LibInvariant ==
  /\ Lib!Init => LibFilter /\ LibCards
  /\ LibFilter /\ [Lib!Next]_libVars => LibFilter'
  /\ LibCards /\ [Lib!Next]_libVars => LibCards'
  /\ LibFilter /\ LibCards => ProjectsExist
<1>1. ASSUME Lib!Init
      PROVE  LibFilter
  BY <1>1 DEF Lib!Init, LibFilter, Lib!FilterExists, Deletions
<1>2. ASSUME Lib!Init
      PROVE  LibCards
  <2>1. ASSUME NEW i \in DOMAIN lib_cards
        PROVE  IsCard(lib_cards[i]) /\ lib_cards[i].project = None
    <3>1. PICK s \in {"waiting", "completed"} :
             lib_cards[i] = [status |-> s, favorite |-> FALSE, project |-> None, image |-> "none"]
      BY <1>2, <2>1 DEF Lib!Init
    <3> QED
      BY <3>1 DEF IsCard
  <2> QED
    BY <2>1 DEF LibCards, Lib!NoOrphans, Lib!Visible
<1> QED
  BY <1>1, <1>2, LibFilterNext, LibCardsNext DEF LibFilter, LibCards, ProjectsExist, Lib!ProjectsExist

-----------------------------------------------------------------------------
(* The pagination.                                                         *)

\* What PaginationIsTrue says of the current page c of n, and of the pages shown.
TruePages(s, c, n) ==
    /\ {s[i] : i \in DOMAIN s} \ {0} = {p \in 1..n : p \in {1, n} \/ (p >= c - 1 /\ p <= c + 1)}
    /\ \A i, j \in DOMAIN s : i < j /\ 0 \notin {s[i], s[j]} => s[i] < s[j]
    /\ \A i \in DOMAIN s : s[i] = 0 => i > 1 /\ i < Len(s) /\ s[i + 1] > s[i - 1] + 1
    /\ \A i \in 1..(Len(s) - 1) : 0 \notin {s[i], s[i + 1]} => s[i + 1] = s[i] + 1

\* k pages from f on, or k ellipses, which are no more than one.
IsRun(t, f, k) == f \in Int /\ k \in Nat /\ t \in Seq(Int) /\ Len(t) = k /\ \A i \in 1..k : t[i] = f + i - 1

\* u is s, followed by such a run.
IsJoined(u, s, f, k) ==
    /\ u \in Seq(Int) /\ Len(u) = Len(s) + k
    /\ \A i \in 1..(Len(s) + k) : u[i] = IF i <= Len(s) THEN s[i] ELSE f + i - Len(s) - 1

LEMMA RunJoined ==
  ASSUME NEW s \in Seq(Int), NEW t, NEW f, NEW k, IsRun(t, f, k)
  PROVE  IsJoined(s \o t, s, f, k)
<1>1. t \in Seq(Int) /\ Len(t) = k /\ k \in Nat /\ f \in Int /\ Len(s) \in Nat
  BY DEF IsRun
<1>2. s \o t \in Seq(Int) /\ Len(s \o t) = Len(s) + k
  BY <1>1
<1>3. ASSUME NEW i \in 1..(Len(s) + k)
      PROVE  (s \o t)[i] = IF i <= Len(s) THEN s[i] ELSE f + i - Len(s) - 1
  <2>1. (s \o t)[i] = IF i <= Len(s) THEN s[i] ELSE t[i - Len(s)]
    BY <1>1
  <2>2. i > Len(s) => t[i - Len(s)] = f + (i - Len(s)) - 1
    <3> DEFINE p == i - Len(s)
    <3>1. i > Len(s) => p \in 1..k
      BY <1>1
    <3> HIDE DEF p
    <3>2. i > Len(s) => t[p] = f + p - 1
      BY <3>1 DEF IsRun
    <3> QED
      BY <3>2 DEF p
  <2> QED
    BY <1>1, <2>1, <2>2
<1> QED
  BY <1>2, <1>3 DEF IsJoined

LEMMA PagesRun ==
  ASSUME NEW a \in Int, NEW b \in Int, a <= b + 1
  PROVE  IsRun(Lst!From(a, b), a, b - a + 1)
<1>1. CASE a > b
  BY <1>1 DEF Lst!From, IsRun
<1>2. CASE ~(a > b)
  <2> DEFINE f == [i \in 1..(b - a + 1) |-> a + i - 1]
  <2>1. Lst!From(a, b) = f
    BY <1>2 DEF Lst!From
  <2>2. b - a + 1 \in Nat
    BY <1>2
  <2>3. f \in [1..(b - a + 1) -> Int]
    OBVIOUS
  <2>4. f \in Seq(Int) /\ Len(f) = b - a + 1
    BY <2>2, <2>3
  <2> QED
    BY <2>1, <2>4 DEF IsRun
<1> QED
  BY <1>1, <1>2

\* From three pages on the sequence is: the first one, a ellipses, m pages from first on, b ellipses,
\* and page n.
ArePages(s, n, first, m, a, b) ==
    /\ s \in Seq(Int) /\ Len(s) = a + m + b + 2
    /\ \A i \in 1..(a + m + b + 2) :
         s[i] = IF i <= 1 THEN 1 ELSE IF i <= 1 + a THEN 0 ELSE IF i <= 1 + a + m THEN first + i - a - 2
                ELSE IF i <= 1 + a + m + b THEN 0 ELSE n

LEMMA PagesJoined ==
  ASSUME NEW n \in Nat, NEW first \in Nat, NEW m \in Nat,
         NEW a \in {0, 1}, NEW b \in {0, 1},
         NEW r1, NEW r2, NEW r3, NEW r4,
         IsRun(r1, 0, a), IsRun(r2, first, m), IsRun(r3, 0, b), IsRun(r4, n, 1),
         NEW s, s = << 1 >> \o r1 \o r2 \o r3 \o r4
  PROVE  ArePages(s, n, first, m, a, b)
<1> DEFINE s0 == << 1 >>
           s1 == s0 \o r1
           s2 == s1 \o r2
           s3 == s2 \o r3
<1>0. s0 \in Seq(Int) /\ Len(s0) = 1 /\ s0[1] = 1
  OBVIOUS
<1>1. s = s3 \o r4 /\ a \in Nat /\ b \in Nat
  OBVIOUS
<1> HIDE DEF s0
<1>2. IsJoined(s1, s0, 0, a)
  BY <1>0, RunJoined
<1> HIDE DEF s1
<1>3. s1 \in Seq(Int) /\ Len(s1) = 1 + a
  BY <1>0, <1>2 DEF IsJoined
<1>4. IsJoined(s2, s1, first, m)
  BY <1>3, RunJoined
<1> HIDE DEF s2
<1>5. s2 \in Seq(Int) /\ Len(s2) = 1 + a + m
  BY <1>3, <1>4 DEF IsJoined
<1>6. IsJoined(s3, s2, 0, b)
  BY <1>5, RunJoined
<1> HIDE DEF s3
<1>7. s3 \in Seq(Int) /\ Len(s3) = 1 + a + m + b
  BY <1>5, <1>6 DEF IsJoined
<1>8. IsJoined(s, s3, n, 1)
  BY <1>1, <1>7, RunJoined
<1>9. s \in Seq(Int) /\ Len(s) = a + m + b + 2
  BY <1>1, <1>7, <1>8 DEF IsJoined
<1>10. ASSUME NEW i \in 1..(a + m + b + 2)
       PROVE  s[i] = IF i <= 1 THEN 1 ELSE IF i <= 1 + a THEN 0 ELSE IF i <= 1 + a + m THEN first + i - a - 2
                     ELSE IF i <= 1 + a + m + b THEN 0 ELSE n
  <2>1. s[i] = IF i <= 1 + a + m + b THEN s3[i] ELSE n
    <3>1. i \in 1..(Len(s3) + 1)
      BY <1>1, <1>7
    <3>2. s[i] = IF i <= Len(s3) THEN s3[i] ELSE n + i - Len(s3) - 1
      BY <1>8, <3>1 DEF IsJoined
    <3>3. CASE i <= 1 + a + m + b
      BY <1>1, <1>7, <3>2, <3>3
    <3>4. CASE i = 1 + a + m + b + 1
      <4>1. n + i - Len(s3) - 1 = n /\ ~(i <= Len(s3)) /\ ~(i <= 1 + a + m + b)
        BY <1>1, <1>7, <3>4
      <4> QED
        BY <3>2, <4>1
    <3>5. i <= 1 + a + m + b \/ i = 1 + a + m + b + 1
      BY <1>1
    <3> QED
      BY <3>3, <3>4, <3>5
  <2>2. i <= 1 + a + m + b => s3[i] = IF i <= 1 + a + m THEN s2[i] ELSE 0
    <3> SUFFICES ASSUME i <= 1 + a + m + b
                 PROVE  s3[i] = IF i <= 1 + a + m THEN s2[i] ELSE 0
      OBVIOUS
    <3>1. i \in 1..(Len(s2) + b)
      BY <1>1, <1>5
    <3>2. s3[i] = IF i <= Len(s2) THEN s2[i] ELSE 0 + i - Len(s2) - 1
      BY <1>6, <3>1 DEF IsJoined
    <3> QED
      BY <1>1, <1>5, <3>2
  <2>3. i <= 1 + a + m => s2[i] = IF i <= 1 + a THEN s1[i] ELSE first + i - a - 2
    <3> SUFFICES ASSUME i <= 1 + a + m
                 PROVE  s2[i] = IF i <= 1 + a THEN s1[i] ELSE first + i - a - 2
      OBVIOUS
    <3>1. i \in 1..(Len(s1) + m)
      BY <1>1, <1>3
    <3>2. s2[i] = IF i <= Len(s1) THEN s1[i] ELSE first + i - Len(s1) - 1
      BY <1>4, <3>1 DEF IsJoined
    <3> QED
      BY <1>1, <1>3, <3>2
  <2>4. i <= 1 + a => s1[i] = IF i <= 1 THEN 1 ELSE 0
    <3> SUFFICES ASSUME i <= 1 + a
                 PROVE  s1[i] = IF i <= 1 THEN 1 ELSE 0
      OBVIOUS
    <3>1. i \in 1..(Len(s0) + a)
      BY <1>0, <1>1
    <3>2. s1[i] = IF i <= Len(s0) THEN s0[i] ELSE 0 + i - Len(s0) - 1
      BY <1>2, <3>1 DEF IsJoined
    <3> QED
      BY <1>0, <1>1, <3>2
  <2>5. /\ i <= 1 => i <= 1 + a
        /\ i <= 1 + a => i <= 1 + a + m
        /\ i <= 1 + a + m => i <= 1 + a + m + b
    BY <1>1
  <2> QED
    BY <2>1, <2>2, <2>3, <2>4, <2>5, Zenon
<1> QED
  BY <1>9, <1>10 DEF ArePages

LEMMA VisiblePages ==
  ASSUME NEW n \in Nat \ {0}, NEW c \in 1..n
  PROVE  TruePages(Lst!visiblePages(c, n), c, n)
<1> DEFINE s == Lst!visiblePages(c, n)
<1>1. CASE n = 1
  <2>1. s = << 1 >> \o <<>> \o <<>> \o <<>> \o <<>>
    BY <1>1 DEF Lst!visiblePages, Lst!Larger, Lst!Smaller, Lst!Gap, Lst!From
  <2>2. s = << 1 >>
    BY <2>1
  <2> HIDE DEF s
  <2> QED
    BY <1>1, <2>2 DEF TruePages, s
<1>2. CASE n = 2
  <2> DEFINE r == Lst!From(2, 2)
             e == << 1 >>
  <2>1. s = e \o <<>> \o <<>> \o <<>> \o r
    <3>1. Lst!Larger(2, c - 1) = 2 /\ Lst!Smaller(n - 1, c + 1) = 1 /\ Lst!Larger(n, 2) = 2
      BY <1>2 DEF Lst!Larger, Lst!Smaller
    <3>2. Lst!Gap(2 > 2) = <<>> /\ Lst!Gap(1 < n - 1) = <<>> /\ Lst!From(2, 1) = <<>>
      BY <1>2 DEF Lst!Gap, Lst!From
    <3> QED
      BY <1>2, <3>1, <3>2 DEF Lst!visiblePages
  <2>2. IsRun(r, 2, 1)
    BY PagesRun
  <2>3. e \in Seq(Int) /\ Len(e) = 1 /\ e[1] = 1
    OBVIOUS
  <2> HIDE DEF s, r, e
  <2>4. s = e \o r
    BY <2>1, <2>3
  <2>5. s \in Seq(Int) /\ Len(s) = 2 /\ s[1] = 1 /\ s[2] = 2
    <3>1. IsJoined(s, e, 2, 1)
      BY <2>2, <2>3, <2>4, RunJoined
    <3> QED
      BY <2>3, <3>1 DEF IsJoined
  <2>6. TruePages(s, c, n)
    BY <1>2, <2>5 DEF TruePages
  <2> QED
    BY <2>6 DEF s
<1>3. CASE n >= 3
  <2> DEFINE first == Lst!Larger(2, c - 1)
             last  == Lst!Smaller(n - 1, c + 1)
             a == IF first > 2 THEN 1 ELSE 0
             b == IF last < n - 1 THEN 1 ELSE 0
             m == last - first + 1
  <2>1. first \in Nat /\ first >= 2 /\ last \in Nat /\ first <= last /\ last <= n - 1
    BY <1>3 DEF Lst!Larger, Lst!Smaller
  <2>2. s = << 1 >> \o Lst!Gap(first > 2) \o Lst!From(first, last) \o Lst!Gap(last < n - 1) \o Lst!From(n, n)
    BY <1>3 DEF Lst!visiblePages, Lst!Larger
  <2>3. a \in {0, 1} /\ b \in {0, 1} /\ (a = 1 <=> first > 2) /\ (b = 1 <=> last < n - 1)
    BY <2>1
  <2>4. IsRun(Lst!Gap(first > 2), 0, a) /\ IsRun(Lst!Gap(last < n - 1), 0, b)
    BY DEF Lst!Gap, Lst!Ellipsis, IsRun
  <2>5. /\ first <= c + 1 /\ c - 1 <= last
        /\ \A p \in 1..n : first <= p /\ p <= last <=> p > 1 /\ p < n /\ p >= c - 1 /\ p <= c + 1
    BY <1>3 DEF Lst!Larger, Lst!Smaller
  <2> HIDE DEF s, a, b, first, last
  <2>6. IsRun(Lst!From(first, last), first, m) /\ m \in Nat
    BY <2>1, PagesRun
  <2>7. IsRun(Lst!From(n, n), n, 1)
    <3>1. n \in Int /\ n <= n + 1 /\ n - n + 1 = 1
      OBVIOUS
    <3>2. IsRun(Lst!From(n, n), n, n - n + 1)
      BY <3>1, PagesRun
    <3> QED
      BY <3>1, <3>2
  <2>8. m >= 1 /\ last = first + m - 1
    BY <2>1
  <2> HIDE DEF m
  <2> DEFINE r1 == Lst!Gap(first > 2)
             r2 == Lst!From(first, last)
             r3 == Lst!Gap(last < n - 1)
             r4 == Lst!From(n, n)
  <2>9. s = << 1 >> \o r1 \o r2 \o r3 \o r4
    BY <2>2
  <2>10. IsRun(r1, 0, a) /\ IsRun(r2, first, m) /\ IsRun(r3, 0, b) /\ IsRun(r4, n, 1)
    BY <2>4, <2>6, <2>7
  <2> HIDE DEF r1, r2, r3, r4
  <2>11. ArePages(s, n, first, m, a, b)
    BY <2>1, <2>3, <2>6, <2>9, <2>10, PagesJoined
  <2>12. /\ s \in Seq(Int) /\ Len(s) = a + m + b + 2
        /\ \A i \in 1..(a + m + b + 2) :
              s[i] = IF i <= 1 THEN 1 ELSE IF i <= 1 + a THEN 0 ELSE IF i <= 1 + a + m THEN first + i - a - 2
                     ELSE IF i <= 1 + a + m + b THEN 0 ELSE n
    BY <2>11 DEF ArePages
  <2>13. DOMAIN s = 1..(a + m + b + 2)
    BY <2>12
  <2>14. ASSUME NEW i \in DOMAIN s
         PROVE  \/ s[i] = 0 /\ ((i = 2 /\ a = 1) \/ (i = 2 + a + m /\ b = 1))
                \/ s[i] = 1 /\ i = 1
                \/ s[i] = n /\ i = a + m + b + 2
                \/ s[i] = first + i - a - 2 /\ 1 + a < i /\ i <= 1 + a + m
    <3>1. i \in Int /\ m \in Nat /\ a \in Nat /\ b \in Nat /\ i >= 1 /\ i <= a + m + b + 2
      BY <2>3, <2>6, <2>13
    <3>2. CASE i <= 1
      BY <2>12, <2>13, <3>1, <3>2
    <3>3. CASE i > 1 /\ i <= 1 + a
      <4>1. i = 2 /\ a = 1 /\ ~(i <= 1)
        BY <2>3, <3>1, <3>3
      <4>2. s[i] = 0
        BY <2>12, <2>13, <3>3, <4>1, Zenon
      <4> QED
        BY <4>1, <4>2
    <3>4. CASE i > 1 + a /\ i <= 1 + a + m
      BY <2>12, <2>13, <3>1, <3>4
    <3>5. CASE i > 1 + a + m /\ i <= 1 + a + m + b
      BY <2>3, <2>12, <2>13, <3>1, <3>5
    <3>6. CASE i > 1 + a + m + b
      <4>1. /\ ~(i <= 1) /\ ~(i <= 1 + a) /\ ~(i <= 1 + a + m) /\ ~(i <= 1 + a + m + b)
            /\ i = a + m + b + 2
        BY <3>1, <3>6
      <4>2. s[i] = n
        BY <2>12, <2>13, <4>1, Zenon
      <4> QED
        BY <4>1, <4>2
    <3> QED
      BY <3>1, <3>2, <3>3, <3>4, <3>5, <3>6
  <2>15. {s[i] : i \in DOMAIN s} \ {0} = {p \in 1..n : p \in {1, n} \/ (p >= c - 1 /\ p <= c + 1)}
    <3>1. ASSUME NEW i \in DOMAIN s, s[i] # 0
          PROVE  s[i] \in 1..n /\ (s[i] \in {1, n} \/ (s[i] >= c - 1 /\ s[i] <= c + 1))
      <4>1. CASE s[i] = 1 \/ s[i] = n
        BY <4>1
      <4>2. CASE s[i] = first + i - a - 2 /\ 1 + a < i /\ i <= 1 + a + m
        <5>1. s[i] \in 1..n /\ first <= s[i] /\ s[i] <= last
          BY <2>1, <2>3, <2>6, <2>8, <2>13, <4>2
        <5> QED
          BY <2>5, <5>1
      <4> QED
        BY <2>14, <3>1, <4>1, <4>2
    <3>2. ASSUME NEW p \in 1..n, p \in {1, n} \/ (p >= c - 1 /\ p <= c + 1)
          PROVE  \E i \in DOMAIN s : s[i] = p
      <4>1. CASE p = 1
        <5>1. 1 \in DOMAIN s /\ s[1] = 1
          BY <2>3, <2>6, <2>12, <2>13
        <5> QED
          BY <4>1, <5>1
      <4>2. CASE p = n
        <5> DEFINE k == a + m + b + 2
        <5>1. k \in DOMAIN s /\ s[k] = n
          BY <2>3, <2>6, <2>12, <2>13
        <5> QED
          BY <4>2, <5>1
      <4>3. CASE p # 1 /\ p # n
        <5>1. first <= p /\ p <= last
          BY <2>5, <3>2, <4>3
        <5> DEFINE k == p - first + a + 2
        <5>2. k \in 1..(a + m + b + 2) /\ k > 1 + a /\ k <= 1 + a + m /\ first + k - a - 2 = p
          BY <2>1, <2>3, <2>6, <2>8, <5>1
        <5> HIDE DEF k
        <5>3. k \in DOMAIN s /\ s[k] = p
          BY <2>3, <2>12, <2>13, <5>2
        <5> QED
          BY <5>3
      <4> QED
        BY <4>1, <4>2, <4>3
    <3> QED
      BY <3>1, <3>2
  <2>16. \A i, j \in DOMAIN s : i < j /\ 0 \notin {s[i], s[j]} => s[i] < s[j]
    <3> SUFFICES ASSUME NEW i \in DOMAIN s, NEW j \in DOMAIN s, i < j, s[i] # 0, s[j] # 0
                 PROVE  s[i] < s[j]
      OBVIOUS
    <3> QED
      BY <1>3, <2>1, <2>3, <2>6, <2>8, <2>13, <2>14
  <2>17. \A i \in DOMAIN s : s[i] = 0 => i > 1 /\ i < Len(s) /\ s[i + 1] > s[i - 1] + 1
    <3> SUFFICES ASSUME NEW i \in DOMAIN s, s[i] = 0
                 PROVE  i > 1 /\ i < Len(s) /\ s[i + 1] > s[i - 1] + 1
      OBVIOUS
    <3>1. CASE i = 2 /\ a = 1
      <4>1. s[1] = 1 /\ s[3] = first
        BY <2>1, <2>3, <2>6, <2>8, <2>12, <3>1
      <4>2. i > 1 /\ i < Len(s) /\ i + 1 = 3 /\ i - 1 = 1
        BY <2>3, <2>6, <2>8, <2>12, <3>1
      <4> QED
        BY <2>1, <2>3, <3>1, <4>1, <4>2
    <3>2. CASE i = 2 + a + m /\ b = 1
      <4>1. s[3 + a + m] = n /\ s[1 + a + m] = last
        BY <2>1, <2>3, <2>6, <2>8, <2>12, <3>2
      <4>2. i > 1 /\ i < Len(s) /\ i + 1 = 3 + a + m /\ i - 1 = 1 + a + m
        BY <2>3, <2>6, <2>8, <2>12, <3>2
      <4> QED
        BY <2>1, <2>3, <3>2, <4>1, <4>2
    <3> QED
      BY <1>3, <2>1, <2>3, <2>6, <2>8, <2>13, <2>14, <3>1, <3>2
  <2>18. \A i \in 1..(Len(s) - 1) : 0 \notin {s[i], s[i + 1]} => s[i + 1] = s[i] + 1
    <3> SUFFICES ASSUME NEW i \in 1..(Len(s) - 1), s[i] # 0, s[i + 1] # 0
                 PROVE  s[i + 1] = s[i] + 1
      OBVIOUS
    <3> DEFINE k == i + 1
    <3>1. i \in DOMAIN s /\ k \in DOMAIN s /\ k \in Int /\ i \in Int
      BY <2>3, <2>6, <2>12, <2>13
    <3> HIDE DEF k
    <3>2. \/ s[i] = 1 /\ i = 1
          \/ s[i] = n /\ i = a + m + b + 2
          \/ s[i] = first + i - a - 2 /\ 1 + a < i /\ i <= 1 + a + m
      BY <2>14, <3>1
    <3>3. \/ s[k] = 1 /\ k = 1
          \/ s[k] = n /\ k = a + m + b + 2
          \/ s[k] = first + k - a - 2 /\ 1 + a < k /\ k <= 1 + a + m
      <4>1. s[k] # 0
        BY DEF k
      <4> QED
        BY <2>14, <3>1, <4>1
    <3>4. a \in Int /\ b \in Int /\ m \in Int /\ first \in Int /\ m >= 1 /\ k = i + 1 /\ i >= 1
          /\ i + 1 <= a + m + b + 2 /\ a >= 0 /\ b >= 0 /\ (a = 0 => first = 2) /\ (b = 0 => first + m - 1 = n - 1)
      <4>1. (a = 0 => first = 2) /\ (b = 0 => last = n - 1)
        BY <2>1, <2>3
      <4> QED
        BY <2>1, <2>3, <2>6, <2>8, <2>12, <4>1 DEF k
    <3>5. s[k] = s[i] + 1
      <4>1. CASE s[i] = 1 /\ i = 1
        BY <3>3, <3>4, <4>1
      <4>2. CASE s[i] = n /\ i = a + m + b + 2
        BY <3>4, <4>2
      <4>3. CASE s[i] = first + i - a - 2 /\ 1 + a < i /\ i <= 1 + a + m
        BY <3>3, <3>4, <4>3
      <4> QED
        BY <3>2, <4>1, <4>2, <4>3
    <3> QED
      BY <3>5 DEF k
  <2>19. TruePages(s, c, n)
    BY <2>15, <2>16, <2>17, <2>18 DEF TruePages
  <2> QED
    BY <2>19 DEF s
<1> QED
  BY <1>1, <1>2, <1>3

LstPages ==
    /\ lst_total \in Int /\ lst_page \in Int
    /\ lst_existing \subseteq Rows
    /\ \A c \in lst_calls : IsListCall(c) /\ c.total \in Int

LEMMA PagesTrue ==
  ASSUME LstPages
  PROVE  /\ PaginationIsTrue
         /\ Lst!Current \in Int /\ Lst!PagesFor(lst_total) \in Nat \ {0}
         /\ \A p \in Lst!ToSet(Lst!visiblePages(Lst!Current, Lst!PagesFor(lst_total))) \ {0} : p \in Int
<1> DEFINE n == Lst!PagesFor(lst_total)
           c == Lst!Current
           s == Lst!visiblePages(c, n)
<1>1. n \in Nat \ {0}
  <2>1. lst_total + PageSize - 1 \in Int /\ PageSize \in Nat \ {0}
    BY ListsAssumption DEF ListsAssumption, LstPages
  <2>2. (lst_total + PageSize - 1) \div PageSize \in Int
    BY <2>1
  <2> QED
    BY <2>2 DEF Lst!PagesFor, Lst!Larger
<1>2. c \in 1..n
  <2> HIDE DEF n
  <2>1. c = Lst!Bounded(lst_page, n)
    BY DEF Lst!Current, n
  <2> QED
    BY <1>1, <2>1 DEF Lst!Bounded, Lst!Smaller, Lst!Larger, LstPages
<1> HIDE DEF n, c
<1>3. TruePages(s, c, n)
  BY <1>1, <1>2, VisiblePages
<1> HIDE DEF s
<1>4. /\ Lst!ToSet(s) \ {0} = {p \in 1..n : p \in {1, n} \/ (p >= c - 1 /\ p <= c + 1)}
  BY <1>3 DEF TruePages, Lst!ToSet
<1>5. PaginationIsTrue
  BY <1>3, <1>4 DEF PaginationIsTrue, Lst!PaginationIsTrue, TruePages, Lst!Ellipsis, n, c, s
<1> QED
  BY <1>1, <1>2, <1>4, <1>5 DEF n, c, s

\* A total is what the server counts, and it counts a finite set.
LEMMA FoundIsFinite ==
  ASSUME lst_existing \subseteq Rows, NEW q
  PROVE  Lst!Cardinality(Lst!Found(q)) \in Int
<1>1. Lst!Found(q) \in SUBSET Rows
  BY DEF Lst!Found
<1>2. IsFiniteSet(Rows)
  BY ListsAssumption DEF ListsAssumption
<1>3. IsFiniteSet(Lst!Found(q))
  BY <1>1, <1>2, FS_Subset
<1>4. Cardinality(Lst!Found(q)) \in Nat
  BY <1>3, FS_CardinalityType
<1>5. Lst!Cardinality(Lst!Found(q)) = Cardinality(Lst!Found(q))
  BY DEF Lst!Cardinality, Cardinality
<1> QED
  BY <1>4, <1>5

\* The steps of the card, by what they do to the pages.
LEMMA LstSteps ==
  ASSUME [Lst!Next]_lstVars
  PROVE  \/ \E c \in lst_calls : Lst!Loaded(c) \/ Lst!Serve(c) \/ Lst!Refuse(c)
         \/ /\ UNCHANGED <<lst_total, lst_page>>
            /\ lst_existing' \subseteq lst_existing
            /\ \/ lst_calls' \subseteq lst_calls
               \/ \E kind, row : lst_calls' = lst_calls \cup {Lst!Call(kind, lst_query, lst_page, row)}
         \/ /\ UNCHANGED <<lst_total, lst_existing, lst_calls>>
            /\ \/ lst_page' = 1
               \/ \E p : /\ \/ p = Lst!Current - 1 \/ p = Lst!Current + 1
                            \/ p \in Lst!ToSet(Lst!visiblePages(Lst!Current, Lst!PagesFor(lst_total)))
                                       \ {Lst!Ellipsis}
                         /\ lst_page' = Lst!Bounded(p, Lst!PagesFor(lst_total))
<1>1. CASE UNCHANGED lstVars
  BY <1>1 DEF lstVars
<1>2. CASE Lst!Answered
  BY <1>2 DEF Lst!Answered, Lst!Load, Lst!Ended, Lst!dialog, Lst!server
<1>3. CASE Lst!Replied
  BY <1>3 DEF Lst!Replied
<1>4. ASSUME NEW r \in Leaving, Lst!Vanish(r)
      PROVE  UNCHANGED <<lst_total, lst_page, lst_calls>> /\ lst_existing' \subseteq lst_existing
  BY <1>4 DEF Lst!Vanish, Lst!list
<1>5. ASSUME NEW q, Lst!Search(q)
      PROVE  UNCHANGED <<lst_total, lst_existing, lst_calls>> /\ lst_page' = 1
  BY <1>5 DEF Lst!Search, Lst!Act, Lst!Relist, Lst!server
<1>6. ASSUME NEW p, Lst!GoTo(p)
      PROVE  /\ UNCHANGED <<lst_total, lst_existing, lst_calls>>
             /\ lst_page' = Lst!Bounded(p, Lst!PagesFor(lst_total))
  BY <1>6 DEF Lst!GoTo, Lst!Act, Lst!Relist, Lst!server
<1>7. CASE Lst!Click \/ Lst!Step
  BY <1>6, <1>7 DEF Lst!Click, Lst!Step
<1>8. ASSUME NEW ask, NEW r, Lst!Ask(ask, r)
      PROVE  UNCHANGED <<lst_total, lst_page, lst_existing, lst_calls>>
  BY <1>8 DEF Lst!Ask, Lst!Act, Lst!list, Lst!server
<1>9. CASE Lst!Cancel
  BY <1>9 DEF Lst!Cancel, Lst!Act, Lst!list, Lst!server
<1>10. CASE Lst!Confirm
  BY <1>10 DEF Lst!Confirm, Lst!Act, Lst!list, Lst!server
<1> QED
  BY <1>1, <1>2, <1>3, <1>4, <1>5, <1>7, <1>8, <1>9, <1>10 DEF Lst!Next

LEMMA LstPagesNext ==
  ASSUME LstPages, [Lst!Next]_lstVars
  PROVE  LstPages'
<1>1. ASSUME NEW c \in lst_calls, Lst!Loaded(c)
      PROVE  LstPages'
  <2>1. lst_total' \in Int /\ UNCHANGED <<lst_page, lst_existing>> /\ lst_calls' \subseteq lst_calls
    BY <1>1 DEF LstPages, Lst!Loaded, Lst!server
  <2> QED
    BY <2>1 DEF LstPages
<1>2. ASSUME NEW c \in lst_calls, Lst!Serve(c) \/ Lst!Refuse(c)
      PROVE  LstPages'
  <2>1. IsListCall(c) /\ c.total \in Int
    BY DEF LstPages
  <2>2. PICK d : lst_calls' = (lst_calls \ {c}) \cup {d} /\ IsListCall(d) /\ d.total \in Int
    <3>1. CASE Lst!Serve(c)
      <4>1. Lst!Cardinality(Lst!Found(c.query)) \in Int
        BY FoundIsFinite DEF LstPages
      <4> QED
        BY <2>1, <3>1, <4>1, ServedIs DEF Lst!Serve
    <3>2. CASE Lst!Refuse(c)
      <4> DEFINE d == [c EXCEPT !.phase = "failed"]
      <4>1. lst_calls' = (lst_calls \ {c}) \cup {d}
        BY <3>2 DEF Lst!Refuse
      <4>2. IsListCall(d) /\ d.total = c.total
        BY <2>1, ListCallMoves, Zenon
      <4> QED
        BY <2>1, <4>1, <4>2
    <3> QED
      BY <1>2, <3>1, <3>2
  <2>3. UNCHANGED <<lst_total, lst_page>> /\ lst_existing' \subseteq lst_existing
    BY <1>2 DEF Lst!Serve, Lst!Refuse, Lst!list, Lst!server
  <2> QED
    BY <2>2, <2>3 DEF LstPages
<1>3. CASE /\ UNCHANGED <<lst_total, lst_page>>
           /\ lst_existing' \subseteq lst_existing
           /\ \/ lst_calls' \subseteq lst_calls
              \/ \E kind, row : lst_calls' = lst_calls \cup {Lst!Call(kind, lst_query, lst_page, row)}
  <2>1. CASE lst_calls' \subseteq lst_calls
    BY <1>3, <2>1 DEF LstPages
  <2>2. ASSUME NEW kind, NEW row, lst_calls' = lst_calls \cup {Lst!Call(kind, lst_query, lst_page, row)}
        PROVE  LstPages'
    <3> DEFINE d == Lst!Call(kind, lst_query, lst_page, row)
    <3>1. IsListCall(d) /\ d.total \in Int
      BY DEF Lst!Call, IsListCall
    <3> HIDE DEF d
    <3>2. lst_calls' = lst_calls \cup {d}
      BY <2>2 DEF d
    <3> QED
      BY <1>3, <3>1, <3>2 DEF LstPages
  <2> QED
    BY <1>3, <2>1, <2>2
<1>4. CASE UNCHANGED <<lst_total, lst_existing, lst_calls>> /\ lst_page' = 1
  BY <1>4 DEF LstPages
<1>5. ASSUME NEW p, UNCHANGED <<lst_total, lst_existing, lst_calls>>,
             \/ p = Lst!Current - 1 \/ p = Lst!Current + 1
             \/ p \in Lst!ToSet(Lst!visiblePages(Lst!Current, Lst!PagesFor(lst_total))) \ {Lst!Ellipsis},
             lst_page' = Lst!Bounded(p, Lst!PagesFor(lst_total))
      PROVE  LstPages'
  <2>1. p \in Int /\ Lst!PagesFor(lst_total) \in Int
    BY <1>5, PagesTrue DEF Lst!Ellipsis
  <2>2. lst_page' \in Int
    BY <1>5, <2>1 DEF Lst!Bounded, Lst!Smaller, Lst!Larger
  <2> QED
    BY <1>5, <2>2 DEF LstPages
<1> QED
  BY <1>1, <1>2, <1>3, <1>4, <1>5, LstSteps

LEMMA LstInvariant ==
  /\ Lst!Init => LstMarks /\ LstPages
  /\ LstMarks /\ [Lst!Next]_lstVars => LstMarks'
  /\ LstPages /\ [Lst!Next]_lstVars => LstPages'
  /\ LstMarks => MarkedIsUnderWay
  /\ LstPages => PaginationIsTrue
<1>1. ASSUME Lst!Init
      PROVE  LstMarks /\ LstPages
  BY <1>1 DEF Lst!Init, LstMarks, LstPages, Lst!MarkedIsUnderWay
<1>2. LstMarks => MarkedIsUnderWay
  BY DEF LstMarks, MarkedIsUnderWay
<1> QED
  BY <1>1, <1>2, LstMarksNext, LstPagesNext, PagesTrue

-----------------------------------------------------------------------------
(* The views together.                                                     *)

\* One view moves and the others stay where they are.
LEMMA ViewsStep ==
  ASSUME [ViewsNext]_viewsVars
  PROVE  /\ [Lib!Next]_libVars /\ [Ben!Next]_benVars /\ [Box!Next]_boxVars /\ [Sta!Next]_staVars
         /\ [Acc!Next]_accVars /\ [Lst!Next]_lstVars /\ [Set!Next]_setVars
<1>1. CASE ViewsNext
  BY <1>1, Zenon DEF ViewsNext
<1>2. CASE UNCHANGED viewsVars
  BY <1>2 DEF viewsVars
<1> QED
  BY <1>1, <1>2

ViewsInv ==
    /\ LibFilter /\ LibCards
    /\ BenDraft /\ BenLink
    /\ BoxTypes /\ BoxPan
    /\ StaTimes
    /\ AccEntry /\ AccPassword /\ AccForm
    /\ LstMarks /\ LstPages
    /\ SetBusy

LEMMA ViewsInvariant == ViewsSpec => []ViewsInv
<1>1. ViewsInit => ViewsInv
  BY LibInvariant, BenInvariant, BoxInvariant, StageTimes, AccInvariant, LstInvariant, SetInvariant, Zenon
     DEF ViewsInit, ViewsInv
<1>2. ViewsInv /\ [ViewsNext]_viewsVars => ViewsInv'
  <2> SUFFICES ASSUME ViewsInv, [ViewsNext]_viewsVars
               PROVE  ViewsInv'
    OBVIOUS
  <2>1. (LibFilter /\ LibCards)'
    BY ViewsStep, LibInvariant, Zenon DEF ViewsInv
  <2>2. (BenDraft /\ BenLink)'
    BY ViewsStep, BenInvariant, Zenon DEF ViewsInv
  <2>3. (BoxTypes /\ BoxPan)'
    BY ViewsStep, BoxInvariant, Zenon DEF ViewsInv
  <2>4. StaTimes'
    BY ViewsStep, StageTimes, Zenon DEF ViewsInv
  <2>5. (AccEntry /\ AccPassword /\ AccForm)'
    BY ViewsStep, AccInvariant, Zenon DEF ViewsInv
  <2>6. (LstMarks /\ LstPages)'
    BY ViewsStep, LstInvariant, Zenon DEF ViewsInv
  <2>7. SetBusy'
    BY ViewsStep, SetInvariant, Zenon DEF ViewsInv
  <2> QED
    BY <2>1, <2>2, <2>3, <2>4, <2>5, <2>6, <2>7 DEF ViewsInv
<1> QED
  BY <1>1, <1>2, PTL DEF ViewsSpec

\* The filter of the library names a project there is, and so does every card, unless its record was
\* moved there while that project was being deleted: whatever is deleted, moved, created and chosen
\* while answers are under way (library-panel.tsx, confirmDeleteProject and its filter; the
\* patches of records and projects in app-state-provider.tsx).
THEOREM ProjectsTheorem == ViewsSpec => []ProjectsExist
<1>1. ViewsInv => ProjectsExist
  BY LibInvariant, Zenon DEF ViewsInv
<1> QED
  BY <1>1, ViewsInvariant, PTL

\* The ratio shown is that of the size that will be sent, and no more images are attached than the API
\* takes, however many batches of files are being read (control-panel.tsx, reference-image-uploader.tsx and
\* the patches of the parameters).
THEOREM DraftTheorem == ViewsSpec => []DraftIsValid
<1>1. ViewsInv => DraftIsValid
  BY DEF ViewsInv, BenDraft, DraftIsValid, Ben!DraftIsValid
<1> QED
  BY <1>1, ViewsInvariant, PTL

\* A link to a record selects it at most once, in whatever order records are loaded, lost and selected
\* (image-workbench.tsx, appliedActiveIdRef).
THEOREM LinkTheorem == ViewsSpec => []LinkOpensOnce
<1>1. ViewsInv => LinkOpensOnce
  BY DEF ViewsInv, BenLink, LinkOpensOnce, Ben!LinkOpensOnce
<1> QED
  BY <1>1, ViewsInvariant, PTL

\* An image that has settled in the lightbox covers the viewport as far as it can, whatever it was
\* zoomed, dragged, resized and exchanged by before, and its box is its own (image-preview-dialog.tsx,
\* clampPan, getPanLimits, getFittedImageSize).
THEOREM PanTheorem == ViewsSpec => []PanWithinLimits
<1>1. ViewsInv => PanWithinLimits
  BY BoxInvariant, Zenon DEF ViewsInv
<1> QED
  BY <1>1, ViewsInvariant, PTL

\* The progress bar of a record that does not fall back never does either, whatever the clocks of the
\* server and of the browser differ by, and when ticks are missed (preview-stage.tsx, GeneratingState
\* and getGeneratingProgress).
THEOREM ProgressTheorem == ViewsSpec => ProgressNeverFalls
<1>1. ASSUME ViewsInv, [ViewsNext]_viewsVars
      PROVE  [/\ Sta!StageKey[1] = "loading" /\ Sta!StageKey' = Sta!StageKey
              /\ Sta!Rank(sta_records[sta_active]) <= Sta!Rank(sta_records[sta_active])'
              => Sta!GeneratingState(sta_records[sta_active], sta_now)
                   <= Sta!GeneratingState(sta_records[sta_active], sta_now)']_(Sta!vars)
  <2>1. [Sta!Next]_staVars /\ StaTimes
    BY <1>1, ViewsStep, Zenon DEF ViewsInv
  <2> QED
    BY <2>1, StageProgress
<1> QED
  BY <1>1, ViewsInvariant, PTL DEF ViewsSpec, ProgressNeverFalls, Sta!ProgressNeverFalls

\* The errors that the login and the registration show are those of the values they hold, but for the
\* values that the configuration has filled in or emptied since the last validation, which the login
\* does not validate; a demo login that was taken back has left the form, and it never replaces what the
\* user typed and did not clear (login-form.tsx, register-form.tsx).
THEOREM FormTheorem == ViewsSpec => []FormIsCurrent
<1>1. ViewsInv => FormIsCurrent
  BY AccInvariant, Zenon DEF ViewsInv
<1> QED
  BY <1>1, ViewsInvariant, PTL

\* There is at most one attempt to log in or to register, unless a late answer to a logout or to a
\* change of the password has ended the session meanwhile; and at most one change of the password from the section shown
\* (auth-provider.tsx, status; settings-view.tsx, passwordPending).
THEOREM AttemptTheorem == ViewsSpec => []OneAttempt
<1>1. ViewsInv => OneAttempt
  BY AccInvariant, Zenon DEF ViewsInv
<1> QED
  BY <1>1, ViewsInvariant, PTL

\* A user that is marked as being worked on has an operation under way, although operations on several
\* users overlap and share one mark (users-card.tsx, working).
THEOREM MarkTheorem == ViewsSpec => []MarkedIsUnderWay
<1>1. ViewsInv => MarkedIsUnderWay
  BY LstInvariant, Zenon DEF ViewsInv
<1> QED
  BY <1>1, ViewsInvariant, PTL

\* The pagination shows the first page, the last, the current one and its neighbours, in order and once
\* each, with an ellipsis exactly where pages are left out, for every total, page and size of a page
\* (admin-pagination.tsx, visiblePages).
THEOREM PaginationTheorem == ViewsSpec => []PaginationIsTrue
<1>1. ViewsInv => PaginationIsTrue
  BY LstInvariant, Zenon DEF ViewsInv
<1> QED
  BY <1>1, ViewsInvariant, PTL

\* The flags of a card of the settings tell what it has under way, and it never has two loads, two
\* saves or two tests (upstream-config-card.tsx and site-settings-card.tsx, loading, saving, testing).
THEOREM BusyTheorem == ViewsSpec => []BusyWhileCalling
<1>1. ViewsInv => BusyWhileCalling
  BY SetInvariant, Zenon DEF ViewsInv
<1> QED
  BY <1>1, ViewsInvariant, PTL

=============================================================================
