----------------------------- MODULE ProfileProofs -----------------------------
(***************************************************************************)
(* Proofs about Profile, for any number of tabs, slots, moods and writes.  *)
(***************************************************************************)
EXTENDS Profile, TLAPS

\* Which arguments a request has at each of its steps.
HasArgs(r) ==
    /\ r.at = "user" /\ r.op = "mood" => r.arg \in Mood
    /\ r.at = "user" /\ r.op = "style" => r.form \in Form
    /\ r.at = "parse" => r.form \in Form
    /\ r.at \in {"begin", "upsert", "history", "commit"} => r.arg \in Mood
    /\ r.at = "home style" => r.mood \in MoodKey
    /\ r.at = "preview" => r.mood \in MoodKey /\ r.draft \in Choice
    /\ r.at = "store" => r.draft \in Choice

ArgsOK == \A t \in Tab : HasArgs(req[t])

\* The versions in use, kept or linked are past, and a publication under way
\* has one of its own.
Versions ==
    /\ style.version < clock /\ view < clock
    /\ \A v \in DOMAIN cache : 0 < v /\ v < clock
    /\ \A t \in Tab : At(t, "store") =>
          /\ 0 < req[t].now /\ req[t].now < clock
          /\ req[t].now # style.version /\ req[t].now # view
          /\ req[t].now \notin DOMAIN cache
          /\ \A u \in Tab \ {t} : At(u, "store") => req[u].now # req[t].now

\* A draft read under a mood customises no slot to that mood's default.
Canonical(draft, moodKey) == \A s \in Slots : draft.colors[s] # Default(s, moodKey)

Drafts ==
    /\ \A t \in Tab : At(t, "preview") => Canonical(req[t].draft, req[t].mood)
    /\ \A t \in Tab : page[t].kind = "preview" => Canonical(page[t].draft, page[t].mood)

HeldTyped == held \in [Tab -> SUBSET Locks]

Inv == TypeOK /\ ArgsOK /\ Versions /\ Drafts /\ MoodRecorded /\ StylesheetCurrent

USE DEF Slots, MoodKey, Color, At, Goto, Done, Hold, Release, Fail, HeldTyped
-------------------------------------------------------------------------------
\* A default is a colour, and no default is "no colour".
LEMMA DefaultColor ==
    ASSUME NEW s \in Slots, NEW m \in MoodKey
    PROVE  Default(s, m) \in Color /\ Default(s, m) # None
BY NoneAssumption DEF Default

\* The values a request and a page start from are well typed.
LEMMA Constants ==
    /\ NoRequest \in Requests
    /\ NoPage \in [kind : {"none", "home", "preview"}, draft : Choice, mood : MoodKey]
    /\ NoMood \in [key : MoodKey, at : Nat]
    /\ NoStyle \in Style /\ NoStyle.version = 0
    /\ NoRequest.at = None /\ None \notin Steps
    /\ NoPage.kind = "none"
<1>1. NoPage \in [kind : {"none", "home", "preview"}, draft : Choice, mood : MoodKey]
  BY DEF NoPage, DefaultChoice, Choice
<1>2. NoStyle \in Style /\ NoStyle.version = 0
  BY DEF NoStyle, Style
<1>3. NoRequest \in Requests
  BY DEF NoRequest, Request, Requests
<1> QED
  BY <1>1, <1>2, <1>3, StepsAssumption DEF NoMood, NoRequest, Request, NoPage, Steps

\* A draft that customises nothing to a default survives the preview's form.
LEMMA RoundTrip ==
    ASSUME NEW d \in Choice, NEW m \in MoodKey, Canonical(d, m)
    PROVE  parseDraft(previewFields(d, m), m, None) = d
<1> DEFINE form == previewFields(d, m)
<1>1. \A s \in Slots : (IF s = None \/ form.fields[s] = Default(s, m)
                        THEN None ELSE form.fields[s]) = d.colors[s]
  BY NoneAssumption, DefaultColor DEF Canonical, Choice, previewFields
<1>2. form.keepsMood = ~d.own
  BY DEF previewFields
<1>3. parseDraft(form, m, None).colors = d.colors
  BY <1>1 DEF parseDraft, Choice
<1>4. parseDraft(form, m, None).own = d.own
  BY <1>2 DEF parseDraft, Choice
<1>5. parseDraft(form, m, None) = [colors |-> d.colors, own |-> d.own]
  BY <1>3, <1>4 DEF parseDraft
<1> QED
  BY <1>5 DEF Choice

\* Reading a form gives a draft that customises nothing to a default.
LEMMA Parsed ==
    ASSUME NEW f \in Form, NEW m \in MoodKey, NEW reset
    PROVE  /\ parseDraft(f, m, reset) \in Choice
           /\ Canonical(parseDraft(f, m, reset), m)
BY DefaultColor DEF parseDraft, Canonical, Form, Choice

\* The form of a draft is well typed.
LEMMA FieldsTyped ==
    ASSUME NEW d \in Choice, NEW m \in MoodKey
    PROVE  previewFields(d, m) \in Form
BY DefaultColor DEF previewFields, Choice, Form

\* What a tab may show.
Pages == [kind : {"none", "home", "preview"}, draft : Choice, mood : MoodKey]

\* Most steps move one request, and change what its tab shows.
LEMMA RequestStep ==
    ASSUME Inv, HeldTyped', NEW t \in Tab, NEW r \in Requests, NEW p \in Pages,
           HasArgs(r), r.at # "store",
           r.at = "preview" => Canonical(r.draft, r.mood),
           p.kind = "preview" => Canonical(p.draft, p.mood),
           req' = [req EXCEPT ![t] = r], page' = [page EXCEPT ![t] = p],
           clock' = clock \/ clock' = clock + 1,
           UNCHANGED <<alive, mood, history, style, visitorVars>>
    PROVE  Inv'
<1>1. TypeOK'
  BY DEF Inv, TypeOK, Pages, visitorVars
<1>2. ArgsOK'
  BY DEF Inv, TypeOK, ArgsOK, HasArgs
<1>3. \A u \in Tab : At(u, "store")' => At(u, "store") /\ req'[u] = req[u]
  BY DEF Inv, TypeOK
<1>4. Versions'
  <2>1. /\ clock \in Nat /\ clock' \in Nat /\ clock <= clock'
        /\ style.version \in Nat /\ view \in Nat /\ DOMAIN cache \subseteq Nat
        /\ \A u \in Tab : req[u].now \in Nat
    BY DEF Inv, TypeOK, Style, Requests
  <2>2. style'.version < clock' /\ view' < clock'
    BY <2>1 DEF Inv, Versions, visitorVars
  <2>3. \A v \in DOMAIN cache' : 0 < v /\ v < clock'
    BY <2>1 DEF Inv, Versions, visitorVars
  <2>4. ASSUME NEW u \in Tab, At(u, "store")'
        PROVE  /\ 0 < req'[u].now /\ req'[u].now < clock'
               /\ req'[u].now # style'.version /\ req'[u].now # view'
               /\ req'[u].now \notin DOMAIN cache'
    BY <1>3, <2>1, <2>4 DEF Inv, Versions, visitorVars
  <2>5. ASSUME NEW u \in Tab, At(u, "store")', NEW w \in Tab \ {u}, At(w, "store")'
        PROVE  req'[w].now # req'[u].now
    BY <1>3, <2>5 DEF Inv, Versions
  <2> QED
    BY <2>2, <2>3, <2>4, <2>5 DEF Versions
<1>5. Drafts'
  BY DEF Inv, TypeOK, Drafts, Canonical, Default
<1>6. MoodRecorded' /\ StylesheetCurrent'
  BY DEF Inv, MoodRecorded, StylesheetCurrent, CSS, visitorVars
<1> QED
  BY <1>1, <1>2, <1>4, <1>5, <1>6 DEF Inv

\* A step of a request that leaves the page of its tab alone.
LEMMA QuietStep ==
    ASSUME Inv, HeldTyped', NEW t \in Tab, NEW r \in Requests,
           HasArgs(r), r.at # "store", r.at # "preview",
           req' = [req EXCEPT ![t] = r],
           clock' = clock \/ clock' = clock + 1,
           UNCHANGED <<alive, mood, history, style, page, visitorVars>>
    PROVE  Inv'
<1>1. page[t] \in Pages /\ page' = [page EXCEPT ![t] = page[t]]
  BY DEF Inv, TypeOK, Pages
<1>2. page[t].kind = "preview" => Canonical(page[t].draft, page[t].mood)
  BY DEF Inv, Drafts
<1> QED
  BY <1>1, <1>2, RequestStep

\* A step takes locks for one tab, or lets go of what it holds.
LEMMA HeldMoves ==
    ASSUME NEW t \in Tab, Owner(t) \/ Serve(t) \/ DBFails(t) \/ DeadlockAbort(t)
    PROVE  \/ held' = held
           \/ \E locks \in SUBSET Locks : Hold(t, locks)
           \/ Release(t)
<1>1. CASE Owner(t)
  BY <1>1 DEF Owner, SendHome, SendMood, SendDelete, SubmitDashboard, SubmitPreview,
     SendForm, Send, dbVars
<1>2. CASE UpsertMood(t) \/ InsertMoodHistory(t) \/ LockUser(t)
  <2>1. LocksOfUpsert \in SUBSET Locks /\ {"key share"} \in SUBSET Locks
        /\ {"users row"} \in SUBSET Locks
    BY DEF LocksOfUpsert, Locks
  <2>2. QED BY <1>2, <2>1 DEF UpsertMood, InsertMoodHistory, LockUser
<1>3. CASE \/ UserGone(t) \/ CommitMood(t) \/ DeleteUser(t) \/ DBFails(t) \/ DeadlockAbort(t)
  BY <1>3 DEF UserGone, CommitMood, DeleteUser, DBFails, DeadlockAbort
<1>4. CASE \/ CurrentUser(t) \/ NotSignedIn(t) \/ HomeMood(t) \/ HomeStyle(t) \/ BeginMood(t)
           \/ InvalidMood(t) \/ AlreadyGone(t) \/ SubmitStyle(t) \/ InvalidStyle(t)
           \/ renderStylePreview(t) \/ SetStyle(t)
  BY <1>4 DEF CurrentUser, NotSignedIn, HomeMood, HomeStyle, BeginMood, InvalidMood,
     AlreadyGone, SubmitStyle, InvalidStyle, renderStylePreview, SetStyle, dbVars
<1>5. QED BY <1>1, <1>2, <1>3, <1>4 DEF Serve

LEMMA HeldStep == ASSUME Inv, [Next]_vars PROVE HeldTyped'
<1>1. HeldTyped BY DEF Inv, TypeOK
<1>2. ASSUME NEW t \in Tab, Owner(t) \/ Serve(t) \/ DBFails(t) \/ DeadlockAbort(t)
      PROVE  HeldTyped'
  BY <1>1, <1>2, HeldMoves
<1>3. CASE UNCHANGED held BY <1>1, <1>3
<1>4. QED
  BY <1>2, <1>3 DEF Next, vars, dbVars, handlePage, PageNotFound, PageWithoutStyle,
     handleStyleCSS

\* The initial state satisfies the invariant.
LEMMA InitInv == Init => Inv
<1> SUFFICES ASSUME Init PROVE Inv
  OBVIOUS
<1>1. TypeOK
  BY Constants DEF Init, TypeOK, Pages
<1>2. \A t \in Tab : req[t] = NoRequest /\ req[t].at \notin Steps /\ page[t].kind = "none"
  BY Constants DEF Init
<1>3. ArgsOK /\ Drafts
  BY <1>2 DEF ArgsOK, HasArgs, Drafts, Steps
<1>4. Versions
  <2>1. clock = 1 /\ style.version = 0 /\ view = 0
    BY Constants DEF Init
  <2>2. DOMAIN cache = {}
    BY DEF Init
  <2>3. \A t \in Tab : ~At(t, "store")
    BY <1>2 DEF Steps
  <2> QED
    BY <2>1, <2>2, <2>3 DEF Versions
<1>5. MoodRecorded /\ StylesheetCurrent
  BY DEF Init, MoodRecorded, StylesheetCurrent
<1> QED
  BY <1>1, <1>3, <1>4, <1>5 DEF Inv

\* Sending a request.
LEMMA SendStep ==
    ASSUME Inv, HeldTyped', NEW t \in Tab, NEW r,
           r.op \in Ops => r \in Requests, r.at = "user", HasArgs(r), Send(t, r)
    PROVE  Inv'
<1>1. r \in Requests /\ req' = [req EXCEPT ![t] = r] /\ page' = [page EXCEPT ![t] = NoPage]
      /\ UNCHANGED <<dbVars, visitorVars>>
  BY DEF Send
<1>2. NoPage \in Pages /\ NoPage.kind = "none"
  BY Constants DEF Pages
<1> QED
  BY <1>1, <1>2, RequestStep DEF dbVars, rowVars

\* The owner's steps.
LEMMA OwnerInv ==
    ASSUME Inv, HeldTyped', NEW t \in Tab, Owner(t)
    PROVE  Inv'
<1>1. page[t].draft \in Choice /\ page[t].mood \in MoodKey
  BY DEF Inv, TypeOK
<1>2. ASSUME NEW op, NEW arg \in Mood \cup Slots \cup {"publish", "preview", "edit", None},
             NEW form \in Form \cup {None}, NEW left \in SUBSET Slots,
             op = "mood" => arg \in Mood, op = "style" => form \in Form,
             Send(t, Request(op, "user", arg, form, left))
      PROVE  Inv'
  <2> DEFINE r == Request(op, "user", arg, form, left)
  <2>1. r.op \in Ops => r \in Requests
    BY <1>2 DEF Request, Requests, Steps
  <2>2. r.at = "user" /\ HasArgs(r)
    BY <1>2 DEF Request, HasArgs
  <2> HIDE DEF r
  <2> QED
    BY <1>2, <2>1, <2>2, SendStep DEF r
<1>4. CASE SendHome(t)
  BY <1>2, <1>4 DEF SendHome, Home
<1>5. CASE SendMood(t)
  BY <1>2, <1>5 DEF SendMood
<1>6. CASE SendDelete(t)
  BY <1>2, <1>6 DEF SendDelete
<1>7. CASE SubmitDashboard(t)
  <2> DEFINE shown == previewFields(page[t].draft, page[t].mood)
  <2>1. shown \in Form
    BY <1>1, FieldsTyped
  <2> HIDE DEF shown
  <2>2. PICK s \in Slots, k \in BOOLEAN, choice \in {"publish", "preview"} \cup Slots :
          \E c \in Picks \cup {shown.fields[s]} :
             SendForm(t, choice,
                   [fields |-> [shown.fields EXCEPT ![s] = c], keepsMood |-> k],
                   {u \in Slots : page[t].draft.colors[u] = None
                                  /\ (u = s => c = shown.fields[u])})
    BY <1>7 DEF SubmitDashboard, shown
  <2>3. PICK c \in Picks \cup {shown.fields[s]} :
             SendForm(t, choice,
                   [fields |-> [shown.fields EXCEPT ![s] = c], keepsMood |-> k],
                   {u \in Slots : page[t].draft.colors[u] = None
                                  /\ (u = s => c = shown.fields[u])})
    BY <2>2
  <2>4. c \in Color
    BY <2>1, PicksAssumption DEF Form
  <2>5. [fields |-> [shown.fields EXCEPT ![s] = c], keepsMood |-> k] \in Form
    BY <2>1, <2>4 DEF Form
  <2> QED
    BY <1>2, <2>3, <2>5 DEF SendForm
<1>8. CASE SubmitPreview(t)
  <2>1. PICK choice \in {"publish", "edit"} :
          SendForm(t, choice, previewFields(page[t].draft, page[t].mood),
                   Slots \ Customised(page[t].draft))
    BY <1>8 DEF SubmitPreview
  <2>2. previewFields(page[t].draft, page[t].mood) \in Form
    BY <1>1, FieldsTyped
  <2> QED
    BY <1>2, <2>1, <2>2 DEF SendForm
<1> QED
  BY <1>4, <1>5, <1>6, <1>7, <1>8 DEF Owner

\* Going back to the dashboard, or ending, carries no arguments.
LEMMA Fresh ==
    /\ NoRequest \in Requests /\ HasArgs(NoRequest) /\ NoRequest.at = None
    /\ \A step \in {"user", "home mood"} :
          Home(step) \in Requests /\ HasArgs(Home(step)) /\ Home(step).at = step
BY StepsAssumption DEF NoRequest, Home, Request, Requests, HasArgs, Steps

\* A step that only moves a request on.
LEMMA GotoStep ==
    ASSUME Inv, HeldTyped', NEW t \in Tab, NEW step \in Steps \ {"store", "preview"},
           HasArgs([req[t] EXCEPT !.at = step]), Goto(t, step),
           UNCHANGED <<rowVars, page, visitorVars>>
    PROVE  Inv'
<1> DEFINE r == [req[t] EXCEPT !.at = step]
<1>1. req[t] \in Requests
  BY DEF Inv, TypeOK
<1>2. r \in Requests /\ r.at = step
  BY <1>1 DEF Requests
<1>3. req' = [req EXCEPT ![t] = r]
  BY DEF Inv, TypeOK
<1> HIDE DEF r
<1>4. HasArgs(r)
  BY DEF r
<1> QED
  BY <1>2, <1>3, <1>4, QuietStep DEF dbVars, rowVars

\* The steps of a request that write nothing the page shows.
LEMMA ReadInv ==
    ASSUME Inv, HeldTyped', NEW t \in Tab,
           \/ CurrentUser(t) \/ NotSignedIn(t) \/ HomeMood(t) \/ HomeStyle(t)
           \/ BeginMood(t) \/ InvalidMood(t) \/ UpsertMood(t) \/ InsertMoodHistory(t)
           \/ UserGone(t) \/ LockUser(t) \/ AlreadyGone(t)
           \/ InvalidStyle(t) \/ renderStylePreview(t)
           \/ DBFails(t) \/ DeadlockAbort(t)
    PROVE  Inv'
<1>1. req[t] \in Requests /\ HasArgs(req[t])
  BY DEF Inv, TypeOK, ArgsOK
<1>2. ASSUME Done(t), UNCHANGED <<rowVars, page, visitorVars>> PROVE Inv'
  BY <1>2, Fresh, StepsAssumption, QuietStep DEF dbVars, rowVars, Steps
<1>3. ASSUME req' = [req EXCEPT ![t] = Home("home mood")],
             UNCHANGED <<rowVars, page, visitorVars>>
      PROVE  Inv'
  BY <1>3, Fresh, QuietStep DEF dbVars, rowVars
<1>4. CASE CurrentUser(t)
  <2> DEFINE step == CASE req[t].op = "home" -> "home mood"
                       [] req[t].op = "mood" -> "begin"
                       [] req[t].op = "style" -> "parse"
                       [] OTHER -> "lock user"
  <2>1. step \in Steps \ {"store", "preview"}
    BY DEF Steps
  <2>2. HasArgs([req[t] EXCEPT !.at = step])
    BY <1>1, <1>4 DEF HasArgs, Requests, CurrentUser
  <2>3. Goto(t, step) /\ UNCHANGED <<rowVars, page, visitorVars>>
    BY <1>4 DEF CurrentUser, dbVars
  <2> HIDE DEF step
  <2> QED
    BY <2>1, <2>2, <2>3, GotoStep
<1>5. CASE HomeMood(t)
  <2> DEFINE r == [req[t] EXCEPT !.mood = mood.key, !.at = "home style"]
  <2>1. req' = [req EXCEPT ![t] = r] /\ UNCHANGED <<rowVars, page, visitorVars>>
    BY <1>5 DEF HomeMood, Inv, TypeOK, dbVars
  <2>2. r \in Requests /\ r.at = "home style" /\ HasArgs(r)
    <3>1. mood.key \in MoodKey
      BY DEF Inv, TypeOK
    <3>2. r \in Requests /\ r.at = "home style" /\ r.mood = mood.key
      BY <1>1, <3>1 DEF Requests, Steps
    <3> QED
      BY <3>1, <3>2 DEF HasArgs
  <2> HIDE DEF r
  <2> QED
    BY <2>1, <2>2, QuietStep DEF dbVars, rowVars
<1>6. CASE HomeStyle(t)
  <2> DEFINE p == [kind |-> "home", mood |-> req[t].mood,
                   draft |-> IF req[t].draft = None THEN Chosen(style) ELSE req[t].draft]
  <2>1. page' = [page EXCEPT ![t] = p] /\ Done(t) /\ UNCHANGED <<rowVars, visitorVars>>
    BY <1>6 DEF HomeStyle, dbVars
  <2>2. p \in Pages /\ p.kind = "home"
    <3>1. Chosen(style) \in Choice
      BY DEF Inv, TypeOK, Style, Choice, Chosen
    <3>2. req[t].mood \in MoodKey
      BY <1>1, <1>6 DEF HasArgs, HomeStyle
    <3> QED
      BY <1>1, <3>1, <3>2 DEF Pages, Requests
  <2> HIDE DEF p
  <2> QED
    BY <2>1, <2>2, Fresh, StepsAssumption, RequestStep DEF dbVars, rowVars, Steps
<1>7. CASE BeginMood(t)
  <2> DEFINE r == [req[t] EXCEPT !.now = clock, !.at = "upsert"]
  <2>1. req' = [req EXCEPT ![t] = r] /\ clock' = clock + 1
        /\ UNCHANGED <<alive, mood, history, style, page, visitorVars>>
    BY <1>7 DEF BeginMood, Inv, TypeOK
  <2>2. r \in Requests /\ r.at = "upsert" /\ HasArgs(r)
    BY <1>1, <1>7 DEF Requests, HasArgs, Inv, TypeOK, Steps, BeginMood
  <2> HIDE DEF r
  <2> QED
    BY <2>1, <2>2, QuietStep
<1>8. CASE UpsertMood(t)
  BY <1>1, <1>8, GotoStep DEF UpsertMood, HasArgs, Requests, Steps
<1>9. CASE InsertMoodHistory(t)
  BY <1>1, <1>9, GotoStep DEF InsertMoodHistory, HasArgs, Requests, Steps
<1>10. CASE LockUser(t)
  BY <1>1, <1>10, GotoStep DEF LockUser, HasArgs, Requests, Steps
<1>11. CASE renderStylePreview(t)
  <2> DEFINE p == [kind |-> "preview", mood |-> req[t].mood, draft |-> req[t].draft]
  <2>1. page' = [page EXCEPT ![t] = p] /\ Done(t) /\ UNCHANGED <<rowVars, visitorVars>>
    BY <1>11 DEF renderStylePreview, dbVars
  <2>2. p \in Pages
    BY <1>1, <1>11 DEF Pages, HasArgs, renderStylePreview
  <2>3. Canonical(p.draft, p.mood)
    BY <1>11 DEF Inv, Drafts, renderStylePreview
  <2> HIDE DEF p
  <2> QED
    BY <2>1, <2>2, <2>3, Fresh, StepsAssumption, RequestStep DEF dbVars, rowVars, Steps
<1> QED
  BY <1>2, <1>3, <1>4, <1>5, <1>6, <1>7, <1>8, <1>9, <1>10, <1>11
  DEF NotSignedIn, InvalidMood, UserGone, AlreadyGone, InvalidStyle, DBFails, DeadlockAbort,
      dbVars
-------------------------------------------------------------------------------
\* Reading a style form: a publication takes a version nobody has.
LEMMA SubmitStyleInv ==
    ASSUME Inv, HeldTyped', NEW t \in Tab, SubmitStyle(t)
    PROVE  Inv'
<1> DEFINE reset == IF req[t].arg \in Slots THEN req[t].arg ELSE None
           draft == parseDraft(req[t].form, mood.key, reset)
           publish == req[t].arg = "publish"
           preview == req[t].arg = "preview"
           under == IF preview THEN mood.key ELSE None
           left == IF publish THEN req[t].left ELSE {}
           now == IF publish THEN clock ELSE 0
           step == CASE publish -> "store"
                     [] preview -> "preview"
                     [] OTHER -> "home mood"
           r == [req[t] EXCEPT !.form = None, !.draft = draft, !.mood = under,
                               !.left = left, !.now = now, !.at = step]
<1>1. req[t] \in Requests /\ req[t].form \in Form /\ mood.key \in MoodKey
      /\ clock \in Nat \ {0}
  BY DEF Inv, TypeOK, ArgsOK, HasArgs, SubmitStyle
<1>2. draft \in Choice /\ Canonical(draft, mood.key)
  BY <1>1, Parsed
<1>3. req' = [req EXCEPT ![t] = r]
  BY ZenonT(30) DEF SubmitStyle, Inv, TypeOK
<1>4. clock' = (IF publish THEN clock + 1 ELSE clock)
      /\ UNCHANGED <<alive, mood, history, style, page, visitorVars>>
  BY DEF SubmitStyle
<1> HIDE DEF draft
<1>5. r \in Requests /\ HasArgs(r) /\ r.draft = draft
  <2>1. under \in MoodKey \cup {None} /\ left \in SUBSET Slots /\ now \in Nat
    BY <1>1 DEF Requests
  <2>2. step \in Steps
    BY DEF Steps
  <2>3. r \in Requests /\ r.draft = draft
    <3> HIDE DEF under, left, now, step
    <3> QED
      BY <1>1, <1>2, <2>1, <2>2 DEF Requests
  <2>4. \/ r.at = "store" \/ r.at = "home mood"
        \/ r.at = "preview" /\ r.mood = mood.key
    BY <1>1 DEF Requests
  <2>5. HasArgs(r)
    BY <1>1, <1>2, <2>3, <2>4 DEF HasArgs
  <2> QED
    BY <2>3, <2>5
<1>6. CASE ~publish
  <2>1. r.at # "store" /\ (r.at = "preview" => r.mood = mood.key)
    BY <1>1, <1>6 DEF Requests
  <2>2. r.at = "preview" => Canonical(r.draft, r.mood)
    BY <1>2, <1>5, <2>1
  <2>3. page[t] \in Pages /\ page' = [page EXCEPT ![t] = page[t]]
        /\ (page[t].kind = "preview" => Canonical(page[t].draft, page[t].mood))
    BY <1>4 DEF Inv, TypeOK, Drafts, Pages
  <2> HIDE DEF r
  <2> QED
    BY <1>3, <1>4, <1>5, <1>6, <2>1, <2>2, <2>3, RequestStep
<1>7. CASE publish
  <2>1. r.at = "store" /\ r.now = clock /\ clock' = clock + 1
    BY <1>1, <1>4, <1>7 DEF Requests
  <2> HIDE DEF r
  <2>2. TypeOK' /\ ArgsOK'
    <3>1. req' \in [Tab -> Requests]
      BY <1>3, <1>5 DEF Inv, TypeOK
    <3>2. TypeOK'
      BY <1>1, <1>4, <2>1, <3>1 DEF Inv, TypeOK, visitorVars
    <3>3. ArgsOK'
      BY <1>3, <1>5 DEF Inv, TypeOK, ArgsOK, HasArgs
    <3> QED
      BY <3>2, <3>3
  <2>3. \A u \in Tab \ {t} : req'[u] = req[u]
    BY <1>3 DEF Inv, TypeOK
  <2>4. req'[t] = r
    BY <1>3 DEF Inv, TypeOK
  <2>5. Versions'
    <3>1. /\ clock \in Nat \ {0} /\ style.version \in Nat /\ view \in Nat
          /\ DOMAIN cache \subseteq Nat /\ \A u \in Tab : req[u].now \in Nat
      BY DEF Inv, TypeOK, Style, Requests
    <3>2. style'.version < clock' /\ view' < clock'
          /\ \A v \in DOMAIN cache' : 0 < v /\ v < clock'
      BY <1>4, <2>1, <3>1 DEF Inv, Versions, visitorVars
    <3>3. ASSUME NEW u \in Tab, At(u, "store")'
          PROVE  /\ 0 < req'[u].now /\ req'[u].now < clock'
                 /\ req'[u].now # style'.version /\ req'[u].now # view'
                 /\ req'[u].now \notin DOMAIN cache'
      <4>1. CASE u = t
        BY <1>4, <2>1, <2>4, <3>1, <4>1 DEF Inv, Versions, visitorVars
      <4>2. CASE u # t
        BY <1>4, <2>1, <2>3, <3>1, <3>3, <4>2 DEF Inv, Versions, visitorVars
      <4> QED
        BY <4>1, <4>2
    <3>4. ASSUME NEW u \in Tab, At(u, "store")', NEW w \in Tab \ {u}, At(w, "store")'
          PROVE  req'[w].now # req'[u].now
      <4>1. \A x \in Tab \ {t} : At(x, "store")' => req'[x].now < clock
        BY <2>3 DEF Inv, Versions
      <4>2. CASE u = t \/ w = t
        BY <2>1, <2>4, <3>1, <3>4, <4>1, <4>2, <2>3
      <4>3. CASE u # t /\ w # t
        BY <2>3, <3>4, <4>3 DEF Inv, Versions
      <4> QED
        BY <4>2, <4>3
    <3> QED
      BY <3>2, <3>3, <3>4 DEF Versions
  <2>6. Drafts'
    <3>1. \A u \in Tab : At(u, "preview")' => At(u, "preview") /\ req'[u] = req[u]
      BY <2>1, <2>3, <2>4
    <3> QED
      BY <1>4, <3>1 DEF Inv, Drafts, Canonical, Default
  <2>7. MoodRecorded' /\ StylesheetCurrent'
    BY <1>4 DEF Inv, MoodRecorded, StylesheetCurrent, CSS, visitorVars
  <2> QED
    BY <2>2, <2>5, <2>6, <2>7 DEF Inv
<1> QED
  BY <1>6, <1>7

\* A request that ends and leaves the clock, the page and the visitor alone;
\* the mood and the style may change.
LEMMA WriteStep ==
    ASSUME Inv, HeldTyped', NEW t \in Tab, NEW r \in Requests, HasArgs(r), r.at \in {None, "user"},
           req' = [req EXCEPT ![t] = r],
           alive' \in BOOLEAN, mood' \in [key : MoodKey, at : Nat],
           history' \subseteq [key : Mood, at : Nat],
           style' \in Style,
           \/ style' = style
           \/ style'.version = 0
           \/ At(t, "store") /\ style'.version = req[t].now,
           MoodRecorded', UNCHANGED <<clock, page, visitorVars>>
    PROVE  Inv'
<1>1. TypeOK' /\ ArgsOK'
  BY DEF Inv, TypeOK, ArgsOK, visitorVars, HasArgs
<1>2. \A u \in Tab : At(u, "store")' => u # t /\ At(u, "store") /\ req'[u] = req[u]
  BY StepsAssumption DEF Inv, TypeOK, Steps
<1>3. Versions'
  <2>1. /\ clock \in Nat \ {0} /\ style.version \in Nat /\ view \in Nat
        /\ DOMAIN cache \subseteq Nat /\ \A u \in Tab : req[u].now \in Nat
    BY DEF Inv, TypeOK, Style, Requests
  <2>2. style'.version < clock' /\ view' < clock'
        /\ \A v \in DOMAIN cache' : 0 < v /\ v < clock'
    BY <2>1 DEF Inv, Versions, visitorVars
  <2>3. ASSUME NEW u \in Tab, At(u, "store")'
        PROVE  /\ 0 < req'[u].now /\ req'[u].now < clock'
               /\ req'[u].now # style'.version /\ req'[u].now # view'
               /\ req'[u].now \notin DOMAIN cache'
    BY <1>2, <2>1, <2>3 DEF Inv, Versions, visitorVars
  <2>4. ASSUME NEW u \in Tab, At(u, "store")', NEW w \in Tab \ {u}, At(w, "store")'
        PROVE  req'[w].now # req'[u].now
    BY <1>2, <2>4 DEF Inv, Versions
  <2> QED
    BY <2>2, <2>3, <2>4 DEF Versions
<1>4. Drafts'
  <2>1. \A u \in Tab : At(u, "preview")' => At(u, "preview") /\ req'[u] = req[u]
    BY StepsAssumption DEF Inv, TypeOK, Steps
  <2> QED
    BY <2>1 DEF Inv, Drafts, Canonical, Default
<1>5. StylesheetCurrent'
  <2>1. CASE style' = style
    BY <2>1 DEF Inv, StylesheetCurrent, CSS, visitorVars
  <2>2. CASE style'.version \notin DOMAIN cache
    BY <2>2 DEF StylesheetCurrent, visitorVars
  <2>3. 0 \notin DOMAIN cache /\ (At(t, "store") => req[t].now \notin DOMAIN cache)
    BY DEF Inv, Versions
  <2> QED
    BY <2>1, <2>2, <2>3
<1> QED
  BY <1>1, <1>3, <1>4, <1>5 DEF Inv

\* Committing a mood, publishing a style and deleting the account.
LEMMA WriteInv ==
    ASSUME Inv, HeldTyped', NEW t \in Tab, CommitMood(t) \/ DeleteUser(t) \/ SetStyle(t)
    PROVE  Inv'
<1>1. /\ req[t] \in Requests /\ HasArgs(req[t]) /\ alive \in BOOLEAN /\ style \in Style
      /\ mood \in [key : MoodKey, at : Nat] /\ history \subseteq [key : Mood, at : Nat]
  BY DEF Inv, TypeOK, ArgsOK
<1>2. CASE CommitMood(t)
  <2>1. Recorded(t) \in [key : Mood, at : Nat]
    BY <1>1, <1>2 DEF CommitMood, Recorded, HasArgs, Requests
  <2>2. /\ mood' = Recorded(t) /\ history' = history \cup {Recorded(t)}
        /\ req' = [req EXCEPT ![t] = Home("user")]
        /\ UNCHANGED <<clock, alive, style, page, visitorVars>>
    BY <1>2 DEF CommitMood
  <2>3. /\ mood' \in [key : MoodKey, at : Nat]
        /\ history' \subseteq [key : Mood, at : Nat] /\ MoodRecorded'
    BY <1>1, <2>1, <2>2 DEF MoodRecorded
  <2> QED
    BY <1>1, <2>2, <2>3, Fresh, WriteStep
<1>3. CASE DeleteUser(t)
  <2>1. /\ alive' = FALSE /\ mood' = NoMood /\ history' = {} /\ style' = NoStyle
        /\ req' = [req EXCEPT ![t] = NoRequest]
        /\ UNCHANGED <<clock, page, visitorVars>>
    BY <1>3 DEF DeleteUser
  <2>2. MoodRecorded' /\ mood' \in [key : MoodKey, at : Nat]
        /\ style' \in Style /\ style'.version = 0
    BY <2>1, Constants DEF MoodRecorded, NoMood
  <2> QED
    BY <2>1, <2>2, Fresh, WriteStep
<1>4. CASE SetStyle(t)
  <2>1. /\ style' = StyleRow(t) /\ At(t, "store")
        /\ req' = [req EXCEPT ![t] = Home("user")]
        /\ UNCHANGED <<clock, alive, mood, history, page, visitorVars>>
    BY <1>4 DEF SetStyle
  <2>2. req[t].draft \in Choice /\ req[t].now \in Nat
    BY <1>1, <2>1 DEF HasArgs, Requests
  <2>3. style' \in Style /\ (style'.version = 0 \/ style'.version = req[t].now)
    BY <2>1, <2>2, Constants DEF StyleRow, Choice, Style
  <2>4. MoodRecorded'
    BY <2>1 DEF Inv, MoodRecorded
  <2> QED
    BY <1>1, <2>1, <2>3, <2>4, Fresh, WriteStep
<1> QED
  BY <1>2, <1>3, <1>4

\* The visitor's steps.
LEMMA VisitorInv ==
    ASSUME Inv, HeldTyped', handlePage \/ PageNotFound \/ PageWithoutStyle \/ handleStyleCSS
    PROVE  Inv'
<1>1. /\ clock \in Nat \ {0} /\ style.version \in Nat /\ view \in Nat
      /\ DOMAIN cache \subseteq Nat /\ \A u \in Tab : req[u].now \in Nat
  BY DEF Inv, TypeOK, Style, Requests
<1>2. UNCHANGED <<dbVars, req, page>>
  BY DEF handlePage, PageNotFound, PageWithoutStyle, handleStyleCSS
<1>3. ArgsOK' /\ Drafts' /\ MoodRecorded'
  BY <1>2 DEF Inv, ArgsOK, HasArgs, Drafts, Canonical, Default, MoodRecorded, dbVars, rowVars
<1>4. CASE handlePage \/ PageNotFound \/ PageWithoutStyle
  <2>1. view' \in {0, style.version} /\ cache' = cache
    BY <1>4 DEF handlePage, PageNotFound, PageWithoutStyle, StyleVersion
  <2>2. TypeOK'
    BY <1>1, <1>2, <2>1 DEF Inv, TypeOK, dbVars, rowVars
  <2>3. Versions'
    BY <1>1, <1>2, <2>1 DEF Inv, Versions, dbVars, rowVars
  <2>4. StylesheetCurrent'
    BY <1>2, <2>1 DEF Inv, StylesheetCurrent, CSS, dbVars, rowVars
  <2> QED
    BY <1>3, <2>2, <2>3, <2>4 DEF Inv
<1>5. CASE handleStyleCSS
  <2>1. /\ view' = view /\ view # 0
        /\ cache' = [v \in DOMAIN cache \cup {view} |->
                        IF v = view THEN CSS(style) ELSE cache[v]]
    BY <1>5 DEF handleStyleCSS
  <2>2. DOMAIN cache' = DOMAIN cache \cup {view}
    BY <2>1
  <2>3. TypeOK'
    BY <1>1, <1>2, <2>1, <2>2 DEF Inv, TypeOK, dbVars, rowVars
  <2>4. Versions'
    BY <1>1, <1>2, <2>1, <2>2 DEF Inv, Versions, dbVars, rowVars
  <2>5. StylesheetCurrent'
    BY <1>2, <2>1, <2>2 DEF Inv, StylesheetCurrent, CSS, dbVars, rowVars
  <2> QED
    BY <1>3, <2>3, <2>4, <2>5 DEF Inv
<1> QED
  BY <1>4, <1>5

\* Every step preserves the invariant.
LEMMA StepInv == Inv /\ [Next]_vars => Inv'
<1> SUFFICES ASSUME Inv, [Next]_vars PROVE Inv'
  OBVIOUS
<1>4. HeldTyped'
  BY HeldStep
<1>1. CASE UNCHANGED vars
  BY <1>1 DEF vars, dbVars, rowVars, visitorVars, Inv, TypeOK, ArgsOK, HasArgs, Versions,
              Drafts, Canonical, Default, MoodRecorded, StylesheetCurrent, CSS
<1>2. ASSUME NEW t \in Tab, Serve(t) PROVE Inv'
  BY <1>2, <1>4, ReadInv, SubmitStyleInv, WriteInv DEF Serve
<1>3. ASSUME NEW t \in Tab, DBFails(t) \/ DeadlockAbort(t) PROVE Inv'
  BY <1>3, <1>4, ReadInv
<1> QED
  BY <1>1, <1>2, <1>3, <1>4, OwnerInv, VisitorInv DEF Next
-------------------------------------------------------------------------------
\* The invariant holds in every reachable state.
LEMMA Invariance == Spec => []Inv
BY InitInv, StepInv, PTL DEF Spec

\* Every request, page, style and version of the mood and style handlers keeps
\* its type.
THEOREM TypeCorrect == Spec => []TypeOK
<1>1. Inv => TypeOK
  BY DEF Inv
<1> QED
  BY <1>1, Invariance, PTL

\* SetMood: the mood shown is on record in mood_history, for any number of
\* concurrent requests and failures.
THEOREM MoodAlwaysRecorded == Spec => []MoodRecorded
<1>1. Inv => MoodRecorded
  BY DEF Inv
<1> QED
  BY <1>1, Invariance, PTL

\* handleStyleCSS: a stylesheet kept for good under the version the page links
\* is never an old one.
THEOREM StylesheetFresh == Spec => []StylesheetCurrent
<1>1. Inv => StylesheetCurrent
  BY DEF Inv
<1> QED
  BY <1>1, Invariance, PTL

\* previewFields and parseDraft: what a preview posts back is what it shows.
THEOREM PreviewRoundTrip == Spec => []PreviewFaithful
<1>1. ASSUME Inv PROVE PreviewFaithful
  <2>1. \A t \in Tab : page[t].draft \in Choice /\ page[t].mood \in MoodKey
    BY <1>1 DEF Inv, TypeOK
  <2>2. \A t \in Tab : page[t].kind = "preview" => Canonical(page[t].draft, page[t].mood)
    BY <1>1 DEF Inv, Drafts
  <2> QED
    BY <2>1, <2>2, RoundTrip DEF PreviewFaithful
<1> QED
  BY <1>1, Invariance, PTL
-------------------------------------------------------------------------------
(* Slots the owner left alone.                                             *)

\* A slot that does not follow the mood, shown as "Por defecto" and left alone, is
\* sent as the colour it has under every mood, and so is not published.
LeftDefault(r) ==
    /\ r.at = "parse" \/ (r.at = "user" /\ r.op = "style")
          => \A s \in r.left \cap Plain : r.form.fields[s] = "paper"
    /\ r.at = "store" => r.left \cap Customised(r.draft) \subseteq Tinted

LeftAlone == \A t \in Tab : LeftDefault(req[t])

\* A step changes one request.
LEMMA LeftStep ==
    ASSUME Inv, LeftAlone, NEW t \in Tab, NEW r, LeftDefault(r), req' = [req EXCEPT ![t] = r]
    PROVE  LeftAlone'
BY DEF Inv, TypeOK, LeftAlone

\* A request that is not about a form has left nothing.
LEMMA NothingLeft ==
    /\ LeftDefault(NoRequest)
    /\ \A step \in Steps \ {"store", "parse"} : LeftDefault(Home(step))
BY StepsAssumption DEF LeftDefault, NoRequest, Home, Request, Steps

\* The forms the owner sends.
LEMMA SendLeft ==
    ASSUME Inv, LeftAlone, NEW t \in Tab, Owner(t)
    PROVE  LeftAlone'
<1> DEFINE shown == previewFields(page[t].draft, page[t].mood)
<1>1. page[t].draft \in Choice /\ page[t].mood \in MoodKey
  BY DEF Inv, TypeOK
<1>2. \A s \in Plain : page[t].draft.colors[s] = None => shown.fields[s] = "paper"
  BY SlotsAssumption DEF previewFields, Default
<1>3. shown \in Form
  BY <1>1, FieldsTyped
<1>4. ASSUME NEW op, NEW arg, NEW form, NEW left,
             op = "style" => \A s \in left \cap Plain : form.fields[s] = "paper",
             Send(t, Request(op, "user", arg, form, left))
      PROVE  LeftAlone'
  <2>1. LeftDefault(Request(op, "user", arg, form, left))
    BY <1>4 DEF LeftDefault, Request
  <2> QED
    BY <1>4, <2>1, LeftStep DEF Send
<1> HIDE DEF shown
<1>5. CASE SendHome(t)
  <2>1. Send(t, Home("user")) /\ LeftDefault(Home("user"))
    BY <1>5, NothingLeft DEF SendHome, Steps
  <2> QED
    BY <2>1, LeftStep DEF Send
<1>6. CASE SendMood(t)
  BY <1>4, <1>6 DEF SendMood
<1>7. CASE SendDelete(t)
  BY <1>4, <1>7 DEF SendDelete
<1>8. CASE SubmitDashboard(t)
  <2>1. PICK s \in Slots, k \in BOOLEAN, choice \in {"publish", "preview"} \cup Slots :
          \E c \in Picks \cup {shown.fields[s]} :
             SendForm(t, choice,
                   [fields |-> [shown.fields EXCEPT ![s] = c], keepsMood |-> k],
                   {u \in Slots : page[t].draft.colors[u] = None
                                  /\ (u = s => c = shown.fields[u])})
    BY <1>8 DEF SubmitDashboard, shown
  <2>2. PICK c \in Picks \cup {shown.fields[s]} :
             SendForm(t, choice,
                   [fields |-> [shown.fields EXCEPT ![s] = c], keepsMood |-> k],
                   {u \in Slots : page[t].draft.colors[u] = None
                                  /\ (u = s => c = shown.fields[u])})
    BY <2>1
  <2> DEFINE form == [fields |-> [shown.fields EXCEPT ![s] = c], keepsMood |-> k]
             left == {u \in Slots : page[t].draft.colors[u] = None
                                    /\ (u = s => c = shown.fields[u])}
  <2>3. \A u \in left \cap Plain : form.fields[u] = shown.fields[u]
    BY <1>3 DEF Form
  <2>4. \A u \in left \cap Plain : form.fields[u] = "paper"
    BY <1>2, <2>3
  <2>5. Send(t, Request("style", "user", choice, form, left))
    BY <2>2 DEF SendForm
  <2> HIDE DEF form, left
  <2> QED
    BY <1>4, <2>4, <2>5
<1>9. CASE SubmitPreview(t)
  <2>1. PICK choice \in {"publish", "edit"} :
          Send(t, Request("style", "user", choice, shown, Slots \ Customised(page[t].draft)))
    BY <1>9 DEF SubmitPreview, SendForm, shown
  <2>2. \A s \in (Slots \ Customised(page[t].draft)) \cap Plain : shown.fields[s] = "paper"
    BY <1>2 DEF Customised
  <2> QED
    BY <1>4, <2>1, <2>2
<1> QED
  BY <1>5, <1>6, <1>7, <1>8, <1>9 DEF Owner

\* Reading the form: under any mood the default of such a slot is what was sent.
LEMMA ParseLeft ==
    ASSUME Inv, LeftAlone, NEW t \in Tab, SubmitStyle(t)
    PROVE  LeftAlone'
<1> DEFINE reset == IF req[t].arg \in Slots THEN req[t].arg ELSE None
           draft == parseDraft(req[t].form, mood.key, reset)
           under == IF req[t].arg = "preview" THEN mood.key ELSE None
           left == IF req[t].arg = "publish" THEN req[t].left ELSE {}
           now == IF req[t].arg = "publish" THEN clock ELSE 0
           step == CASE req[t].arg = "publish" -> "store"
                     [] req[t].arg = "preview" -> "preview"
                     [] OTHER -> "home mood"
           r == [req[t] EXCEPT !.form = None, !.draft = draft, !.mood = under,
                               !.left = left, !.now = now, !.at = step]
<1>1. req[t] \in Requests /\ At(t, "parse")
  BY DEF Inv, TypeOK, SubmitStyle
<1>2. \A s \in req[t].left \cap Plain : draft.colors[s] = None
  <2>1. \A s \in req[t].left \cap Plain : req[t].form.fields[s] = Default(s, mood.key)
    BY <1>1, SlotsAssumption DEF LeftAlone, LeftDefault, Default
  <2> QED
    BY <2>1 DEF parseDraft
<1>3. req[t].left \cap Customised(draft) \subseteq Tinted
  BY <1>2 DEF Customised
<1>4. /\ req'[t].at \in {"store", "preview", "home mood"}
      /\ req'[t].at = "store" => req'[t].left = req[t].left
      /\ req'[t].draft = draft
      /\ \A u \in Tab \ {t} : req'[u] = req[u]
  <2>1. req' = [req EXCEPT ![t] = r]
    BY ZenonT(30) DEF SubmitStyle, Inv, TypeOK
  <2>2. req \in [Tab -> Requests]
    BY DEF Inv, TypeOK
  <2>3. step \in {"store", "preview", "home mood"} /\ (step = "store" => left = req[t].left)
    OBVIOUS
  <2>4. r.at = step /\ r.left = left /\ r.draft = draft
    <3> HIDE DEF draft, under, left, now, step
    <3> QED
      BY <1>1 DEF Requests
  <2> HIDE DEF r, draft, under, left, now, step
  <2> QED
    BY <2>1, <2>2, <2>3, <2>4
<1>5. LeftDefault(req'[t])
  <2> HIDE DEF draft
  <2> QED
    BY <1>3, <1>4 DEF LeftDefault
<1> QED
  BY <1>4, <1>5 DEF LeftAlone

\* The other steps of a request carry no form further, or end it.
LEMMA ServeLeft ==
    ASSUME Inv, LeftAlone, NEW t \in Tab,
           Serve(t) \/ DBFails(t) \/ DeadlockAbort(t), ~SubmitStyle(t)
    PROVE  LeftAlone'
<1>1. req[t] \in Requests
  BY DEF Inv, TypeOK
<1>2. CASE CurrentUser(t)
  <2>1. /\ req'[t].at \in {"home mood", "begin", "parse", "lock user"}
        /\ req'[t].at = "parse" => req[t].op = "style"
        /\ req'[t].left = req[t].left /\ req'[t].form = req[t].form
        /\ \A u \in Tab \ {t} : req'[u] = req[u]
    BY <1>1, <1>2 DEF CurrentUser, Inv, TypeOK, Requests
  <2>2. LeftDefault(req'[t])
    <3>1. req[t].at = "user" /\ LeftDefault(req[t])
      BY <1>2 DEF CurrentUser, LeftAlone
    <3> QED
      BY <2>1, <3>1 DEF LeftDefault
  <2> QED
    BY <2>1, <2>2 DEF LeftAlone
<1>3. ASSUME NEW step \in {"history", "commit", "cascade"}, Goto(t, step)
      PROVE  LeftAlone'
  <2> DEFINE r == [req[t] EXCEPT !.at = step]
  <2>1. req' = [req EXCEPT ![t] = r]
    BY <1>3 DEF Inv, TypeOK
  <2>2. LeftDefault(r)
    BY <1>1 DEF LeftDefault, Requests
  <2> HIDE DEF r
  <2> QED
    BY <2>1, <2>2, LeftStep
<1>4. CASE UpsertMood(t) \/ InsertMoodHistory(t) \/ LockUser(t)
  BY <1>3, <1>4 DEF UpsertMood, InsertMoodHistory, LockUser
<1>5. CASE HomeMood(t)
  <2> DEFINE r == [req[t] EXCEPT !.mood = mood.key, !.at = "home style"]
  <2>1. req' = [req EXCEPT ![t] = r]
    BY <1>5 DEF HomeMood, Inv, TypeOK
  <2>2. LeftDefault(r)
    BY <1>1 DEF LeftDefault, Requests
  <2> HIDE DEF r
  <2> QED
    BY <2>1, <2>2, LeftStep
<1>6. CASE BeginMood(t)
  <2> DEFINE r == [req[t] EXCEPT !.now = clock, !.at = "upsert"]
  <2>1. req' = [req EXCEPT ![t] = r]
    BY <1>6 DEF BeginMood, Inv, TypeOK
  <2>2. LeftDefault(r)
    BY <1>1 DEF LeftDefault, Requests
  <2> HIDE DEF r
  <2> QED
    BY <2>1, <2>2, LeftStep
<1>7. CASE \/ NotSignedIn(t) \/ HomeStyle(t) \/ UserGone(t) \/ AlreadyGone(t)
           \/ DeleteUser(t) \/ renderStylePreview(t) \/ DBFails(t) \/ DeadlockAbort(t)
  <2>1. req' = [req EXCEPT ![t] = NoRequest]
    BY <1>7 DEF NotSignedIn, HomeStyle, UserGone, AlreadyGone, DeleteUser,
                renderStylePreview, DBFails, DeadlockAbort
  <2> QED
    BY <2>1, NothingLeft, LeftStep
<1>8. CASE InvalidMood(t) \/ InvalidStyle(t) \/ CommitMood(t) \/ SetStyle(t)
  <2>1. PICK step \in {"home mood", "user"} : req' = [req EXCEPT ![t] = Home(step)]
    BY <1>8 DEF InvalidMood, InvalidStyle, CommitMood, SetStyle
  <2>2. LeftDefault(Home(step))
    BY <2>1, NothingLeft DEF Steps
  <2> QED
    BY <2>1, <2>2, LeftStep
<1> QED
  BY <1>2, <1>4, <1>5, <1>6, <1>7, <1>8 DEF Serve

\* A slot left at "Por defecto" stays so through every step.
LEMMA LeftInvariant == Spec => []LeftAlone
<1>1. Init => LeftAlone
  BY NothingLeft DEF Init, LeftAlone
<1>2. Inv /\ LeftAlone /\ [Next]_vars => LeftAlone'
  <2> SUFFICES ASSUME Inv, LeftAlone, [Next]_vars PROVE LeftAlone'
    OBVIOUS
  <2>1. CASE UNCHANGED req
    BY <2>1 DEF LeftAlone
  <2>2. CASE UNCHANGED vars
    BY <2>1, <2>2 DEF vars
  <2>3. CASE handlePage \/ PageNotFound \/ PageWithoutStyle \/ handleStyleCSS
    BY <2>1, <2>3 DEF handlePage, PageNotFound, PageWithoutStyle, handleStyleCSS
  <2>4. ASSUME NEW t \in Tab, Owner(t) \/ Serve(t) \/ DBFails(t) \/ DeadlockAbort(t)
        PROVE  LeftAlone'
    BY <2>4, SendLeft, ParseLeft, ServeLeft
  <2> QED
    BY <2>2, <2>3, <2>4 DEF Next
<1> QED
  BY <1>1, <1>2, Invariance, PTL DEF Spec

\* parseDraft and styleFormFields: forms come back as they were shown, previews
\* exactly and dashboards in every slot that does not follow the mood.
THEOREM FormsReadBack == Spec => []FormsFaithful
<1>1. LeftAlone => UntouchedStaysDefault
  BY DEF LeftAlone, LeftDefault, UntouchedStaysDefault
<1>2. PreviewFaithful /\ UntouchedStaysDefault => FormsFaithful
  BY DEF FormsFaithful
<1> QED
  BY <1>1, <1>2, PreviewRoundTrip, LeftInvariant, PTL
-------------------------------------------------------------------------------
(* Waiting for locks.                                                      *)

\* A tab without a request is at no statement, and every other is at one.
AtStatement == \A t \in Tab : t \in Busy <=> req[t].at \in Steps

\* A request moves on to a statement or is over; the others stay where they are.
LEMMA MovesOn ==
    ASSUME Inv, NEW t \in Tab, Owner(t) \/ Serve(t) \/ DBFails(t) \/ DeadlockAbort(t)
    PROVE  \E r : /\ req' = [req EXCEPT ![t] = r]
                  /\ r = NoRequest \/ r.at \in Steps
<1> USE DEF Home, Request
<1>1. req[t] \in Requests BY DEF Inv, TypeOK
<1>2. ASSUME NEW step \in Steps
      PROVE  [req[t] EXCEPT !.at = step].at \in Steps
  BY <1>1 DEF Requests
<1>3. CASE Owner(t)
  <2>1. ASSUME NEW op, NEW arg, NEW form, NEW left,
               Send(t, Request(op, "user", arg, form, left))
        PROVE  \E r : req' = [req EXCEPT ![t] = r] /\ r.at \in Steps
    <3> DEFINE r == Request(op, "user", arg, form, left)
    <3>1. r.at \in Steps BY DEF Steps
    <3> HIDE DEF r
    <3>2. Send(t, r) BY <2>1 DEF r
    <3>3. QED BY <3>1, <3>2 DEF Send
  <2> HIDE DEF Request
  <2>2. CASE SendHome(t) \/ SendMood(t) \/ SendDelete(t) \/ SubmitPreview(t)
    BY <2>1, <2>2 DEF SendHome, SendMood, SendDelete, SubmitPreview, SendForm
  <2>3. CASE SubmitDashboard(t)
    <3> DEFINE shown == previewFields(page[t].draft, page[t].mood)
    <3>1. PICK s \in Slots, k \in BOOLEAN, choice \in {"publish", "preview"} \cup Slots :
            \E c \in Picks \cup {shown.fields[s]} :
               SendForm(t, choice,
                     [fields |-> [shown.fields EXCEPT ![s] = c], keepsMood |-> k],
                     {u \in Slots : page[t].draft.colors[u] = None
                                    /\ (u = s => c = shown.fields[u])})
      BY <2>3 DEF SubmitDashboard
    <3> HIDE DEF shown
    <3>2. \E form, left : SendForm(t, choice, form, left) BY <3>1
    <3>3. QED BY <2>1, <3>2 DEF SendForm
  <2>4. QED BY <1>3, <2>2, <2>3 DEF Owner
<1>4. CASE \/ NotSignedIn(t) \/ HomeStyle(t) \/ InvalidMood(t) \/ CommitMood(t)
           \/ UserGone(t) \/ AlreadyGone(t) \/ DeleteUser(t) \/ InvalidStyle(t)
           \/ renderStylePreview(t) \/ SetStyle(t) \/ DBFails(t) \/ DeadlockAbort(t)
  BY <1>4 DEF NotSignedIn, HomeStyle, InvalidMood, CommitMood, UserGone, AlreadyGone,
     DeleteUser, InvalidStyle, renderStylePreview, SetStyle, DBFails, DeadlockAbort, Steps
<1>5. CASE \/ CurrentUser(t) \/ UpsertMood(t) \/ InsertMoodHistory(t) \/ LockUser(t)
  <2>1. \E step \in Steps : req' = [req EXCEPT ![t].at = step]
    BY <1>5 DEF CurrentUser, UpsertMood, InsertMoodHistory, LockUser, Steps
  <2>2. PICK step \in Steps : req' = [req EXCEPT ![t].at = step]
    BY <2>1
  <2>3. req' = [req EXCEPT ![t] = [req[t] EXCEPT !.at = step]]
    BY <2>2
  <2>4. QED BY <1>2, <2>3
<1>6. CASE HomeMood(t) \/ BeginMood(t) \/ SubmitStyle(t)
  <2>1. \E r : req' = [req EXCEPT ![t] = r] /\ r.at \in Steps
    <3>1. CASE HomeMood(t)
      <4> DEFINE r == [req[t] EXCEPT !.mood = mood.key, !.at = "home style"]
      <4>1. req' = [req EXCEPT ![t] = r] BY <3>1 DEF HomeMood
      <4>2. r.at \in Steps BY <1>1 DEF Requests, Steps
      <4>3. QED BY <4>1, <4>2
    <3>2. CASE BeginMood(t)
      <4> DEFINE r == [req[t] EXCEPT !.now = clock, !.at = "upsert"]
      <4>1. req' = [req EXCEPT ![t] = r] BY <3>2 DEF BeginMood
      <4>2. r.at \in Steps BY <1>1 DEF Requests, Steps
      <4>3. QED BY <4>1, <4>2
    <3>3. CASE SubmitStyle(t)
      <4> DEFINE reset == IF req[t].arg \in Slots THEN req[t].arg ELSE None
                 r == [req[t] EXCEPT
                    !.form = None,
                    !.draft = parseDraft(req[t].form, mood.key, reset),
                    !.mood = IF req[t].arg = "preview" THEN mood.key ELSE None,
                    !.left = IF req[t].arg = "publish" THEN req[t].left ELSE {},
                    !.now = IF req[t].arg = "publish" THEN clock ELSE 0,
                    !.at = CASE req[t].arg = "publish" -> "store"
                             [] req[t].arg = "preview" -> "preview"
                             [] OTHER -> "home mood"]
      <4>1. req' = [req EXCEPT ![t] = r] BY <3>3, ZenonT(30) DEF SubmitStyle
      <4>2. r.at \in Steps BY <1>1 DEF Requests, Steps
      <4>3. QED BY <4>1, <4>2
    <3>4. QED BY <1>6, <3>1, <3>2, <3>3
  <2>2. QED BY <2>1
<1>7. QED
  BY <1>3, <1>4, <1>5, <1>6 DEF Serve

\* The owner's steps send a request from a tab that has none.
LEMMA OwnerSends ==
    ASSUME Inv, NEW t \in Tab, Owner(t)
    PROVE  held' = held /\ req[t] = NoRequest /\ req'[t].at = "user"
<1>1. ASSUME NEW op, NEW arg, NEW form, NEW left,
             Send(t, Request(op, "user", arg, form, left))
      PROVE  held' = held /\ req[t] = NoRequest /\ req'[t].at = "user"
  <2> DEFINE r == Request(op, "user", arg, form, left)
  <2>1. r.at = "user" BY DEF Request
  <2> HIDE DEF r
  <2>2. Send(t, r) BY <1>1 DEF r
  <2>3. QED BY <2>1, <2>2 DEF Send, dbVars, Inv, TypeOK
<1>2. CASE SendHome(t) \/ SendMood(t) \/ SendDelete(t) \/ SubmitPreview(t)
  BY <1>1, <1>2 DEF SendHome, SendMood, SendDelete, SubmitPreview, SendForm, Home
<1>3. CASE SubmitDashboard(t)
  <2> DEFINE shown == previewFields(page[t].draft, page[t].mood)
  <2>1. PICK s \in Slots, k \in BOOLEAN, choice \in {"publish", "preview"} \cup Slots :
          \E c \in Picks \cup {shown.fields[s]} :
             SendForm(t, choice,
                   [fields |-> [shown.fields EXCEPT ![s] = c], keepsMood |-> k],
                   {u \in Slots : page[t].draft.colors[u] = None
                                  /\ (u = s => c = shown.fields[u])})
    BY <1>3 DEF SubmitDashboard
  <2> HIDE DEF shown
  <2>2. \E form, left : SendForm(t, choice, form, left) BY <2>1
  <2>3. QED BY <1>1, <2>2 DEF SendForm
<1>4. QED BY <1>2, <1>3 DEF Owner

\* Every tab is at a statement of its request, or has none.
LEMMA AtStatementInvariant == Spec => []AtStatement
<1>1. NoRequest.at \notin Steps BY StepsAssumption DEF NoRequest, Request
<1>2. Init => AtStatement BY <1>1 DEF Init, AtStatement, Busy
<1>3. Inv /\ AtStatement /\ [Next]_vars => AtStatement'
  <2> SUFFICES ASSUME Inv, AtStatement, [Next]_vars PROVE AtStatement'
      OBVIOUS
  <2>1. ASSUME NEW t \in Tab, Owner(t) \/ Serve(t) \/ DBFails(t) \/ DeadlockAbort(t)
        PROVE  AtStatement'
    <3>1. PICK r : req' = [req EXCEPT ![t] = r] /\ (r = NoRequest \/ r.at \in Steps)
      BY <2>1, MovesOn
    <3>2. QED BY <1>1, <3>1 DEF Inv, TypeOK, AtStatement, Busy
  <2>2. CASE UNCHANGED req BY <2>2 DEF AtStatement, Busy
  <2>3. QED
    BY <2>1, <2>2 DEF Next, vars, handlePage, PageNotFound, PageWithoutStyle, handleStyleCSS
<1>4. QED BY <1>2, <1>3, Invariance, PTL DEF Spec

\* What a transaction holds: a mood its row, and perhaps a key share of the account;
\* a deletion the account.
HeldAs(r, locks) ==
    /\ "moods row" \in locks <=> r.at \in {"history", "commit"}
    /\ "users row" \in locks <=> r.at = "cascade"
    /\ "key share" \in locks => r.at \in {"history", "commit"}

HeldAtStatement == \A t \in Tab : HeldAs(req[t], held[t])

\* Locks are taken on the way into these statements and let go on every way out.
LEMMA HeldAsMoves ==
    ASSUME Inv, HeldAtStatement, NEW t \in Tab,
           Owner(t) \/ Serve(t) \/ DBFails(t) \/ DeadlockAbort(t)
    PROVE  HeldAtStatement'
<1> DEFINE Quiet == Steps \ {"history", "commit", "cascade"}
<1>1. req[t] \in Requests /\ held[t] \in SUBSET Locks /\ HeldAs(req[t], held[t])
  BY DEF Inv, TypeOK, HeldAtStatement
<1>2. NoRequest.at = None /\ None \notin Steps BY Constants
<1>3. PICK r : req' = [req EXCEPT ![t] = r] /\ (r = NoRequest \/ r.at \in Steps)
  BY MovesOn
<1>4. held' \in [Tab -> SUBSET Locks] /\ \A u \in Tab \ {t} : held'[u] = held[u]
  BY HeldMoves DEF Inv, TypeOK
<1>5. req'[t] = r /\ \A u \in Tab \ {t} : req'[u] = req[u]
  BY <1>3 DEF Inv, TypeOK
<1>6. SUFFICES HeldAs(req'[t], held'[t])
  <2>1. ASSUME NEW u \in Tab \ {t} PROVE HeldAs(req'[u], held'[u])
    BY <1>4, <1>5 DEF HeldAtStatement
  <2>2. \A u \in Tab : HeldAs(req'[u], held'[u]) => HeldAs(req[u], held[u])'
    BY DEF HeldAs
  <2>3. QED BY <1>6, <2>1, <2>2 DEF HeldAtStatement
<1>7. ASSUME held'[t] = held[t], req[t].at \in Quiet \/ req[t] = NoRequest,
             req'[t].at \in Quiet \/ req'[t] = NoRequest
      PROVE  HeldAs(req'[t], held'[t])
  BY <1>1, <1>2, <1>7 DEF HeldAs, Steps
<1>8. ASSUME held'[t] = {}, req'[t].at \in Quiet \/ req'[t] = NoRequest
      PROVE  HeldAs(req'[t], held'[t])
  BY <1>2, <1>8 DEF HeldAs, Steps
<1> HIDE DEF Quiet
<1>9. \A step \in {"user", "home mood", "home style", "begin", "upsert", "lock user", "parse",
                   "preview", "store"} : step \in Quiet
  BY DEF Quiet, Steps
<1>10. CASE Owner(t)
  <2>1. held' = held /\ req[t] = NoRequest /\ (r.at \in Quiet \/ r = NoRequest)
    BY <1>10, OwnerSends, <1>9, <1>5
  <2>2. QED BY <1>5, <1>7, <2>1
<1>11. CASE \/ CurrentUser(t) \/ NotSignedIn(t) \/ HomeMood(t) \/ HomeStyle(t) \/ BeginMood(t)
            \/ InvalidMood(t) \/ AlreadyGone(t) \/ SubmitStyle(t) \/ InvalidStyle(t)
            \/ renderStylePreview(t) \/ SetStyle(t)
  <2>1. held' = held /\ req[t].at \in Quiet
    BY <1>9, <1>11 DEF CurrentUser, NotSignedIn, HomeMood, HomeStyle, BeginMood, InvalidMood,
       AlreadyGone, SubmitStyle, InvalidStyle, renderStylePreview, SetStyle, dbVars
  <2>2. CASE \/ NotSignedIn(t) \/ HomeStyle(t) \/ AlreadyGone(t) \/ renderStylePreview(t)
    BY <1>5, <1>7, <2>1, <2>2 DEF NotSignedIn, HomeStyle, AlreadyGone, renderStylePreview, Inv, TypeOK
  <2>3. CASE InvalidMood(t) \/ InvalidStyle(t) \/ SetStyle(t)
    <3>1. \E step \in {"user", "home mood"} : req' = [req EXCEPT ![t] = Home(step)]
      BY <2>3 DEF InvalidMood, InvalidStyle, SetStyle
    <3>2. req'[t].at \in Quiet BY <1>9, <3>1, Fresh DEF Inv, TypeOK
    <3>3. QED BY <1>7, <2>1, <3>2
  <2>4. CASE CurrentUser(t) \/ HomeMood(t) \/ BeginMood(t) \/ SubmitStyle(t)
    <3>1. CASE CurrentUser(t)
      <4>1. req'[t].at \in {"home mood", "begin", "parse", "lock user"}
        BY <1>1, <3>1 DEF CurrentUser, Inv, TypeOK, Requests
      <4>2. QED BY <1>7, <1>9, <2>1, <4>1
    <3>2. CASE HomeMood(t)
      <4> DEFINE q == [req[t] EXCEPT !.mood = mood.key, !.at = "home style"]
      <4>1. req' = [req EXCEPT ![t] = q] BY <3>2 DEF HomeMood, Inv, TypeOK
      <4>2. q.at = "home style" BY <1>1 DEF Requests
      <4>3. req'[t] = q BY <4>1 DEF Inv, TypeOK
      <4> HIDE DEF q
      <4>4. QED BY <1>7, <1>9, <2>1, <4>2, <4>3
    <3>3. CASE BeginMood(t)
      <4> DEFINE q == [req[t] EXCEPT !.now = clock, !.at = "upsert"]
      <4>1. req' = [req EXCEPT ![t] = q] BY <3>3 DEF BeginMood, Inv, TypeOK
      <4>2. q.at = "upsert" BY <1>1 DEF Requests
      <4>3. req'[t] = q BY <4>1 DEF Inv, TypeOK
      <4> HIDE DEF q
      <4>4. QED BY <1>7, <1>9, <2>1, <4>2, <4>3
    <3>4. CASE SubmitStyle(t)
      <4>1. req'[t].at \in {"store", "preview", "home mood"}
        BY <1>1, <3>4 DEF SubmitStyle, Inv, TypeOK, Requests
      <4>2. QED BY <1>7, <1>9, <2>1, <4>1
    <3>5. QED BY <2>4, <3>1, <3>2, <3>3, <3>4
  <2>5. QED BY <1>11, <2>2, <2>3, <2>4
<1>12. CASE UserGone(t) \/ DBFails(t) \/ DeadlockAbort(t) \/ DeleteUser(t)
  BY <1>8, <1>12 DEF UserGone, DBFails, DeadlockAbort, DeleteUser, Inv, TypeOK
<1>13. CASE CommitMood(t)
  <2>1. req'[t] = Home("user") /\ held'[t] = {} BY <1>13 DEF CommitMood, Inv, TypeOK
  <2>2. QED BY <1>8, <1>9, <2>1, Fresh
<1>14. CASE UpsertMood(t)
  <2>1. req'[t].at = "history" /\ req[t].at = "upsert" /\ held'[t] = held[t] \cup LocksOfUpsert
    BY <1>1, <1>14 DEF UpsertMood, Inv, TypeOK, Requests
  <2>2. QED BY <1>1, <2>1 DEF HeldAs, LocksOfUpsert
<1>15. CASE InsertMoodHistory(t)
  <2>1. req'[t].at = "commit" /\ req[t].at = "history" /\ held'[t] = held[t] \cup {"key share"}
    BY <1>1, <1>15 DEF InsertMoodHistory, Inv, TypeOK, Requests
  <2>2. QED BY <1>1, <2>1 DEF HeldAs
<1>16. CASE LockUser(t)
  <2>1. req'[t].at = "cascade" /\ req[t].at = "lock user" /\ held'[t] = held[t] \cup {"users row"}
    BY <1>1, <1>16 DEF LockUser, Inv, TypeOK, Requests
  <2>2. QED BY <1>1, <2>1 DEF HeldAs
<1>17. QED
  BY <1>10, <1>11, <1>12, <1>13, <1>14, <1>15, <1>16 DEF Serve

LEMMA HeldInvariant == Spec => []HeldAtStatement
<1>1. Init => HeldAtStatement
  BY Constants DEF Init, HeldAtStatement, HeldAs, Steps
<1>2. Inv /\ HeldAtStatement /\ [Next]_vars => HeldAtStatement'
  <2> SUFFICES ASSUME Inv, HeldAtStatement, [Next]_vars PROVE HeldAtStatement'
      OBVIOUS
  <2>1. ASSUME NEW t \in Tab, Owner(t) \/ Serve(t) \/ DBFails(t) \/ DeadlockAbort(t)
        PROVE  HeldAtStatement'
    BY <2>1, HeldAsMoves
  <2>2. CASE UNCHANGED <<req, held>> BY <2>2 DEF HeldAtStatement, HeldAs
  <2>3. QED
    BY <2>1, <2>2 DEF Next, vars, dbVars, handlePage, PageNotFound, PageWithoutStyle,
       handleStyleCSS
<1>3. QED BY <1>1, <1>2, Invariance, PTL DEF Spec

\* Who waits, at which statement, and where the one is that it waits for.
LEMMA WaitsAt ==
    ASSUME HeldAtStatement, NEW t \in Tab, NEW u \in Tab, WaitsFor(t, u)
    PROVE  /\ t # u /\ alive
           /\ \/ /\ req[t].at \in {"upsert", "lock user", "store"}
                 /\ req[u].at \in {"history", "commit", "cascade"}
              \/ req[t].at = "history" /\ req[u].at = "cascade"
              \/ req[t].at = "cascade" /\ req[u].at \in {"history", "commit"}
<1>1. HeldAs(req[u], held[u]) BY DEF HeldAtStatement
<1>2. PICK l \in held[u] : l \in Barring(t) BY DEF WaitsFor
<1>3. t # u /\ alive BY <1>2 DEF WaitsFor, Barring
<1>4. CASE l = "moods row" BY <1>1, <1>2, <1>3, <1>4 DEF HeldAs, Barring
<1>5. CASE l = "key share" BY <1>1, <1>2, <1>3, <1>5 DEF HeldAs, Barring
<1>6. CASE l = "users row" BY <1>1, <1>2, <1>3, <1>6 DEF HeldAs, Barring
<1>7. QED BY <1>2, <1>4, <1>5, <1>6 DEF Barring, Locks

\* How far a statement is from one that waits for nobody.
Rank(step) ==
    IF step \in {"upsert", "lock user", "store"} THEN 2
    ELSE IF step \in {"history", "cascade"} THEN 1 ELSE 0

\* Waits go down the ranks, except between a mood on its way into the history and
\* a deletion, which wait for each other.
LEMMA WaitsGoDown ==
    ASSUME HeldAtStatement, NEW t \in Tab, NEW u \in Tab, WaitsFor(t, u)
    PROVE  Rank(req[u].at) < Rank(req[t].at) \/ WaitsFor(u, t)
<1>1. CASE /\ req[t].at \in {"upsert", "lock user", "store"}
           /\ req[u].at \in {"history", "commit", "cascade"}
  <2>1. Rank(req[t].at) = 2 BY <1>1 DEF Rank
  <2>2. Rank(req[u].at) = 1 \/ Rank(req[u].at) = 0
    <3>1. CASE req[u].at \in {"history", "cascade"} BY <3>1 DEF Rank
    <3>2. CASE req[u].at = "commit" BY <3>2 DEF Rank
    <3>3. QED BY <1>1, <3>1, <3>2
  <2>3. QED BY <2>1, <2>2
<1>2. CASE req[t].at = "cascade" /\ req[u].at = "commit"
  BY <1>2 DEF Rank
<1>3. CASE req[t].at = "cascade" /\ req[u].at = "history"
  <2>1. "users row" \in held[t] BY <1>3 DEF HeldAtStatement, HeldAs
  <2>2. "users row" \in Barring(u) BY <1>3, WaitsAt DEF Barring, Locks
  <2>3. QED BY <2>1, <2>2, WaitsAt DEF WaitsFor
<1>4. CASE req[t].at = "history" /\ req[u].at = "cascade"
  <2>1. "moods row" \in held[t] BY <1>4 DEF HeldAtStatement, HeldAs
  <2>2. "moods row" \in Barring(u) BY <1>4, WaitsAt DEF Barring, Locks
  <2>3. QED BY <2>1, <2>2, WaitsAt DEF WaitsFor
<1>5. QED BY <1>1, <1>2, <1>3, <1>4, WaitsAt

\* A request that is not ready finds its lock with another that is under way.
LEMMA WaitsForBusy ==
    ASSUME AtStatement, HeldAtStatement, NEW t \in Busy, ~Ready(t)
    PROVE  \E u \in Busy : WaitsFor(t, u)
<1>1. t \in Tab BY DEF Busy
<1>2. PICK u \in Tab : WaitsFor(t, u) BY DEF Ready
<1>3. req[u].at \in {"history", "commit", "cascade"} BY <1>1, <1>2, WaitsAt
<1>4. req[u].at \in Steps BY <1>3 DEF Steps
<1>5. QED BY <1>2, <1>4 DEF AtStatement

\* Of some tabs one has the lowest rank.
LEMMA LowestRank ==
    ASSUME NEW S \in (SUBSET Tab) \ {{}}
    PROVE  \E t \in S : \A u \in S : Rank(req[t].at) <= Rank(req[u].at)
<1>1. \A t \in S : Rank(req[t].at) \in 0..2 BY DEF Rank
<1> HIDE DEF Rank
<1>2. CASE \E t \in S : Rank(req[t].at) = 0 BY <1>1, <1>2
<1>3. CASE \A t \in S : Rank(req[t].at) # 0
  <2>1. \A t \in S : Rank(req[t].at) \in 1..2 BY <1>1, <1>3
  <2>2. QED BY <2>1
<1>4. QED BY <1>2, <1>3

\* SetMood holds its mood and waits for the account, DeleteAccount holds the account
\* and waits for the mood, and publications wait for the account: still, for any
\* number of tabs, a wait leads to a request under way, and no circle of waits is
\* without a pair of which one is chosen to fail.
THEOREM NobodyIsStuck == Spec => []SomeoneProceeds
<1>1. AtStatement /\ HeldAtStatement => SomeoneProceeds
  <2> SUFFICES ASSUME AtStatement, HeldAtStatement PROVE SomeoneProceeds
      OBVIOUS
  <2>1. ASSUME NEW S \in (SUBSET Busy) \ {{}}
        PROVE  \E t \in S : Deadlocked(t) \/ \A u \in S : ~WaitsFor(t, u)
    <3>1. S \in (SUBSET Tab) \ {{}} BY DEF Busy
    <3>2. PICK t \in S : \A u \in S : Rank(req[t].at) <= Rank(req[u].at)
      BY <3>1, LowestRank
    <3>3. ASSUME NEW u \in S, WaitsFor(t, u) PROVE Deadlocked(t)
      <4>1. t \in Tab /\ u \in Tab BY <3>1
      <4>2. ~(Rank(req[u].at) < Rank(req[t].at))
        <5>1. \A l \in {req[u].at, req[t].at} : Rank(l) \in Nat BY DEF Rank
        <5>2. QED BY <3>2, <5>1
      <4>3. WaitsFor(u, t) BY <3>3, <4>1, <4>2, WaitsGoDown
      <4>4. QED BY <3>3, <4>1, <4>3 DEF Deadlocked
    <3>4. QED BY <3>3
  <2>2. QED BY <2>1, WaitsForBusy DEF SomeoneProceeds
<1>2. QED BY <1>1, AtStatementInvariant, HeldInvariant, PTL
===============================================================================
