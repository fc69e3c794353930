-------------------------------- MODULE Profile --------------------------------
(***************************************************************************)
(* The mood and the style of one account's page: the dashboard forms that  *)
(* set them, the preview, the account deletion that takes both away, and a *)
(* visitor whose browser caches the page's stylesheet for good.            *)
(*                                                                         *)
(* Each tab of the owner's browser has at most one request under way; an   *)
(* action is one database statement of its handler.  A colour is named by  *)
(* the mood whose tint it is.  A font is a slot whose default does not     *)
(* depend on the mood.                                                     *)
(***************************************************************************)
EXTENDS Naturals, FiniteSets

CONSTANTS
    Tab,        \* tabs of the owner's browser
    Mood,       \* mood keys
    Tinted,     \* colour slots whose default is a tint of the mood
    Plain,      \* colour and font slots with one default
    None,       \* no value
    Picks,      \* colours the owner picks
    Ops,        \* what the owner does
    Faults,     \* "db": any statement may fail
    MaxClock    \* bound on the writes

ASSUME SlotsAssumption == Tinted \cap Plain = {}
ASSUME PicksAssumption == Picks \subseteq Mood \cup {"none", "paper", "own"}
ASSUME NoneAssumption ==
    None \notin Mood \cup Tinted \cup Plain \cup {"none", "paper", "own"}

VARIABLES
    clock,      \* readings of now() and s.now(), all distinct
    alive,      \* the account's row in users
    mood,       \* its row in moods
    history,    \* its rows in mood_history
    style,      \* its row in page_styles, NoStyle if there is none
    held,       \* the row locks of each tab's transaction
    req,        \* the request of each tab
    page,       \* what each tab shows
    view,       \* the version of the stylesheet the visitor's page links
    cache       \* the visitor's cache: stylesheet by version

rowVars == <<clock, alive, mood, history, style>>
dbVars == <<rowVars, held>>
visitorVars == <<view, cache>>
vars == <<dbVars, req, page, visitorVars>>
-------------------------------------------------------------------------------
(* Styles.                                                                 *)

Slots == Tinted \cup Plain
MoodKey == Mood \cup {"none"}
Color == MoodKey \cup {"paper", "own"}

\* colors[s] = None: the slot is "Por defecto".
Choice == [colors : [Slots -> Color \cup {None}], own : BOOLEAN]
Style == [colors : [Slots -> Color \cup {None}], own : BOOLEAN, version : Nat]

DefaultChoice == [colors |-> [s \in Slots |-> None], own |-> FALSE]
NoStyle == [colors |-> [s \in Slots |-> None], own |-> FALSE, version |-> 0]

Chosen(st) == [colors |-> st.colors, own |-> st.own]
IsDefault(st) == Chosen(st) = DefaultChoice
CSS(st) == st.colors
NoCSS == [s \in Slots |-> None]
Customised(st) == {s \in Slots : st.colors[s] # None}

Default(slot, moodKey) == IF slot \in Tinted THEN moodKey ELSE "paper"

\* What a form sends: a colour for every slot, and the checkbox, which is
\* checked while the box keeps the mood's colours.
Form == [fields : [Slots -> Color], keepsMood : BOOLEAN]

previewFields(st, moodKey) ==
    [fields |-> [s \in Slots |-> IF st.colors[s] = None THEN Default(s, moodKey)
                                 ELSE st.colors[s]],
     keepsMood |-> ~st.own]

parseDraft(form, moodKey, reset) ==
    [colors |-> [s \in Slots |-> IF s = reset \/ form.fields[s] = Default(s, moodKey)
                                 THEN None ELSE form.fields[s]],
     own |-> ~form.keepsMood]
-------------------------------------------------------------------------------
(* Requests.                                                               *)

Steps == {"user", "home mood", "home style", "begin", "upsert", "history", "commit",
          "lock user", "cascade", "parse", "preview", "store"}
ASSUME StepsAssumption == None \notin Steps

Request(op, step, arg, form, left) ==
    [op |-> op, at |-> step, arg |-> arg, form |-> form, left |-> left,
     mood |-> None, draft |-> None, now |-> 0]
NoRequest == Request(None, None, None, None, {})
Home(step) == Request("home", step, None, None, {})
NoPage == [kind |-> "none", draft |-> DefaultChoice, mood |-> "none"]
NoMood == [key |-> "none", at |-> 0]

Init ==
    /\ clock = 1
    /\ alive = TRUE
    /\ mood = NoMood /\ history = {}
    /\ style = NoStyle
    /\ held = [t \in Tab |-> {}]
    /\ req = [t \in Tab |-> NoRequest]
    /\ page = [t \in Tab |-> NoPage]
    /\ view = 0 /\ cache = [v \in {} |-> NoCSS]

Fault(f) == f \in Faults
At(t, step) == req[t].at = step
Goto(t, step) == req' = [req EXCEPT ![t].at = step]
Hold(t, locks) == held' = [held EXCEPT ![t] = @ \cup locks]
Release(t) == held' = [held EXCEPT ![t] = {}]
Done(t) == req' = [req EXCEPT ![t] = NoRequest]

\* A new request; the tab waits for its answer.  The bound leaves a clock reading for every write under way.
Send(t, r) ==
    /\ req[t] = NoRequest /\ r.op \in Ops
    /\ r.op \in {"mood", "style"} =>
          clock + Cardinality({u \in Tab : req[u].op \in {"mood", "style"}
                                           /\ req[u].now = 0}) < MaxClock
    /\ req' = [req EXCEPT ![t] = r]
    /\ page' = [page EXCEPT ![t] = NoPage]
    /\ UNCHANGED <<dbVars, visitorVars>>

SendHome(t) == Send(t, Home("user"))
SendMood(t) == \E key \in Mood : Send(t, Request("mood", "user", key, None, {}))
SendDelete(t) == Send(t, Request("delete", "user", None, None, {}))

\* The style form of the dashboard, with at most one slot and the checkbox
\* changed; left is the slots it shows as "Por defecto" and the owner leaves.
SendForm(t, choice, form, left) ==
    Send(t, Request("style", "user", choice, form, left))

SubmitDashboard(t) ==
    LET shown == previewFields(page[t].draft, page[t].mood) IN
    /\ page[t].kind = "home"
    /\ \E s \in Slots, k \in BOOLEAN, choice \in {"publish", "preview"} \cup Slots :
       \E c \in Picks \cup {shown.fields[s]} :
          SendForm(t, choice,
                   [fields |-> [shown.fields EXCEPT ![s] = c], keepsMood |-> k],
                   {u \in Slots : page[t].draft.colors[u] = None
                                  /\ (u = s => c = shown.fields[u])})

\* The hidden inputs of the preview bar.
SubmitPreview(t) ==
    /\ page[t].kind = "preview"
    /\ \E choice \in {"publish", "edit"} :
          SendForm(t, choice, previewFields(page[t].draft, page[t].mood),
                   Slots \ Customised(page[t].draft))
-------------------------------------------------------------------------------
(* CurrentUser: the session resolves to an account, or there is none.      *)

CurrentUser(t) ==
    /\ At(t, "user") /\ alive
    /\ Goto(t, CASE req[t].op = "home" -> "home mood"
                 [] req[t].op = "mood" -> "begin"
                 [] req[t].op = "style" -> "parse"
                 [] OTHER -> "lock user")
    /\ UNCHANGED <<dbVars, page, visitorVars>>

NotSignedIn(t) ==
    /\ At(t, "user") /\ ~alive
    /\ Done(t)
    /\ UNCHANGED <<dbVars, page, visitorVars>>

(* A statement fails: the transaction, if any, is rolled back, and the     *)
(* answer is an error page.                                                *)

\* Defect: nothing rolls back, and the transaction stays open with what it holds.
FailOpen(t) ==
    /\ Done(t)
    /\ UNCHANGED <<dbVars, page, visitorVars>>

Fail(t) ==
    /\ Done(t)
    /\ Release(t)
    /\ UNCHANGED <<rowVars, page, visitorVars>>

DBFails(t) ==
    /\ req[t] # NoRequest /\ Fault("db")
    /\ Fail(t)

(* renderAppHomeMessages: the mood, then the stored style.                 *)

HomeMood(t) ==
    /\ At(t, "home mood")
    /\ req' = [req EXCEPT ![t].mood = mood.key, ![t].at = "home style"]
    /\ UNCHANGED <<dbVars, page, visitorVars>>

HomeStyle(t) ==
    /\ At(t, "home style")
    /\ page' = [page EXCEPT ![t] =
          [kind |-> "home", mood |-> req[t].mood,
           draft |-> IF req[t].draft = None THEN Chosen(style) ELSE req[t].draft]]
    /\ Done(t)
    /\ UNCHANGED <<dbVars, visitorVars>>
-------------------------------------------------------------------------------
(* SetMood and DeleteAccount.  A mood holds its row of moods from the      *)
(* upsert to the commit.  Inserting into a table that references users     *)
(* takes a key share lock on the account's row, which DeleteAccount locks  *)
(* first; deleting the account then takes the row of moods.                *)

Locks == {"moods row", "key share", "users row"}

\* The locks of others that the statement t is at waits for.  Of an account
\* that is gone there is nothing to lock.
Barring(t) ==
    {l \in Locks :
        /\ alive
        /\ \/ l = "moods row" /\ req[t].at \in {"upsert", "cascade"}
           \/ l = "key share" /\ At(t, "lock user")
           \/ /\ l = "users row"
              /\ \/ req[t].at \in {"history", "lock user"}
                 \/ At(t, "upsert") /\ mood = NoMood
                 \/ At(t, "store") /\ ~IsDefault(req[t].draft) /\ style = NoStyle}

WaitsFor(t, u) == t # u /\ held[u] \cap Barring(t) # {}

Ready(t) == \A u \in Tab : ~WaitsFor(t, u)

BeginMood(t) ==
    /\ At(t, "begin")
    /\ req' = [req EXCEPT ![t].now = clock, ![t].at = "upsert"]
    /\ clock' = clock + 1
    /\ UNCHANGED <<alive, mood, history, style, held, page, visitorVars>>

InvalidMood(t) ==
    /\ At(t, "begin")
    /\ req' = [req EXCEPT ![t] = Home("home mood")]
    /\ UNCHANGED <<dbVars, page, visitorVars>>

Recorded(t) == [key |-> req[t].arg, at |-> req[t].now]

\* A first mood inserts its row, a later one finds it there.
LocksOfUpsert == {"moods row"} \cup (IF mood = NoMood THEN {"key share"} ELSE {})

\* Defect: the upsert commits on its own.
UpsertMoodNoTx(t) ==
    /\ At(t, "upsert") /\ alive /\ Ready(t)
    /\ mood' = Recorded(t)
    /\ Goto(t, "history") /\ Hold(t, LocksOfUpsert)
    /\ UNCHANGED <<clock, alive, history, style, page, visitorVars>>

UpsertMood(t) ==
    /\ At(t, "upsert") /\ alive /\ Ready(t)
    /\ Goto(t, "history") /\ Hold(t, LocksOfUpsert)
    /\ UNCHANGED <<rowVars, page, visitorVars>>

InsertMoodHistory(t) ==
    /\ At(t, "history") /\ Ready(t)
    /\ Goto(t, "commit") /\ Hold(t, {"key share"})
    /\ UNCHANGED <<rowVars, page, visitorVars>>

CommitMood(t) ==
    /\ At(t, "commit")
    /\ mood' = Recorded(t)
    /\ history' = history \cup {Recorded(t)}
    /\ req' = [req EXCEPT ![t] = Home("user")] /\ Release(t)
    /\ UNCHANGED <<clock, alive, style, page, visitorVars>>

UserGone(t) ==
    /\ At(t, "upsert") \/ (At(t, "store") /\ ~IsDefault(req[t].draft))
    /\ ~alive
    /\ Fail(t)

LockUser(t) ==
    /\ At(t, "lock user") /\ alive /\ Ready(t)
    /\ Goto(t, "cascade") /\ Hold(t, {"users row"})
    /\ UNCHANGED <<rowVars, page, visitorVars>>

AlreadyGone(t) ==
    /\ At(t, "lock user") /\ ~alive
    /\ Done(t)
    /\ UNCHANGED <<dbVars, page, visitorVars>>

DeleteUser(t) ==
    /\ At(t, "cascade") /\ Ready(t)
    /\ alive' = FALSE
    /\ mood' = NoMood /\ history' = {} /\ style' = NoStyle
    /\ Done(t) /\ Release(t)
    /\ UNCHANGED <<clock, page, visitorVars>>

\* PostgreSQL's detector ends one of the two.
Deadlocked(t) == \E u \in Tab : WaitsFor(t, u) /\ WaitsFor(u, t)

DeadlockAbort(t) ==
    /\ Deadlocked(t)
    /\ Fail(t)
-------------------------------------------------------------------------------
(* handleStyleSubmit.                                                      *)

SubmitStyle(t) ==
    LET reset == IF req[t].arg \in Slots THEN req[t].arg ELSE None
        draft == parseDraft(req[t].form, mood.key, reset) IN
    /\ At(t, "parse")
    /\ req' = [req EXCEPT
          ![t].form = None, ![t].draft = draft,
          ![t].mood = IF req[t].arg = "preview" THEN mood.key ELSE None,
          ![t].left = IF req[t].arg = "publish" THEN req[t].left ELSE {},
          ![t].now = IF req[t].arg = "publish" THEN clock ELSE 0,
          ![t].at = CASE req[t].arg = "publish" -> "store"
                      [] req[t].arg = "preview" -> "preview"
                      [] OTHER -> "home mood"]
    /\ clock' = IF req[t].arg = "publish" THEN clock + 1 ELSE clock
    /\ UNCHANGED <<alive, mood, history, style, held, page, visitorVars>>

InvalidStyle(t) ==
    /\ At(t, "parse")
    /\ req' = [req EXCEPT ![t] = Home("home mood")]
    /\ UNCHANGED <<dbVars, page, visitorVars>>

\* Defect: the preview's fields are filled in for the mood it is rendered with.
RenderPreviewNewMood(t) ==
    /\ At(t, "preview")
    /\ page' = [page EXCEPT ![t] =
          [kind |-> "preview", mood |-> mood.key, draft |-> req[t].draft]]
    /\ Done(t)
    /\ UNCHANGED <<dbVars, visitorVars>>

renderStylePreview(t) ==
    /\ At(t, "preview")
    /\ page' = [page EXCEPT ![t] =
          [kind |-> "preview", mood |-> req[t].mood, draft |-> req[t].draft]]
    /\ Done(t)
    /\ UNCHANGED <<dbVars, visitorVars>>

\* Defect: publishing over a style keeps its updated_at.
StyleRowSameVersion(t) ==
    IF IsDefault(req[t].draft) THEN NoStyle
    ELSE [colors |-> req[t].draft.colors, own |-> req[t].draft.own,
          version |-> IF style = NoStyle THEN req[t].now ELSE style.version]

StyleRow(t) ==
    IF IsDefault(req[t].draft) THEN NoStyle
    ELSE [colors |-> req[t].draft.colors, own |-> req[t].draft.own,
          version |-> req[t].now]

SetStyle(t) ==
    /\ At(t, "store")
    /\ IsDefault(req[t].draft) \/ alive
    /\ Ready(t)
    /\ style' = StyleRow(t)
    /\ req' = [req EXCEPT ![t] = Home("user")]
    /\ UNCHANGED <<clock, alive, mood, history, held, page, visitorVars>>
-------------------------------------------------------------------------------
(* The visitor.                                                            *)

\* handlePage links the stylesheet by its version, and none if the style says
\* nothing or could not be read.
StyleVersion == IF CSS(style) = NoCSS THEN 0 ELSE style.version

handlePage ==
    /\ alive
    /\ view' = StyleVersion
    /\ UNCHANGED <<dbVars, req, page, cache>>

PageNotFound ==
    /\ ~alive /\ view # 0
    /\ view' = 0
    /\ UNCHANGED <<dbVars, req, page, cache>>

PageWithoutStyle ==
    /\ alive /\ Fault("db") /\ view # 0
    /\ view' = 0
    /\ UNCHANGED <<dbVars, req, page, cache>>

\* The browser asks for the version its page links unless it has it; the answer
\* is the style of the moment, whichever version was asked for.
handleStyleCSS ==
    /\ view # 0 /\ view \notin DOMAIN cache
    /\ alive /\ CSS(style) # NoCSS
    /\ cache' = [v \in DOMAIN cache \cup {view} |->
                    IF v = view THEN CSS(style) ELSE cache[v]]
    /\ UNCHANGED <<dbVars, req, page, view>>

Owner(t) ==
    \/ SendHome(t) \/ SendMood(t) \/ SendDelete(t)
    \/ SubmitDashboard(t) \/ SubmitPreview(t)

Serve(t) ==
    \/ CurrentUser(t) \/ NotSignedIn(t)
    \/ HomeMood(t) \/ HomeStyle(t)
    \/ BeginMood(t) \/ InvalidMood(t) \/ UpsertMood(t)
    \/ InsertMoodHistory(t) \/ CommitMood(t) \/ UserGone(t)
    \/ LockUser(t) \/ AlreadyGone(t) \/ DeleteUser(t)
    \/ SubmitStyle(t) \/ InvalidStyle(t) \/ renderStylePreview(t) \/ SetStyle(t)

Next ==
    \/ \E t \in Tab : Owner(t) \/ Serve(t) \/ DBFails(t) \/ DeadlockAbort(t)
    \/ handlePage \/ PageNotFound \/ PageWithoutStyle \/ handleStyleCSS

Spec == Init /\ [][Next]_vars
-------------------------------------------------------------------------------
Requests ==
    [op : Ops \cup {None, "home"}, at : Steps \cup {None},
     arg : Mood \cup Slots \cup {"publish", "preview", "edit", None},
     form : Form \cup {None}, left : SUBSET Slots, mood : MoodKey \cup {None},
     draft : Choice \cup {None}, now : Nat]

TypeOK ==
    /\ clock \in Nat \ {0} /\ alive \in BOOLEAN
    /\ mood \in [key : MoodKey, at : Nat]
    /\ history \subseteq [key : Mood, at : Nat]
    /\ style \in Style
    /\ held \in [Tab -> SUBSET Locks]
    /\ req \in [Tab -> Requests]
    /\ page \in [Tab -> [kind : {"none", "home", "preview"}, draft : Choice, mood : MoodKey]]
    /\ view \in Nat /\ DOMAIN cache \subseteq Nat

\* SetMood: the mood a page shows is always on record in mood_history with the
\* same time, whatever fails and however two changes and a deletion overlap.
MoodRecorded == mood # NoMood => mood \in history

\* handleStyleCSS serves any version with the style of the moment, cacheable for
\* good.  However publishing, page views and fetches interleave, a copy the
\* visitor keeps under the version the page now links is the current style.
StylesheetCurrent ==
    style.version \in DOMAIN cache => cache[style.version] = CSS(style)

\* renderStylePreview: what the preview's hidden inputs send is, under the mood
\* the draft was read with, exactly the draft the preview shows.
PreviewFaithful ==
    \A t \in Tab : page[t].kind = "preview" =>
        parseDraft(previewFields(page[t].draft, page[t].mood), page[t].mood, None)
            = page[t].draft

Busy == {t \in Tab : req[t] # NoRequest}

\* SetMood and DeleteAccount take their locks in opposite orders; still, however many
\* overlap, a request that cannot go on waits for another that is under way, never for
\* a transaction nobody will end, and every circle of waits, of two or of more, has a
\* pair in it, one of which the detector ends.
SomeoneProceeds ==
    /\ \A t \in Busy : Ready(t) \/ \E u \in Busy : WaitsFor(t, u)
    /\ \A S \in (SUBSET Busy) \ {{}} :
          \E t \in S : Deadlocked(t) \/ \A u \in S : ~WaitsFor(t, u)

\* parseDraft: a slot the owner saw as "Por defecto" and left alone, on the dashboard
\* or through previews, is not published as customised.  The mood may change
\* between form and answer, so this is promised of slots that do not follow it.
UntouchedStaysDefault ==
    \A t \in Tab : At(t, "store") => req[t].left \cap Customised(req[t].draft) \subseteq Tinted

\* parseDraft and styleFormFields undo each other, through dashboard and previews,
\* in two tabs and over changes of mood: what is published is what the owner saw.
FormsFaithful == PreviewFaithful /\ UntouchedStaysDefault
===============================================================================
