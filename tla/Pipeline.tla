------------------------------- MODULE Pipeline -------------------------------
(***************************************************************************)
(* The site: the process Config starts, and the path of one request        *)
(* through its Server.Handler: the shared middleware, the split by host,   *)
(* the middleware of each surface, the limiters of the route and the       *)
(* handler, which may panic before or after it began to answer; then back  *)
(* out through Recover and RequestLogger.                                  *)
(*                                                                         *)
(* Bodies come in sizes 0 (none), 1 (within maxFormBody), 2 (within        *)
(* maxPhotoBody) and 3 (larger); a chunked one declares no length.         *)
(***************************************************************************)
EXTENDS Config

VARIABLES
    req,         \* the request: Host header, route, cookie, origin and body
    pc,          \* the layer it has reached
    hdr,         \* response headers set so far
    user,        \* whether CurrentUser found an account
    cap,         \* what MaxBytesReader lets through; None without one
    read,        \* size of the body read
    did,         \* work done for the request: database, limiters, handler
    wire,        \* status and headers as they left, or None
    rec,         \* statusRecorder.status
    line         \* the status RequestLogger wrote

reqVars == <<req, pc, hdr, user, cap, read, did, wire, rec, line>>
siteVars == <<vars, reqVars>>

maxFormBody == 1
maxPhotoBody == 2

\* Routes by what sets them apart.  POST routes change state.
AppRoutes == {"home", "static", "draft", "ownphoto", "login", "form", "logout", "upload"}
PageRoutes == {"page", "static", "style", "og", "photo"}
IsPost(r) == r \in {"login", "form", "logout", "upload"}

\* What the split makes of the request's host.
Surface == hostSplit(server, req.header).to

Headers == {"security", "appCSP", "pagesCSP", "varyCookie"}
Caching == {"unset", "private, no-store", "no-store", "no-cache", "public", "immutable"}
Statuses == {200, 206, 301, 302, 303, 304, 307, 400, 403, 404, 405, 409, 412, 413, 416, 422,
             429, 500, 503}
NoHeaders == [set |-> {}, cache |-> "unset"]

Requests ==
    [header : HostForm, route : AppRoutes \cup PageRoutes \cup {"unknown"},
     cookie : {"none", "valid", "stale"}, cross : BOOLEAN, body : 0..3, chunked : BOOLEAN]
Answers == [status : Statuses, set : SUBSET Headers, cache : Caching]

ASSUME NoneAssumption == None \notin Requests \cup Answers

\* Cookies are for the app's host alone, and pages have only GET routes.
RequestsTo(surface) ==
    IF surface = "app"
    THEN [route : AppRoutes \cup {"unknown"}, cookie : {"none", "valid", "stale"},
          cross : BOOLEAN, body : 0..3, chunked : BOOLEAN]
    ELSE [route : IF surface = "page" THEN PageRoutes \cup {"unknown"} ELSE {"unknown"},
          cookie : {"none"}, cross : {FALSE}, body : {0}, chunked : {FALSE}]

WithHeader(r, header) ==
    [header |-> header, route |-> r.route, cookie |-> r.cookie, cross |-> r.cross,
     body |-> r.body, chunked |-> r.chunked]

Layers == {"SecurityHeaders", "hostSplit", "AppCSP", "PagesCSP", "PrivateCache", "cop",
           "BodyLimit", "CurrentUser", "mux", "handler"}

SiteTypeOK ==
    /\ TypeOK
    /\ req # None =>
          Running /\ req \in Requests /\ \E r \in RequestsTo(Surface) : req = WithHeader(r, req.header)
    /\ pc \in Layers \cup {"idle", "wrote", "unwind", "panic", "aborted"}
    /\ hdr \in [set : SUBSET Headers, cache : Caching]
    /\ user \in BOOLEAN /\ cap \in 0..3 \cup {None} /\ read \in 0..3
    /\ did \subseteq {"lookup", "writes", "logins48", "reads", "handler"}
    /\ wire \in Answers \cup {None}
    /\ rec \in Statuses \cup {0} /\ line \in Statuses \cup {0}

SiteInit ==
    /\ Init
    /\ req = None /\ pc = "idle" /\ hdr = NoHeaders /\ user = FALSE /\ cap = None
    /\ read = 0 /\ did = {} /\ wire = None /\ rec = 0 /\ line = 0
-------------------------------------------------------------------------------
(* The chains, outermost first.  RequestID, RequestLogger and Recover do   *)
(* nothing on the way in.                                                  *)

RootChain == <<"SecurityHeaders", "hostSplit">>

\* Defect: the account is looked up before the checks.
AppChainUserFirst == <<"AppCSP", "PrivateCache", "CurrentUser", "cop", "BodyLimit", "mux">>

AppChain == <<"AppCSP", "PrivateCache", "cop", "BodyLimit", "CurrentUser", "mux">>

PagesChain == <<"PagesCSP", "mux">>

After(chain, layer) ==
    LET i == CHOOSE i \in 1..Len(chain) : chain[i] = layer IN chain[i + 1]

NextLayer(layer) ==
    IF layer \in {"SecurityHeaders"} THEN After(RootChain, layer)
    ELSE IF Surface = "app" THEN After(AppChain, layer) ELSE After(PagesChain, layer)

\* Requests are followed in processes no edit came before: no layer reads what
\* the others differ in.
Arrive ==
    /\ pc = "idle" /\ server # None /\ edits = 0
    /\ \E header \in MainHost \cup {HostHeader(PageBaseURL(server, h)) : h \in Handles} :
          \E r \in RequestsTo(hostSplit(server, header).to) :
             req' = WithHeader(r, header)
    /\ pc' = Head(RootChain)
    /\ UNCHANGED <<hdr, user, cap, read, did, wire, rec, line>>
-------------------------------------------------------------------------------
(* Answers.                                                                *)

\* Defect: only a body written without WriteHeader is recorded.
RecordedBodyOnly(status) == IF rec = 0 THEN 200 ELSE rec

\* statusRecorder.WriteHeader: the last status given, not the first.
Recorded(status) == status

\* Headers leave with the first WriteHeader; a second one is ignored.
WriteHeader(status, h) ==
    /\ rec' = Recorded(status)
    /\ wire' = IF wire = None
               THEN [status |-> status, set |-> h.set, cache |-> h.cache] ELSE wire

Answer(status) ==
    /\ WriteHeader(status, hdr) /\ pc' = "unwind"
    /\ UNCHANGED <<req, hdr, user, cap, read, line>>

Pass == pc' = NextLayer(pc) /\ UNCHANGED <<req, read, wire, rec, line>>
-------------------------------------------------------------------------------
(* The layers.                                                             *)

SecurityHeaders ==
    /\ pc = "SecurityHeaders" /\ Pass
    /\ hdr' = [hdr EXCEPT !.set = @ \cup {"security"}]
    /\ UNCHANGED <<user, cap, did>>

Dispatch ==
    /\ pc = "hostSplit"
    /\ \/ /\ Surface \in {"app", "page"}
          /\ pc' = IF Surface = "app" THEN Head(AppChain) ELSE Head(PagesChain)
          /\ UNCHANGED <<req, hdr, user, cap, read, did, wire, rec, line>>
       \/ Surface = "redirect" /\ Answer(302) /\ UNCHANGED did
       \/ Surface = "notfound" /\ Answer(404) /\ UNCHANGED did

csp(layer) ==
    /\ pc = layer /\ Pass
    /\ hdr' = [hdr EXCEPT !.set = @ \cup {IF layer = "AppCSP" THEN "appCSP" ELSE "pagesCSP"}]
    /\ UNCHANGED <<user, cap, did>>

PrivateCache ==
    /\ pc = "PrivateCache" /\ Pass
    /\ hdr' = [set |-> hdr.set \cup {"varyCookie"}, cache |-> "private, no-store"]
    /\ UNCHANGED <<user, cap, did>>

\* net/http: a cross-origin request that is not safe is refused.
CrossOriginProtection ==
    /\ pc = "cop" /\ UNCHANGED did
    /\ \/ req.cross /\ IsPost(req.route) /\ Answer(403)
       \/ ~(req.cross /\ IsPost(req.route)) /\ Pass /\ UNCHANGED <<hdr, user, cap>>

BodyCap == maxFormBody

BodyLimit ==
    /\ pc = "BodyLimit" /\ UNCHANGED did
    /\ LET small == req.route # "upload" /\ req.body > 0
           tooLarge == small /\ ~req.chunked /\ req.body > maxFormBody
       IN  \/ tooLarge /\ Answer(413)
           \/ /\ ~tooLarge /\ Pass
              /\ cap' = IF small THEN BodyCap ELSE cap
              /\ UNCHANGED <<hdr, user>>

\* A stale cookie and an account that is gone both go on without a user.
CurrentUser ==
    /\ pc = "CurrentUser"
    /\ did' = IF req.cookie = "none" THEN did ELSE did \cup {"lookup"}
    /\ \/ Pass /\ user' = (req.cookie = "valid") /\ UNCHANGED <<hdr, cap>>
       \/ req.cookie # "none" /\ Answer(500)

\* The limiters of each route, in the order they are asked.
Limiters ==
    CASE Surface = "app" /\ req.route = "login" -> <<"writes", "logins48">>
      [] Surface = "app" /\ req.route \in {"form", "upload"} -> <<"writes">>
      [] Surface = "page" /\ req.route \in {"og", "photo"} -> <<"reads">>
      [] OTHER -> <<>>

\* Of its own, ServeMux cleans paths and refuses methods and what it has no route for.
mux ==
    /\ pc = "mux"
    /\ \/ /\ req.route = "unknown" /\ UNCHANGED did
          /\ \E status \in {301, 307, 400, 404, 405} : Answer(status)
       \/ \E n \in 1..Len(Limiters) :
             /\ Answer(429)
             /\ did' = did \cup {Limiters[i] : i \in 1..(n - 1)}
       \/ /\ req.route # "unknown" /\ pc' = "handler"
          /\ did' = did \cup {Limiters[i] : i \in 1..Len(Limiters)}
          /\ UNCHANGED <<req, hdr, user, cap, read, wire, rec, line>>
-------------------------------------------------------------------------------
(* The handlers.                                                           *)

\* A handler of its own sets its header before it writes.
HandlerAnswers(status, h) ==
    /\ pc = "handler" /\ WriteHeader(status, h) /\ hdr' = h /\ pc' = "wrote"
    /\ did' = did \cup {"handler"} /\ UNCHANGED <<req, user, cap, line>>

\* The Cache-Control a route sets over what the layers set.
CachingOf(route) ==
    {c \in Caching :
        \/ route = "static" /\ c \in {"public", "immutable"}
        \/ route = "draft" /\ c = "no-store"
        \/ route = "style" /\ c \in {"immutable", "no-cache"}
        \/ route = "photo" /\ c = "immutable"
        \/ route = "og" /\ c = "public"}

OwnHeaders == {[hdr EXCEPT !.cache = c] : c \in CachingOf(req.route)}

\* Stylesheets and fonts are the same for everyone, and say so on purpose.
handleStatic ==
    /\ pc = "handler" /\ req.route = "static" /\ UNCHANGED read
    /\ HandlerAnswers(404, hdr) \/ \E h \in OwnHeaders : HandlerAnswers(200, h)

\* The owner's draft, in place of PrivateCache's "private, no-store".
handleStylePreviewCSS ==
    /\ pc = "handler" /\ req.route = "draft" /\ UNCHANGED read
    /\ HandlerAnswers(400, hdr) \/ \E h \in OwnHeaders : HandlerAnswers(200, h)

handleStyleCSS ==
    /\ pc = "handler" /\ req.route = "style" /\ UNCHANGED read
    /\ \/ \E status \in {404, 500} : HandlerAnswers(status, hdr)
       \/ \E h \in OwnHeaders : HandlerAnswers(200, h)

\* What is rendered for whoever asks, and /random.
handleHome ==
    /\ pc = "handler" /\ req.route = "home" /\ UNCHANGED read
    /\ \E status \in {200, 302, 303, 404, 500} : HandlerAnswers(status, hdr)

handlePage ==
    /\ pc = "handler" /\ req.route = "page" /\ UNCHANGED read
    /\ \E status \in {200, 404, 500} : HandlerAnswers(status, hdr)

\* Conditional requests and ranges; an error of its own drops Cache-Control.
ServeContent(h) ==
    \/ \E status \in {200, 206, 304, 412} : HandlerAnswers(status, h)
    \/ \E status \in {416, 500} : HandlerAnswers(status, [h EXCEPT !.cache = "unset"])

\* Defect: the file is marked as the same for everyone where it is served, not where
\* the page's route is.
servePhotoFileImmutable(h) == ServeContent([h EXCEPT !.cache = "immutable"])

\* The file may be missing, or not open.
servePhotoFile(h) == HandlerAnswers(404, h) \/ ServeContent(h)

handleAppPhoto ==
    /\ pc = "handler" /\ req.route = "ownphoto" /\ UNCHANGED read
    /\ HandlerAnswers(404, hdr) \/ (user /\ servePhotoFile(hdr))

\* Cache-Control is set once the row is found.
handlePagePhoto ==
    /\ pc = "handler" /\ req.route = "photo" /\ UNCHANGED read
    /\ \/ \E status \in {404, 500} : HandlerAnswers(status, hdr)
       \/ \E h \in OwnHeaders : servePhotoFile(h)

handleOGImage ==
    /\ pc = "handler" /\ req.route = "og" /\ UNCHANGED read
    /\ \/ \E status \in {404, 500} : HandlerAnswers(status, hdr)
       \/ \E h \in OwnHeaders, status \in {200, 304, 500} : HandlerAnswers(status, h)

\* ParseForm reads the whole body, or fails at the cap.
Fits == cap # None => req.body <= cap

ReadBody == read' = IF Fits THEN req.body ELSE cap

\* A login link that cannot be parsed is shown as an invalid one.
handleForm ==
    /\ pc = "handler" /\ req.route \in {"login", "form", "logout"}
    /\ ReadBody
    /\ \/ ~Fits /\ HandlerAnswers(IF req.route = "logout" THEN 200 ELSE 400, hdr)
       \/ Fits /\ \E status \in {200, 303, 400, 403, 409, 422, 500} : HandlerAnswers(status, hdr)

\* Logout, hide, show and photo removal have no form to parse, and the other handlers
\* turn some requests away before they parse theirs.
handleButton ==
    /\ pc = "handler" /\ req.route \in {"form", "logout"} /\ UNCHANGED read
    /\ \E status \in {303, 403, 404, 500} : HandlerAnswers(status, hdr)

\* handlePhotoUpload has its own cap; without an account it reads nothing.
handlePhotoUpload ==
    /\ pc = "handler" /\ req.route = "upload"
    /\ \/ \E status \in {303, 403, 422} : HandlerAnswers(status, hdr) /\ UNCHANGED read
       \/ user /\ ~req.chunked /\ req.body > maxPhotoBody /\ HandlerAnswers(413, hdr) /\ UNCHANGED read
       \/ /\ user /\ (req.chunked \/ req.body <= maxPhotoBody)
          /\ read' = IF req.body <= maxPhotoBody THEN req.body ELSE maxPhotoBody
          /\ \E status \in IF req.body > maxPhotoBody THEN {413} ELSE {303, 400, 422, 500, 503} :
                HandlerAnswers(status, hdr)

Handler ==
    \/ handleStatic \/ handleStylePreviewCSS \/ handleStyleCSS \/ handleHome \/ handlePage
    \/ handleAppPhoto \/ handlePagePhoto \/ handleOGImage
    \/ handleForm \/ handleButton \/ handlePhotoUpload
-------------------------------------------------------------------------------
(* Panics, and the way back.                                               *)

Return ==
    /\ pc = "wrote" /\ pc' = "unwind"
    /\ UNCHANGED <<req, hdr, user, cap, read, did, wire, rec, line>>

\* Before or after the handler wrote, and perhaps after it set its headers; abort is
\* http.ErrAbortHandler.
Panic(abort) ==
    /\ pc \in {"handler", "wrote"}
    /\ hdr' = hdr \/ (pc = "handler" /\ hdr' \in OwnHeaders)
    /\ pc' = IF abort THEN "aborted" ELSE "panic"
    /\ UNCHANGED <<req, user, cap, read, did, wire, rec, line>>

\* Recover answers 500 with what headers there are.
Recover ==
    /\ pc = "panic" /\ WriteHeader(500, hdr) /\ pc' = "unwind"
    /\ UNCHANGED <<req, hdr, user, cap, read, did, line>>

RequestLogger ==
    /\ pc = "unwind" /\ line = 0
    /\ line' = IF rec = 0 THEN 200 ELSE rec
    /\ UNCHANGED <<req, pc, hdr, user, cap, read, did, wire, rec>>

\* The connection is free for the next request.
Done ==
    /\ line # 0 \/ pc = "aborted"
    /\ req' = None /\ pc' = "idle" /\ hdr' = NoHeaders /\ user' = FALSE /\ cap' = None
    /\ read' = 0 /\ did' = {} /\ wire' = None /\ rec' = 0 /\ line' = 0

Layer ==
    \/ SecurityHeaders \/ Dispatch \/ csp("AppCSP") \/ csp("PagesCSP")
    \/ PrivateCache \/ CrossOriginProtection \/ BodyLimit \/ CurrentUser \/ mux

Request ==
    \/ Arrive \/ Layer \/ Handler \/ Return
    \/ Panic(TRUE) \/ Panic(FALSE) \/ Recover \/ RequestLogger \/ Done

\* An edit is for the next start, and Server models a stop during a request.
SiteNext ==
    \/ Request /\ UNCHANGED vars
    \/ req = None /\ Next /\ UNCHANGED reqVars

SiteSpec == SiteInit /\ [][SiteNext]_siteVars
-------------------------------------------------------------------------------
IsFor(host) == canonicalHost(req.header) = canonicalHost(host)

\* "Security headers that keep the two surfaces apart": whatever leaves, errors of
\* every layer and recovered panics included, carries the shared headers, the app's
\* policy if and only if it was asked of APP_HOST, and otherwise the pages' policy if
\* it was asked of the host of a page.
Hardened ==
    wire # None =>
        /\ "security" \in wire.set
        /\ "appCSP" \in wire.set <=> IsFor(server.AppHost)
        /\ "pagesCSP" \in wire.set <=>
              ~IsFor(server.AppHost) /\ \E h \in Handles : IsFor(PageHostFor(server, h))

\* A cross-origin write, or one whose declared length is too large, is refused
\* before the database is asked or a limiter's token is spent.
GatesFirst ==
    req # None /\ wire # None /\ Surface = "app" =>
        \/ did = {}
        \/ /\ ~(req.cross /\ IsPost(req.route))
           /\ req.route # "upload" /\ ~req.chunked => req.body <= maxFormBody

\* Every other route keeps the 4 KiB limit: no more of a body is ever read,
\* whatever length was declared.
BodyBounded ==
    req # None => read <= (IF req.route = "upload" THEN maxPhotoBody ELSE maxFormBody)

\* What a shared cache may keep: by Cache-Control, or without one by the status.
Storable(a) ==
    \/ a.cache \in {"public", "immutable", "no-cache"}
    \/ a.cache = "unset" /\ a.status \in {200, 206, 301, 404, 405}

\* PrivateCache: "every app-surface response" varies by the cookie and is "not cacheable
\* by a shared cache", though the draft's stylesheet sets a Cache-Control of its own and
\* ServeContent drops it from its errors; only what is the same for everyone may be kept.
PersonalNotShared ==
    wire # None /\ Surface = "app" /\ req.route # "static" =>
        ~Storable(wire) /\ "varyCookie" \in wire.set

\* The log tells the status that left; if the handler panicked after it began to
\* answer, it tells 500.  An error is never logged as a success.
LogHonest == line # 0 => wire # None /\ line \in {wire.status, 500}

\* Validate and Load: development and production never share a process or an
\* environment, whatever the operator edits between two starts.
ModesApart == SiteTypeOK /\ NothingForDevelopment /\ NeverBothModes

\* hostSplit undoes BaseURL and PageBaseURL: links and pages lead where they say, for
\* every pair of hosts Validate accepts.
HostsLead == LinksLand /\ PageReachable /\ PageAtItsHost

\* Security headers and caching are right together on every way out.
HeadersRight == Hardened /\ PersonalNotShared

\* The order of the layers and the two limits: what is refused has cost nothing, and
\* nothing larger than its route allows is read.
Gated == GatesFirst /\ BodyBounded
===============================================================================
