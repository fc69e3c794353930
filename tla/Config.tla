-------------------------------- MODULE Config --------------------------------
(***************************************************************************)
(* Configuration and what hangs on it: config.Load and Validate, the mail  *)
(* sender run picks, the URLs the program hands out and the split of       *)
(* requests by host.  An operator edits variables and restarts; a process  *)
(* keeps the configuration it was started with.                            *)
(*                                                                         *)
(* A value is the class the code tells apart ("" is an unset variable).  A *)
(* host is its labels, a port (None without one) and whether it is spelled *)
(* with capitals; names with the same labels differ in that alone.         *)
(***************************************************************************)
EXTENDS Naturals, Sequences, SequencesExt

CONSTANTS
    Host,        \* values of APP_HOST and PAGES_HOST, and of the Host header
    MainHost,    \* the hosts of the machines that are edited
    Label,       \* labels of host names
    Handles,     \* those ValidHandle accepts
    SMTPVars,    \* SMTP_HOST, SMTP_PORT, ...: needed in production
    Editable,    \* the variables the operator changes
    MaxEdits,    \* bound: changes
    None         \* no value

HostForm == [labels : Seq(Label), caps : BOOLEAN, port : Nat \cup {None}]

ASSUME ConfigAssumption == MaxEdits \in Nat /\ MainHost \subseteq Host
ASSUME HostAssumption ==
    /\ Host \subseteq HostForm /\ None \notin Nat \cup Handles
    /\ Handles \cup {"app", "pages", "localhost"} \subseteq Label

VARIABLES
    env,         \* the environment the next start will read
    server,      \* None, or the configuration the process runs with
    edits        \* changes so far

vars == <<env, server, edits>>

Values ==
    [ENV : {"", "development", "production", "staging"},
     ADDR : {"", "loopback", "public"},
     ADMIN_ADDR : {"", "loopback", "public"},
     DATABASE_URL : {"", "tls", "plain", "mysql", "garbage"},
     SMTP : SUBSET SMTPVars,
     MAIL_SENDER : {"", "log", "smtp"},
     PHOTOS_DIR : {"", "relative", "absolute"},
     OPERATOR_NAME : {"", "blank", "someone"},
     CONTACT_EMAIL : {"", "blank", "typo", "address"},
     SHUTDOWN_TIMEOUT : {"", "soon", "0s", "10s"},
     APP_HOST : Host \cup {None},
     PAGES_HOST : Host \cup {None}]

DefaultAppHost == [labels |-> <<"app", "localhost">>, caps |-> FALSE, port |-> 8080]
DefaultPagesHost == [labels |-> <<"pages", "localhost">>, caps |-> FALSE, port |-> 8080]

Configs ==
    [Env : {"development", "production"}, Addr : {"loopback"}, AdminAddr : {"loopback"},
     DatabaseURL : {"tls", "plain"}, SMTP : SUBSET SMTPVars, MailSender : {"", "log"},
     PhotosDir : {"relative", "absolute"}, OperatorName : {"someone", "placeholder"},
     ContactEmail : {"typo", "address", "placeholder"}, ShutdownTimeout : {"10s", "15s"},
     AppHost : Host \cup {DefaultAppHost}, PagesHost : Host \cup {DefaultPagesHost}]

\* A fresh clone, a machine in production, and one for trying things out.
Unset ==
    [ENV |-> "", ADDR |-> "", ADMIN_ADDR |-> "", DATABASE_URL |-> "", SMTP |-> {},
     MAIL_SENDER |-> "", PHOTOS_DIR |-> "", OPERATOR_NAME |-> "", CONTACT_EMAIL |-> "",
     SHUTDOWN_TIMEOUT |-> "", APP_HOST |-> None, PAGES_HOST |-> None]

Production(app, pages) ==
    [ENV |-> "production", ADDR |-> "loopback", ADMIN_ADDR |-> "loopback",
     DATABASE_URL |-> "tls", SMTP |-> SMTPVars, MAIL_SENDER |-> "", PHOTOS_DIR |-> "absolute",
     OPERATOR_NAME |-> "someone", CONTACT_EMAIL |-> "address", SHUTDOWN_TIMEOUT |-> "",
     APP_HOST |-> app, PAGES_HOST |-> pages]

Development(app, pages) ==
    [Production(app, pages) EXCEPT !.ENV = "development", !.MAIL_SENDER = "log"]

TypeOK ==
    /\ env \in Values
    /\ server = None \/ server \in Configs
    /\ edits \in 0..MaxEdits

\* Hosts outside MainHost are only started: their machines have no edits left.
Init ==
    /\ env \in {Unset} \cup {Production(a, p) : a, p \in Host}
                        \cup {Development(a, p) : a, p \in Host}
    /\ server = None
    /\ edits = IF {env.APP_HOST, env.PAGES_HOST} \subseteq MainHost \cup {None}
               THEN 0 ELSE MaxEdits
-------------------------------------------------------------------------------
(* Load                                                                    *)

\* cmp.Or
Or(value, default) == IF value = "" THEN default ELSE value
OrHost(value, default) == IF value = None THEN default ELSE value

\* TrimSpace
Trimmed(value) == IF value = "blank" THEN "" ELSE value

photosDir(e) ==
    Or(e.PHOTOS_DIR, IF e.ENV = "production" THEN "" ELSE "relative")

legalValue(e, value) ==
    Or(Trimmed(value), IF e.ENV = "production" THEN "" ELSE "placeholder")

\* durationEnv: "soon" does not parse.
DurationParses(e) == e.SHUTDOWN_TIMEOUT # "soon"

Loaded(e) ==
    [Env |-> Or(e.ENV, "development"),
     Addr |-> Or(e.ADDR, "loopback"),
     AdminAddr |-> Or(e.ADMIN_ADDR, "loopback"),
     DatabaseURL |-> Or(e.DATABASE_URL, "plain"),
     SMTP |-> e.SMTP,
     MailSender |-> e.MAIL_SENDER,
     PhotosDir |-> photosDir(e),
     OperatorName |-> legalValue(e, e.OPERATOR_NAME),
     ContactEmail |-> legalValue(e, e.CONTACT_EMAIL),
     ShutdownTimeout |-> Or(e.SHUTDOWN_TIMEOUT, "15s"),
     AppHost |-> OrHost(e.APP_HOST, DefaultAppHost),
     PagesHost |-> OrHost(e.PAGES_HOST, DefaultPagesHost)]

IsProduction(c) == c.Env = "production"
-------------------------------------------------------------------------------
(* Validate                                                                *)

hostOnly(h) == [h EXCEPT !.port = None]

\* strings.HasSuffix(h, "." + parent); the spelling counts.
Under(h, parent) ==
    /\ h.caps = parent.caps /\ h.port = parent.port
    /\ IsStrictSuffix(parent.labels, h.labels)

\* Defect: only the same host is refused.
isSubdomainOfNever(h, parent) == FALSE

isSubdomainOf(h, parent) == Under(h, parent)

HostsApart(c) ==
    LET app == hostOnly(c.AppHost)
        pages == hostOnly(c.PagesHost)
    IN  app # pages /\ ~isSubdomainOf(app, pages) /\ ~isSubdomainOf(pages, app)

validateDatabaseURL(c) ==
    c.DatabaseURL \in {"tls", "plain"} /\ (IsProduction(c) => c.DatabaseURL # "plain")

plausibleContactEmail(value) == value \in {"address", "placeholder"}

ProductionRules(c) ==
    /\ c.SMTP = SMTPVars
    /\ c.PhotosDir = "absolute"
    /\ c.OperatorName # ""
    /\ c.ContactEmail # "" /\ plausibleContactEmail(c.ContactEmail)
    /\ c.MailSender # "log"
    /\ c.Addr = "loopback"

\* Defect: logging mail need not be asked for.
OtherRulesLenient(c) == c.Addr = "loopback"

OtherRules(c) == c.MailSender # "" /\ c.Addr = "loopback"

Validate(c) ==
    /\ c.Env \in {"development", "production"}
    /\ validateDatabaseURL(c)
    /\ c.ShutdownTimeout # "0s"
    /\ c.AdminAddr = "loopback"
    /\ c.MailSender \in {"", "log"}
    /\ IF IsProduction(c) THEN ProductionRules(c) ELSE OtherRules(c)
    /\ HostsApart(c)

Accepts(e) == DurationParses(e) /\ Validate(Loaded(e))
-------------------------------------------------------------------------------
(* URLs and the split by host                                              *)

PageHostFor(c, handle) == [c.PagesHost EXCEPT !.labels = <<handle>> \o @]

URL(c, host) == [scheme |-> IF IsProduction(c) THEN "https" ELSE "http", host |-> host]

BaseURL(c) == URL(c, c.AppHost)

PageBaseURL(c, handle) == URL(c, PageHostFor(c, handle))

\* A browser leaves out the port its scheme implies, and writes small letters.
HostHeader(url) ==
    [url.host EXCEPT !.caps = FALSE,
        !.port = IF <<url.scheme, @>> \in {<<"https", 443>>, <<"http", 80>>} THEN None ELSE @]

canonicalHost(h) ==
    [h EXCEPT !.caps = FALSE, !.port = IF @ \in {80, 443} THEN None ELSE @]

handleFromHost(h, pagesHost) ==
    IF /\ Under(h, pagesHost)
       /\ Len(h.labels) = Len(pagesHost.labels) + 1
       /\ Head(h.labels) \in Handles
    THEN Head(h.labels) ELSE None

hostSplit(c, header) ==
    LET host == canonicalHost(header)
        appHost == canonicalHost(c.AppHost)
        pagesHost == canonicalHost(c.PagesHost)
        handle == handleFromHost(host, pagesHost)
    IN  CASE host = appHost -> [to |-> "app"]
          [] host # appHost /\ host = pagesHost -> [to |-> "redirect"]
          [] OTHER -> IF handle = None THEN [to |-> "notfound"]
                                       ELSE [to |-> "page", handle |-> handle]
-------------------------------------------------------------------------------
(* The operator and the process.                                           *)

Edit(var, value) ==
    /\ edits < MaxEdits /\ edits' = edits + 1
    /\ env[var] # value
    /\ env' = [env EXCEPT ![var] = value]
    /\ UNCHANGED server

\* run: load, validate, pick the mail sender, open the database, serve.
Start ==
    /\ server = None /\ Accepts(env)
    /\ server' = Loaded(env)
    /\ UNCHANGED <<env, edits>>

\* The process exits, or the start found no database.
Stop == server # None /\ server' = None /\ UNCHANGED <<env, edits>>

newMailSender(c) == IF IsProduction(c) THEN "smtp" ELSE "log"

Edits(var, S) == var \in Editable /\ \E value \in S : Edit(var, value)

Next ==
    \/ Start \/ Stop
    \/ Edits("ENV", {"", "development", "production", "staging"})
    \/ Edits("ADDR", {"", "loopback", "public"})
    \/ Edits("ADMIN_ADDR", {"", "loopback", "public"})
    \/ Edits("DATABASE_URL", {"", "tls", "plain", "mysql", "garbage"})
    \/ Edits("SMTP", SUBSET SMTPVars)
    \/ Edits("MAIL_SENDER", {"", "log", "smtp"})
    \/ Edits("PHOTOS_DIR", {"", "relative", "absolute"})
    \/ Edits("OPERATOR_NAME", {"", "blank", "someone"})
    \/ Edits("CONTACT_EMAIL", {"", "blank", "typo", "address"})
    \/ Edits("SHUTDOWN_TIMEOUT", {"", "soon", "0s", "10s"})
    \/ Edits("APP_HOST", MainHost \cup {None})
    \/ Edits("PAGES_HOST", MainHost \cup {None})

Spec == Init /\ [][Next]_vars
-------------------------------------------------------------------------------
Running == server # None

\* "Production never gets them" and "production never logs mail": a process in
\* production runs on nothing that is there for development, although Load fills
\* gaps first and Validate sees only the result.
NothingForDevelopment ==
    Running /\ IsProduction(server) =>
        /\ newMailSender(server) = "smtp" /\ server.SMTP = SMTPVars
        /\ "placeholder" \notin {server.OperatorName, server.ContactEmail}
        /\ server.PhotosDir # "relative" /\ server.DatabaseURL # "plain"

\* "A server that loses ENV=production now refuses to start": no environment is
\* accepted both in production and out of it, whatever else changed.
NeverBothModes ==
    Accepts([env EXCEPT !.ENV = "production"]) =>
        \A e \in {"", "development", "staging"} : ~Accepts([env EXCEPT !.ENV = e])

\* The origin of a mailed link, which is also where the bare pages domain sends
\* visitors, is served by the app, for every accepted configuration.
LinksLand == Running => hostSplit(server, HostHeader(BaseURL(server))) = [to |-> "app"]

\* PageBaseURL leads to the page it names, and no page hides behind the app, when
\* the two hosts are spelled alike.
PageReachable ==
    Running /\ server.AppHost.caps = server.PagesHost.caps =>
        \A h \in Handles :
            hostSplit(server, HostHeader(PageBaseURL(server, h))) = [to |-> "page", handle |-> h]

\* A host that is served as a page is the host of that very page: PageHostFor,
\* but for the spelling and a default port.
PageAtItsHost ==
    Running => \A h \in Handles, host \in Host :
        hostSplit(server, host) = [to |-> "page", handle |-> h]
            => canonicalHost(host) = canonicalHost(PageHostFor(server, h))
===============================================================================
