CONSTANTS
    None = None
    Host <- ManyHosts
    MainHost <- MainHosts
    Label = {"org", "site", "ana", "www", "app", "pages", "localhost"}
    Handles = {"ana", "site"}
    SMTPVars = {"SMTP_HOST", "MAIL_FROM"}
    Editable = {"ENV", "ADDR", "ADMIN_ADDR", "DATABASE_URL", "SMTP", "MAIL_SENDER", "PHOTOS_DIR", "OPERATOR_NAME", "CONTACT_EMAIL", "SHUTDOWN_TIMEOUT", "APP_HOST", "PAGES_HOST"}
    MaxEdits = 3
SPECIFICATION SiteSpec
CHECK_DEADLOCK FALSE
INVARIANTS ModesApart HostsLead HeadersRight Gated LogHonest
