# retratar, in TLA+

retratar is one Go binary behind nginx: people sign in by mail, claim a handle
and get a page of their own at `handle.retrat.ar`. Its state is a PostgreSQL
database, a directory of photos, and a few things in memory (rate limiter
buckets, one photo processing slot). This directory models the parts whose
correctness depends on what happens at the same time, in which order, and what
fails in between, and the pure parts with boundaries that are easy to get wrong;
TLC checks the models on small instances and TLAPS proves the central invariants
for every instance.

## The system

| Component | State | Operations | What makes it hard |
| --- | --- | --- | --- |
| accounts (`internal/user`) | `users`, `login_tokens`, `deleted_handles` | RequestLogin, CompleteLogin, ClaimHandle, DeleteAccount, purges | READ COMMITTED transactions of several statements, row, key and advisory locks taken in different orders, `now()` fixed at the start of a transaction, two clocks |
| sessions (`internal/session`) | `sessions` | Issue, Lookup, Revoke, PurgeExpired | a session is issued after the link was spent in another transaction; cascade from `users` |
| sign-in flow (`internal/web/login.go`, `nonce.go`, `cookie.go`, `auth.go`, `account.go`) | the browser's cookies | request, confirm, complete, log out, delete | several tabs, answers out of order, each database call may fail |
| mail (`internal/mail`) | one SMTP connection per request | dial, STARTTLS, authenticate, deliver | a relay that is slow, silent or unwilling at any exchange; one deadline for all of it |
| photos (`internal/web/photo.go`, `internal/photostore`) | `users.photo_*`, files, the slot | upload, remove, delete | file system and database have no common transaction; crashes; a limit per day |
| photo processing (`internal/photo`) | none | limits, EXIF walk, scale, turn | lengths and offsets from the file itself; extreme proportions; eight orientations |
| rate limiter (`internal/web/ratelimit.go`) | a map of buckets | allow, reap | clock read outside the mutex, eviction by sampling, a ceiling |
| mood (`internal/mood`, `internal/web/mood.go`) | `moods`, `mood_history` | SetMood, CurrentMood | two writes that belong together; locks in the opposite order of DeleteAccount |
| page styles (`internal/style`, `internal/user/style.go`, `internal/web/style.go`) | `page_styles`; a draft that lives only in a form | preview, edit, reset, publish, serve the stylesheet | defaults that follow the mood, forms rendered under one mood and read under another, a stylesheet browsers keep for a year |
| guestbook (`internal/guestbook`, `internal/web/guestbook.go`) | `guestbook_entries` | sign, hide, show, two lists | limits of the two lists, the cascades of an entry's two accounts |
| pages, dashboard, cards (`internal/web/page.go`, `home.go`, `og.go`, `internal/ogcard`) | what caches keep | read and render | name and mood are read one after the other; a 304 or a cached 404 outlives its reason |
| configuration (`internal/config`) | the environment, the running configuration | Load, Validate, BaseURL, PageBaseURL | defaults are filled in before anything is validated; hosts with ports and capitals |
| routing and middleware (`internal/web/router.go`, `middleware.go`, `handle.go`) | one request on its way | host split, chains, headers, limits | the order of the layers on every way out, panics included |
| server lifecycle (`cmd/server`) | goroutines, the pool | run, serve, purge loop | shutdown against failing listeners, long requests and a purge in flight |
| backup (`deploy/backup.sh`) | local and remote files | dump, archive, verify, publish, copy, prune, ping | two files moved one after the other, overlapping runs, ages at a boundary |

The web handlers call the services, the services run SQL, and everything else is
shared through the database: an account deletion touches links, sessions, photo,
handle reservation and guestbook at once, while any of the other operations may
be half way. The purge loop is one more client of the same tables. The middleware
stands in front of every handler, and the rate limiter, a part of it, shares
nothing with the rest. `PROJECT.json` lists every component and every hazard with
the property that watches it.

## Modules

`Accounts` is the core. A worker runs one operation of `user.Service`; each SQL
statement is an action. A statement reads what is committed, waits (is not
enabled) while another worker holds a lock it needs, and records what it will
write in `rows`/`snap`; the commit action publishes it and `End` releases the
locks. `job.now` is `now()` of the transaction, `job.at` the time the handler
passes in. `Abort` is the deferred rollback, possible at every statement, and the
end of a transaction the deadlock detector chose. Tokens have a life: new, open,
retired (a newer link), spent (a login), purged or deleted; the SQL only sees
whether `consumed_at` is null, the model keeps apart what the properties need.
Where a statement's snapshot and the rows it gets after waiting can differ
(`ClaimHandle`, `DeleteLoginTokensForEmail`, the purge), they are two actions.
`Ready` says that the locks a worker asks for are free, `WaitsFor` whose they are.

`AccountBook` says what `internal/user` promises of its operations: each takes effect at
once, on the tables as it finds them at that moment, or not at all. A worker is in one
call at a time, a call may end without effect, and only the deletion has two moments: it
looks for the links of the account and then takes them and the account away, so a link
minted in between survives. `Accounts` implements it: `CallOf` maps a worker's statement
and arguments to its call, a commit to the effect, and every other statement but
`ReserveHandle`, where the deletion looks, to nothing. That is `Serializable`.
`AccountBook` leaves out who may refuse what, and the quarantine of handles.

`Photos` has the row, the directory (`files` is what a reader sees, `durable`
what a power cut leaves), the slot as a channel of capacity one, and a worker
per request. `SetPhoto`, `RemovePhoto` and `DeleteAccount` are single steps:
each holds the row from its first read. `Faults` selects what may go wrong: a
failing system call or statement (`io`), a crash, a power cut, or a committed
statement whose answer never arrives (`lostreply`).

`PhotoProcess` is what happens inside the slot: the header's limits, the walk
through the segments of a JPEG to its orientation tag, the scaled size and the
turn. What the bytes of the upload say is chosen where the code reads them, so
that every file is among the behaviours; where the code slices is kept in
`touched`. `KeepsAspect` compares the size with the exact proportion, and `Upright`
compares `Source` (`orient8`) with a table of what the tag means (`VisualSides`).

`RateLimiter` is `allow` and `reap` under the mutex, after a reading of the clock
that may be up to `MaxDelay` old. Levels are counted in time: a token is `Refill`
units. `IdealLimiter` says what a limiter promises: an allowance per client that
is never forgotten, and nobody turned away for lack of room unless their
allowance is full. `RateLimiter` keeps the ideal allowance `fullAt` beside its
buckets, and `Indistinguishable` says that it implements `IdealLimiter`.

`SignIn` has one browser with one cookie jar and several tabs. A request takes
its cookies when it is sent, passes `CurrentUser` (two reads), then its handler,
one database call per action; the `Set-Cookie` headers change the jar when the
answer arrives. The transactions of `Accounts` are single steps here, which is
what `Accounts` establishes of them (`Serializable`): a link is spent once, with its
account.
Account ids are never reused, as in the code, so a session for a deleted and
recreated account is told from one for the old account.

`Mail` is the end of a login request: `RequestLogin` commits a link, then
`SMTPSender.Send` goes through the exchanges of SMTP under the connection's
deadline, with a relay that may refuse or be silent at each. The relay has the
mail when it accepts the data, which the handler may never learn. Dialling comes
before the deadline is set on the connection, and is bounded by the kernel alone
(`DialLimit`).

`Profile` is one account's mood and style. Each tab of the owner's browser shows a
dashboard or a preview and has at most one request under way; an action is one
statement of `handleMoodSubmit`, `handleStyleSubmit`, `renderAppHomeMessages` or
`DeleteAccount`. What a form sends is computed from what the tab shows
(`previewFields`), and read back by `parseDraft` under the mood of the moment; `left`
remembers the slots the owner saw as default and did not touch. A colour is named
by the mood whose tint it is, so that "equal to the default" is decided the way
`style.Default` decides it; the fonts and the slots with one default are `Plain`.
`clock` hands out the readings of `now()` and `s.now()`, all different: two
publications in the same microsecond, or a clock set back, are left out. A visitor
loads the page, which links the stylesheet by its version, and keeps every
stylesheet it fetches for good. `held` has the row locks of each transaction: key-share
locks of foreign keys are what make `SetMood` and `DeleteAccount` wait for each other. A
statement that finds a lock it needs in other hands (`Barring`) is not `Ready`, and a
transaction gives its locks back when it commits or fails.

`PublicCache` is the preview card and the photo as a cache outside keeps them. The
handler of the card reads the account, then the mood, and either confirms the
cached tag or renders; the owner changes name, mood and photo in between, an
upload in the order of `handlePhotoUpload` (file, row, removal of the old file).

`Guestbook` has accounts, entries in the order of `created_at`, and visitors with
one request each. A request's account is the one `CurrentUser` read earlier. A
deletion is a transaction whose two cascades (as the page's owner, as the author)
lock and delete the entries one by one; a rollback gives them back. `Claim` is the
part of `ClaimHandle` that pages depend on.

`Config` is an environment that an operator edits, the process started from it, and the
functions on hosts (sequences of labels, a port, a spelling): URLs, the header a browser
makes of them, and the split by host. A value is the class the rules tell apart.
`Pipeline` extends it to the whole site: requests are answered by the process `Config`
started, a request's `Host` goes through that process's `hostSplit`, and then through
the chain of its surface, one layer per action (`Layer`), the handler (by what its
answers and reads can be), and back out through `Recover` and `RequestLogger`. `wire` is
what left, with the headers set at that moment; `did` is the work spent on the request.
Handlers may replace the `Cache-Control` the layers set (`CachingOf`), as the stylesheets,
the photo of a page and the stylesheet of a draft do, and `http.ServeContent` drops it from
the errors it answers itself. `Storable` says which answers a shared cache may then keep.

`Server` is `run` and `serve`: listeners, `errCh`, the signal, one `Shutdown` per
listener under a common budget, and the pool, which is closed when `run` returns
and waits for the connections in use. Requests may use the database any number of
times and may never end. `purgeLoop` runs beside it; what each delete removes is in
`Accounts` and `SignIn`.

`Backup` is `backup.sh`: each step of a run is an action, `Die` is a step that failed,
`Killed` a process that ends without its trap, which leaves temporary files behind,
`CopyFile` copies one file at a time and `PruneFails` stops half way. Files have the
time they were made and the run that made them; their names have only the date.

The `MC` modules add symmetry sets and small constants. `MCAccounts` also has a
variable `mix`: a behaviour runs one of three mixes of operations, each with bounds of
its own, so that one run asks about links over several windows, handles past a
reservation, and three clients who request, log in and delete at the same time.
`MCProfile` has a `mix` too: two tabs that may do anything, two that publish under the eyes
of a visitor, or three that take locks. `MCGuestbook` chooses its visitors: all of them, or one with
enough entries for both limits.
`MCPipeline` gives `Host` 48 spellings for the rules on hosts and edits machines with
three of them. Definitions marked *Defect* are not part of the models: each is the
definition below it with a plausible mistake, kept to show that a property notices it.

## Runs

| Run | Instance | Checks |
| --- | --- | --- |
| `accounts` | links: 2 workers, 1 address, 3 links, budget 2 per window of 2, clock to 5; handles: 2 workers, 2 accounts, 1 handle, clocks 1 apart; closing: 3 workers, 2 links, clock still | `LinkRules`, `InboxBudget`, `WayIn`; `HandleRules`; `NobodyStuck`, `NoResurrection`, `Serializable` |
| `signin` | 2 tabs, 2 successive accounts, 2 links, 1 nonce, failing database and mail, lost answers | `NeverStranded`, `SessionsOwned` |
| `mail` | 2 handlers, 4 links, budget 2 per window of 4, sends of 2, dialling of 3, requests until 4, clock to 7, a remote and two local relays | `MailHonest`, `SendTimed`, `RequestEnds` |
| `photos` | 2 workers, 1 account, 3 keys, days of 2 units, all faults | `RowsAndFiles`, `OneUploadPerDay`, `SlotHeldWhileProcessing` |
| `photo` | `MaxEdge` 4, sides 0 to 14, uploads of 0 to 48 bytes, 3 colour models | `InBounds`, `Upright`, `Scaled` |
| `publiccache` | 4 changes, 1 name, 2 moods, 2 keys | `CacheSound`, `NotModifiedHonest`, `CardCatchesUp` |
| `ratelimiter` | 2 workers, 3 clients, 2 buckets, sample 1, burst 2, refill 2, delay 1 | `Indistinguishable`, `MapBounded` |
| `profile` | forms: 2 tabs, 2 writes, everything but a visitor; visits: 2 tabs, 2 writes, no previews, a visitor; locks: 3 tabs, 3 writes, publications of one style; 1 mood besides "none", a tinted and a plain slot, failing database | `MoodRecorded`, `StylesheetCurrent`, `FormsFaithful`, `SomeoneProceeds` |
| `guestbook` | 2 accounts, 2 handles, 2 visitors with 2 entries or 1 visitor with 3, a page of 1, a list of 2 | `BookIntact`, `EntriesGuarded`, `DeletionEnds` |
| `site` | every pair of 48 hosts at a start, 12 variables with 3 edits, every route, origin, cookie and body | `ModesApart`, `HostsLead`, `HeadersRight`, `Gated`, `LogHonest` |
| `server` | 2 listeners, 1 request, every failure | `DrainHonest`, `Stops`, `EventuallyPurged` |
| `backup` | 2 processes, 3 runs, days of 3 ticks, 3 days kept, clock to 11 | `BackupsKept`, `PingHonest` |

Some properties are conjunctions of parts named for what they say, next to them in the
module: `LinkRules` is `AtMostOneLiveLink` and `SingleUse`, `HandleRules` is
`HandleUnique` and `HandleQuarantine`, `NobodyStuck` is `ReadyGoesOn` and `Unstuck`; `RowsAndFiles` is
`RowNamesFile` and `NoFileLeaked`; `FormsFaithful` is `PreviewFaithful` and
`UntouchedStaysDefault`; `DrainHonest` is `CutOnlyAfterBudget` and `CleanExit`;
`BookIntact` is `NoOrphanEntry`, `AuthorNamed` and `ShownIsListed`; `BackupsKept` is
`NeverWithoutBackup` and `DailyRetention`; `MailHonest` is `AnswerHonest` and
`LinkProtected`, `SendTimed` is `SendBounded` and `InboxRate`; `ModesApart` is
`NothingForDevelopment` and `NeverBothModes`, `HostsLead` is `LinksLand`,
`PageReachable` and `PageAtItsHost`, `HeadersRight` is `Hardened` and
`PersonalNotShared`, `Gated` is `GatesFirst` and `BodyBounded`; `Scaled` is
`KeepsAspect` and `MemoryBounded`; `SessionsOwned` and `CacheSound` are
`NoGhostSession` and `OrderSparesCache`. Where the type invariant is not proved, it is a
part of one of them.

The bounds are the smallest at which each case happens. Three links exceed a budget of
two in overlapping windows, with one purged; two accounts let one claim what the other
gives up while that deletion may still roll back; three workers let a request, a login
and a deletion of one address meet. Three photo keys are the old photo and two uploads;
a sample of one out of two buckets misses an expired one. One mood and "none" are two
sets of defaults, which is what a stale form needs; three tabs let a circle of waits be
longer than a pair, which two could never show. Two entries are what two cascades
can take in opposite orders, and what a page of one does not show; a third is one more
than the owner's list has room for. Four links and a
window of four let mails of two windows meet. Sides up to 14 round both up and down to
an edge of four, and one of 13 over 1 would round to nothing; 48 bytes hold a first
segment and a second with the EXIF header, a directory and an entry. Three days kept,
days of three ticks and an hour of two let a run meet files just within and just past
the limit; three runs let two overlap after one has succeeded. Three edits lose a
variable and change two others that could hide it. Two listeners let one fail or drain
while the other is busy. The clock of a run goes past every expiry it is about. `signin`
has one nonce, so a second confirmation page makes the first one's form match again
instead of mismatching: the mismatch only ends a request, and `NonceMismatch` still
happens with an absent cookie.

Symmetry is used only in runs without liveness. Deadlock is not checked: every
instance stops at its clock bound, or with the process, with nothing to do. Waiting
on locks is covered by `NobodyStuck` and `SomeoneProceeds`, and in `guestbook` by
`DeletionEnds`. The first two say that whoever is not `Ready` waits for somebody who is
under way, and that in every circle of waits two wait for each other, one of whom the
deadlock detector ends. `NobodyStuck` adds that whoever is `Ready` has a step it can take
(`ReadyGoesOn`): together, that somebody can always go on.

### Fairness

* `guestbook`: strong fairness of each visitor's next statement (PostgreSQL hands a
  lock to waiters in order, so who can proceed again and again does) and weak
  fairness of the deadlock detector. Starting a request and failing are not required.
* `mail`: only the timers fire (a dial or a read ends at its limit) and time passes.
  The relay owes nobody an answer.
* `publiccache`: somebody keeps asking for the card, its freshness runs out, and the
  database does not fail for ever. The owner owes nothing.
* `server`: weak fairness of the main goroutine, of each listener's goroutine and
  `Shutdown`, of the purge's ticker and of the end of a statement (the Go scheduler,
  timers, and a database that answers or drops the connection), and strong fairness
  of each of the purge's deletes (the database does not refuse the same statement
  for ever; if it does, the deletes after it never run, because `purge` returns at the
  first that fails). Signals, failures, arrivals and answers are never required.

The other runs check safety and state no fairness.

### Where a property says less than a comment of the code

Properties state what holds. In these places a comment promises more, and the condition
in the property is there for it:

* `user.go:323`, no gap between the reservation's check and the claim. `ClaimHandle`
  evaluates the reservation on the snapshot of its statement. If the holder's
  deletion has not committed yet, the claim waits for it in the unique index and
  then succeeds, inside the reservation the deletion has just made.
  `HandleQuarantine` leaves such overlapping claims (`raced`) out.
* `user.go:47`, at most so many emails per window. `DeleteAccount` deletes the rows the
  login budget counts. `InboxBudget` does not count links deleted with the account.
* `photostore.go:121`, no row names a missing file. `handlePhotoUpload` removes the new
  file on any error of `SetPhoto` (`web/photo.go:128`), also when the statement
  committed and only its answer was lost. `RowNamesFile` leaves out such rows (`lost`).
* `web/style.go:52`, slots left at "Por defecto" are not published. What a form sends is
  compared with the defaults of the mood at that moment, while the form shows those of
  the mood it was rendered under. If the mood changed in another tab, the slots that
  follow the mood come out customised; `UntouchedStaysDefault` is about the others.
* `queries/guestbook.sql:19`, a hidden entry stays listed. Behind `OwnerLimit` newer
  entries it does not; `ShownIsListed` is about visible ones, and only while the hidden
  ones leave room.
* `deploy/backup.sh:14` and `:142`, no backup older than `BACKUP_KEEP_DAYS`. A run by
  hand some hours after the nightly one makes a file that the run of its last night
  finds too young, so it stays up to a day longer; `DailyRetention` asks for nightly
  runs alone. With `BACKUP_KEEP_DAYS=1`, a second run of a day keeps the remote files
  of the first (`--ignore-existing`) and may then prune them as too old;
  `KeepAssumption` excludes that value.
* `smtp.go:52`, a send is bounded by its deadline. The dial gets `ctx`, which has no
  deadline of its own, before the deadline is set on the connection: a host that drops
  packets holds the handler for as long as the kernel tries. `SendBounded` allows the
  longer of the two.
* `config.go:56` and `.env.example:19`, an empty `ADMIN_ADDR` disables diagnostics. `Load`
  replaces an empty value by the default, as `Or` shows.
* `README.md:81`, hosts that share a registrable domain are refused. `Validate` compares
  the hosts and refuses one under the other; `app.site.org` and `pages.site.org` pass,
  as `HostsApart` shows.
* `config.go:304`, hosts that are equal or one under the other are refused. `Validate`
  compares them as they are spelled, so with different capitals it accepts them, and the
  app may answer where a page should; `PageReachable` is about hosts in one spelling.
* `web/middleware.go:155`, every response of the app is kept out of shared caches. Shared
  stylesheets and fonts are `public` on purpose; and of the others, the stylesheet of a
  draft leaves with `no-store` alone (`web/style.go:281`) and an error of
  `http.ServeContent` with no `Cache-Control` at all. `PersonalNotShared` asks that no
  shared cache may keep any answer but the shared files, whichever header it left with.
* `photo.go:125`, `estimatedPeak` is an upper bound on the memory `Process` needs. It
  counts the decoded image and the scaler's rows. `MemoryBounded` adds two output images,
  the scaled one and the one `orient8` turns it into; the bytes of the upload and the
  coefficients a progressive JPEG is decoded from come on top of both.
* `web/photo.go:316`, the URL names these exact bytes. `Cache-Control: immutable` is set
  before the file is opened, so a 404 for a file that could not be opened for a moment is
  cached for good. `OrderSparesCache` holds as long as the directory can be read.
* `ratelimit.go:126`, in a full map every bucket is within its idle TTL. The map may hold
  expired buckets that `reap` did not sample; the client is refused either way.
* `nonce.go:42`, the cookie goes whichever way the POST went. On a mismatch
  `handleLoginComplete` leaves it.

## Proofs

`AccountsProofs` proves, for any sets of workers, addresses, tokens and handles
and any durations that satisfy the assumptions of `Accounts`:

* `TypeCorrect`, `Spec => []TypeOK`. Not inductive alone: the types of what a
  commit writes depend on the arguments of the operation, so `ArgsOK` says which
  arguments a worker at each statement has.
* `LinksSafe` (`LinkRules`), from `OneLiveLink` and `LinkUsedOnce`. Both need to know why two workers cannot
  write the same thing: `LinkInv` says that a worker past the advisory lock holds
  it (`Serialised`), that no two workers have written the same row
  (`RowsExclusive`), that the link a request will mint is unused (`FreshTokens`),
  that a request about to commit retires every open link of its address
  (`RetiresAll`), that a login about to commit spends one open link
  (`SpendsOne`), and that only a spent, purged or deleted link has logged in
  (`LoginCount`).
* `HandlesSafe`, `Spec => []HandleRules`. `HandleInv` follows a handle through a
  deletion: whoever reserves or claims holds the row of the account
  (`UserRowHeld`); the reservation on record tells of the last deletion, or its time is
  over (`ReservationKnown`), which survives the purge because no transaction runs longer
  than `MaxTxTime` (`ClocksOK`); so a claim whose snapshot saw every deletion waited
  (`ClaimWaited`).
* `DeletionStands`, `Spec => NoResurrection`. `RecordInv`: the links a deletion saw and
  does not hold are gone (`SnapsKnown`), so at its commit none on record is left
  (`CondemnedGone`), and a login needs an open one.
* `BudgetKept` and `NotLockedOut`. Under the advisory lock what a request counted stays
  an upper bound of every window its link can fall into (`Counted`), and what the purge
  dropped is older than any such window (`PurgedOld`, with `MaxTxTime <=
  PurgeRetention`), so no window, past or to come, is over the budget (`SentInv`). For
  `WayIn`, the last link of an address was within the budget when it was minted
  (`LatestKnown`), so the window has filled up only if it still is young.
* `NobodyIsStuck`, `Spec => []Unstuck`. A lock belongs to a transaction that is at a
  statement after the one that took it (`LocksHeld`), so a wait leads to somebody who is
  running. The statements have ranks (`Rank`), and a wait goes down in rank except from a
  deletion to a login of the same address, which waits for it in turn: that needs
  that both work on links of their own address (`OwnTokens`). So the lowest of a circle is
  one of a pair (`WaitsGoDown`, `LowestRank`).
* `OneAfterTheOther`, `Spec => Serializable`: `Accounts` implements `AccountBook`. What
  an operation acts on at its commit is what it counted, read or matched before: the count
  of a request (`Counted`), the open links it retires (`RetiresAll`), the link of a login
  and its age, the account of a deletion and the links it holds, and the account of a claim
  at the unique index (`StillSo`). That nobody changed them meanwhile comes from the locks:
  the address (`Serialised`), the rows written (`RowsExclusive`), the row of the account
  (`UserRowHeld`). Each commit is a lemma of its own (`RequestTakesEffect` and the others);
  of the other statements `SameCall` says that they leave the call as it is.

`RateLimiterProofs` proves, for any number of clients and workers, any burst,
refill, ceiling and sample, that `RateLimiter` implements `IdealLimiter`
(`Forgetting`), that the map respects its ceiling (`Ceiling`) and that levels stay
within the burst (`TypeCorrect`). The invariant says that a bucket holds exactly
what the ideal allowance says even after readings out of order (`Kept`), that a
client without a bucket had a full allowance before any reading still on its way
(`Gone`), and that no allowance lies further ahead than the capacity (`Horizon`).
The assumption that makes it work is `IdleAssumption`: the idle TTL is at least
the time to refill plus twice the delay between reading the clock and taking the
mutex (ten minutes against 200 seconds and milliseconds).

`PhotosProofs` proves, for any requests, accounts and keys, any length of a day and any
mix of failures, `TypeCorrect` and

* `SlotHeld`: an upload inside the processor is alone there and is what the channel
  holds (`SlotInv`).
* `OneADay`: whatever was counted is on or before the day of the last upload of the row
  (`DaysInv`), which removing a photo leaves alone, and `SetPhoto` asks for an earlier
  one; the lemma `EarlierDay` relates `dayStart` to days.
* `StoresAgree`, `Spec => []RowsAndFiles`. `FileInv`: a key is drawn once and named by
  one row (`KeysOnce`); nobody is about to remove a file that is named or will be,
  unless the server was never told (`RemovalsApart`); a file is in the directory, and
  the directory on disk, before the row names it (`InPlace`); and a file that is not
  named is somebody's to name or remove (`Accounted`).

The second part of `PhotosProofs` is about `PhotoProcess`, for all limits, uploads and
headers:

* `WalkInBounds`: no slice of the EXIF walk ends beyond what it is taken of, because
  every entry that is still to be read lies inside the block (`EntriesInside`).
* `ScaledWithinLimits`: proportions and memory. `IInv` says what the result is
  (`Result`) and that the header has passed the limits (`LimitsHeld`); the lemmas
  `FittedNearest` and `FittedEdge` are the integer division of `scaledSize`, rounded
  to the nearest and exact for the long side; `ProductWithin` bounds the areas.
* `PixelsUpright`: for every size and orientation, `orient8` reads inside the image and
  each pixel lands where the table of the tag says (`SourceSeen`, one case per value).

`SignInProofs` proves, for any tabs, sessions, links, nonces, addresses and clocks,
`TableInOrder` (`SessionsOwned`) and `Unstranded` (`NeverStranded`). Ids are given out in
order, so a session of an account that is gone is never taken for one of its successor
(`Accountable`, `SessionsOK`). `NeverStranded` is not inductive: when an answer sets a
new session, that one must still work. `Unknown` says why it does: until the answer
arrives nobody but the request that issued it knows it, so no other tab can revoke it.
`Replaced` is stronger than the property: a browser whose session was ended
waits for an answer that replaces it, and not only for any answer.

`PageProofs` proves, for any accounts, visitors, entries and limits, `BookWhole`
(`BookIntact`) and `EntriesStand` (`EntriesGuarded`). A deletion holds the row of its
account to the end (`Locked`), so nobody signs for it meanwhile; it locks entries of its
account and nobody changes a locked one (`Held`); a cascade that is done has left none
out (`Swept`). So the commit takes exactly the account's entries, and the rest keep
both accounts (`Owned`), the author with the page it had when signing (`HandleKept`).
`ShownIsListed` is counting (`Listed`): what a list puts before an entry the other puts
there too, but for the hidden ones.

Its second part is about `PublicCache`, for any names, moods, keys and number of changes:
`CacheStaysSound` (`CacheSound`) and `NotModifiedTells` (`NotModifiedHonest`). A key that
is about to go into the row is new, its file is there before the row names it, and the
old file goes after the row has changed (`FileBeforeRow`); a file is opened only for a key
that was in the row (`Asked`); so a key a cache holds as not found was handed out, is not
in the row and is not on its way there (`GoneForGood`). For the card, the tag a request
carries is that of the card in the cache, and the card shows what its tag says (`CardOK`).

`OperationsProofs` proves, for any listeners and requests, `Drains` (`DrainHonest`).
`DrainInv` says that nothing is accepted where a `Shutdown` has begun (`Closed`), so that
a drain that has ended stays ended (`Undrained`); that a `Shutdown` gives up only when
the budget is used up (`Late`); and that `run` returns after all of them, with the status
they call for (`Returned`).

Of `Mail`, for any handlers, links, budget and durations, it proves `MailIsHonest`
(`MailHonest`) and `SendsInTime` (`SendTimed`). The invariant follows each handler: its
deadline counts from the minting of its link and the clock has not passed it
(`Carrying`), it authenticates and sends under TLS or to the machine itself
(`Encrypted`), and it is done only with what the relay took (`Taken`). `InboxRate` is not
inductive. `Rate` is about minting instead: at the end of any window the links minted in
it are within the budget, because that held whenever one was added; and a mail is
taken less than `SendTimeout` after its link was minted (`Prompt`), so the mails of a
stretch come from the links of one window.

Of `Backup`, for any processes, runs and durations that satisfy its assumptions, it
proves `BackupsAreKept` (`BackupsKept`) and `PingTells` (`PingHonest`). A run holds the
lock while it works. Its files are its own (`Temporary`, `Published`), the remote has a
pair of its date before it prunes (`Copied`), and neither is old enough to be pruned
(`RunKept`): its own files are younger than a run, and a file under its date is younger
than a day and two runs, because the name's day is at most a run later than the time the
file was made (`DirOK`). That is what `KeepAssumption` is for. For `DailyRetention`
the files of a night are made within a run of its beginning (`AtNight`), so what a prune
finds too young is at most `KeepDays - 1` days older than the run (`PruneLeaves`, from
the lemma `DayGap`), and stays so until the next success (`Recent`, `Success`).

`ProfileProofs` proves, for any tabs, moods, slots and number of writes,
`TypeCorrect`, `MoodAlwaysRecorded`, `StylesheetFresh`, `FormsReadBack` and
`NobodyIsStuck`, whose argument is that of `Accounts`: a request under way is at one of
the statements (`AtStatement`) and holds the locks that belong to it (`HeldAtStatement`), so
nothing is held by whoever is done; and waits go down their ranks, except between a mood on
its way into the history and a deletion, which wait for each other. The
invariant `Inv` adds to the properties: which arguments a request has at each
statement (`ArgsOK`); that every version in use, linked or cached is in the past
and that of a publication under way is nobody else's (`Versions`), which is why a
stylesheet fetched across a publication can never be taken for the new one; and
that a draft customises no slot to the default of the mood it was read under
(`Drafts`), from which the lemma `RoundTrip` gives `PreviewFaithful` (theorem
`PreviewRoundTrip`). For `UntouchedStaysDefault` a second invariant, `LeftAlone`,
follows a form from the owner to the draft: what is sent for a slot left alone is a
colour that is its default under every mood.

`SiteProofs` proves, for any hosts, labels, handles and mail variables and any sequence
of edits, restarts and requests:

* `ModesNeverMix` (`ModesApart`) and `HostsLeadWhereTheySay` (`HostsLead`). The invariant
  is that a process runs with what `Load` made of an environment `Validate` accepted
  (`Vetted`). The rest is about sequences of labels: `StrictSuffix` says what the suffix
  test of the code compares, `OneLabelMore` that a label in front is found again and
  nothing else is, `Split` that `hostSplit` undoes `PageHostFor`.
* `HeadersLeaveRight` (`HeadersRight`), `GatesHold` (`Gated`) and `LogTells`
  (`LogHonest`), from `SiteInv`: where a request can be is decided by what `hostSplit`
  made of its host (`Placed`), and what the headers, the checks and the limit are by how
  far it has come (`Worn`, `Checks`, `Limited`). A layer either passes a request on
  (`Onward`) or turns it back with the headers set so far (`Refuses`); a handler writes
  with headers that may leave (`Writes`), of its own where the route has some
  (`OwnCaching`), and what left is still what it was when the way back is over
  (`SentIsStable`).

The assumptions of the theorems are those the modules state of their constants: sets are
finite where they are counted, durations are natural numbers, what stands for no value
(`None`, `Nothing`, `NoValue`, `Nil`) is no member of the other sets, and the few
inequalities the code's own constants satisfy (`IdleAssumption`, `KeepAssumption`, the
durations of `Accounts`). TLC evaluates each on its run.

Some modules of different components are proved about in one module of proofs, which
extends both; their names are kept apart (`MailSpec`, `BackupSpec`, `CacheSpec`).

Only model-checked: all liveness (`RequestEnds`, `CardCatchesUp`, `DeletionEnds`, `Stops`,
`EventuallyPurged`), and `ReadyGoesOn`, which speaks of ENABLED: `NobodyIsStuck` of
`AccountsProofs` gives `NobodyStuck` where it holds, while that of `ProfileProofs` needs no
such condition. The provers have no rules for fairness and ENABLED. Half of `ReadyGoesOn`
needs none and is proved: nobody takes a step who is not `Ready` (`StepsWhenReady`). Every
other property of a run is a theorem.

## Not modelled

* The rules for text: the spelling of addresses, names, handles, notes and entries
  (`NormaliseEmail`, `NormaliseDisplayName`, `ValidHandle`, `textcheck`), tokens and
  nonces as strings, client keys of addresses. A refused text is an outcome of the
  operation it belongs to.
* Drawing: preview cards (`internal/ogcard`), fonts, templates and images; decoding,
  resampling and encoding of photos, which libraries do.
* Statistics, the admin view, the random page and the legal pages: they read and keep
  nothing. The `-migrate` and `-stats` runs of the binary.
* Generated query code (its `.sql` sources are what is modelled).
* TLS itself, the redaction of logged paths, the units, nginx and compose files.
* Floating point in the limiter (levels are exact); clock steps backwards within one
  clock, but for the readings of the limiter.

## What is left

1. The rules for text against reference definitions, and the layout of the cards.
