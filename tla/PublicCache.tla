------------------------------ MODULE PublicCache ------------------------------
(***************************************************************************)
(* A page's preview card (/og.png, web/og.go) and photo (/photo/{key}.jpg, *)
(* web/photo.go) behind a cache, as a browser or the edge keeps one, while *)
(* the owner changes the name, the mood and the photo.  A handler reads    *)
(* one thing per step.  The photo directory may be unreadable for a while. *)
(***************************************************************************)
EXTENDS Naturals

CONSTANTS
    Name, Mood,  \* display names, moods with their notes
    Key,         \* photo keys
    MaxChanges,  \* bound: changes the owner makes
    Nothing      \* no value: no name, no mood, no photo

ASSUME NothingAssumption ==
    Nothing \notin Name \cup Mood \cup Key \cup {"bytes", "notfound"}
ASSUME ChangesAssumption == MaxChanges \in Nat

VARIABLES
    name, mood,
    moodAt,      \* updated_at of the mood
    photo,       \* users.photo_key
    owner,       \* what the owner's request has still to do
    files, used, \* files on disk; keys ever handed out
    readable,    \* whether files can be opened
    failed,      \* whether they ever could not
    changes,
    og,          \* the request for the card
    get,         \* the request for a photo
    card,        \* the cached card: its tag, what it shows, and whether it is fresh
    cached       \* the cached answer under each photo's URL

ownerVars == <<name, mood, moodAt, photo, owner, files, used, changes>>
diskVars == <<readable, failed>>
cacheVars == <<ownerVars, diskVars, og, get, card, cached>>

Names == Name \cup {Nothing}
Moods == Mood \cup {Nothing}
Tag == [name : Names, mood : Moods, at : 0..MaxChanges]
Idle == [at |-> "idle", match |-> Nothing, name |-> Nothing]
NoGet == [at |-> "idle", key |-> Nothing]
NoChange == [at |-> "idle", key |-> Nothing]

CacheTypeOK ==
    /\ name \in Names /\ mood \in Moods /\ moodAt \in 0..MaxChanges
    /\ photo \in Key \cup {Nothing}
    /\ owner \in [at : {"idle", "row", "file", "unlink"}, key : Key \cup {Nothing}]
    /\ files \subseteq used /\ used \subseteq Key
    /\ readable \in BOOLEAN /\ failed \in BOOLEAN
    /\ changes \in 0..MaxChanges
    /\ og.at \in {"idle", "user", "mood"} /\ og.name \in Names
    /\ og.match = Nothing \/ og.match \in Tag
    /\ get \in [at : {"idle", "row", "open"}, key : Key \cup {Nothing}]
    /\ card = Nothing \/ card \in [tag : Tag, shows : Names \X Moods, fresh : BOOLEAN]
    /\ cached \in [Key -> {Nothing, "bytes", "notfound"}]

CacheInit ==
    /\ name = Nothing /\ mood = Nothing /\ moodAt = 0
    /\ photo = Nothing /\ owner = NoChange /\ files = {} /\ used = {}
    /\ readable = TRUE /\ failed = FALSE /\ changes = 0
    /\ og = Idle /\ get = NoGet /\ card = Nothing /\ cached = [k \in Key |-> Nothing]
--------------------------------------------------------------------------------
(* The owner.                                                              *)

Change == owner = NoChange /\ changes < MaxChanges /\ changes' = changes + 1

\* An empty name clears it; one that is refused changes nothing.
SetDisplayName(n) ==
    /\ Change /\ n # name /\ name' = n
    /\ UNCHANGED <<mood, moodAt, photo, owner, files, used, diskVars, og, get, card, cached>>

SetMood(m) ==
    /\ Change /\ mood' = m /\ moodAt' = changes + 1
    /\ UNCHANGED <<name, photo, owner, files, used, diskVars, og, get, card, cached>>

\* Defect: the key is a hash of the bytes, and comes back with them.
NewKeyOfBytes(k) == k # photo

NewKey(k) == k \notin used

BeginUpload(k) ==
    /\ Change /\ NewKey(k) /\ used' = used \cup {k}
    /\ owner' = [at |-> "file", key |-> k]
    /\ UNCHANGED <<name, mood, moodAt, photo, files, diskVars, og, get, card, cached>>

SaveFile ==
    /\ owner.at = "file" /\ files' = files \cup {owner.key}
    /\ owner' = [owner EXCEPT !.at = "row"]
    /\ UNCHANGED <<name, mood, moodAt, photo, used, changes, diskVars, og, get, card, cached>>

\* SetPhoto and RemovePhoto return the key they replace.
WriteRow ==
    /\ owner.at = "row" /\ photo' = owner.key
    /\ owner' = IF photo = Nothing THEN NoChange ELSE [at |-> "unlink", key |-> photo]
    /\ UNCHANGED <<name, mood, moodAt, files, used, changes, diskVars, og, get, card, cached>>

BeginRemove ==
    /\ Change /\ photo # Nothing /\ owner' = [at |-> "row", key |-> Nothing]
    /\ UNCHANGED <<name, mood, moodAt, photo, files, used, diskVars, og, get, card, cached>>

RemoveFile ==
    /\ owner.at = "unlink" /\ files' = files \ {owner.key} /\ owner' = NoChange
    /\ UNCHANGED <<name, mood, moodAt, photo, used, changes, diskVars, og, get, card, cached>>

\* The volume is away, or the process is out of file descriptors; and back.
DiskFails ==
    /\ readable /\ ~failed /\ readable' = FALSE /\ failed' = TRUE
    /\ UNCHANGED <<ownerVars, og, get, card, cached>>

DiskBack ==
    /\ ~readable /\ readable' = TRUE
    /\ UNCHANGED <<failed, ownerVars, og, get, card, cached>>
--------------------------------------------------------------------------------
(* handleOGImage: the account, the mood, then 304 or the card.             *)

\* Defect: the name is not part of the tag.
ogETagNameless(n, m, at) == [name |-> Nothing, mood |-> m, at |-> at]

ogETag(n, m, at) == [name |-> n, mood |-> m, at |-> at]

\* A stale entry is revalidated with If-None-Match.
AskCard ==
    /\ og = Idle /\ (card # Nothing => ~card.fresh)
    /\ og' = [Idle EXCEPT !.at = "user", !.match = IF card = Nothing THEN Nothing ELSE card.tag]
    /\ UNCHANGED <<ownerVars, diskVars, get, card, cached>>

GetByHandle ==
    /\ og.at = "user" /\ og' = [og EXCEPT !.at = "mood", !.name = name]
    /\ UNCHANGED <<ownerVars, diskVars, get, card, cached>>

NotModified ==
    /\ og.at = "mood" /\ og.match = ogETag(og.name, mood, moodAt) /\ card # Nothing
    /\ card' = [card EXCEPT !.fresh = TRUE]
    /\ og' = Idle /\ UNCHANGED <<ownerVars, diskVars, get, cached>>

Render ==
    /\ og.at = "mood" /\ og.match # ogETag(og.name, mood, moodAt)
    /\ card' = [tag |-> ogETag(og.name, mood, moodAt), shows |-> <<og.name, mood>>, fresh |-> TRUE]
    /\ og' = Idle /\ UNCHANGED <<ownerVars, diskVars, get, cached>>

\* The database, or no such account: no Cache-Control, nothing is stored.  A card that
\* cannot be drawn is left out; its 500, with Cache-Control set, is in Pipeline.
OGFails ==
    /\ og.at \in {"user", "mood"} /\ og' = Idle
    /\ UNCHANGED <<ownerVars, diskVars, get, card, cached>>

\* Defect: cached for good, like a photo.
ExpireNever == FALSE /\ card' = card /\ UNCHANGED <<ownerVars, diskVars, og, get, cached>>

\* max-age=300
Expire ==
    /\ card # Nothing /\ card.fresh
    /\ card' = [card EXCEPT !.fresh = FALSE]
    /\ UNCHANGED <<ownerVars, diskVars, og, get, cached>>
--------------------------------------------------------------------------------
(* handlePagePhoto: the row, then the file.                                *)

\* Only what is not cached is asked for.
AskPhoto(k) ==
    /\ get = NoGet /\ cached[k] = Nothing /\ k \in used
    /\ get' = [at |-> "row", key |-> k]
    /\ UNCHANGED <<ownerVars, diskVars, og, card, cached>>

\* A key nobody holds is not found, without a word to the cache.
ByPhotoKey ==
    /\ get.at = "row"
    /\ get' = IF photo = get.key THEN [get EXCEPT !.at = "open"] ELSE NoGet
    /\ UNCHANGED <<ownerVars, diskVars, og, card, cached>>

\* Cache-Control: immutable is set before the file is opened.
servePhotoFile ==
    /\ get.at = "open"
    /\ cached' = [cached EXCEPT ![get.key] =
          IF readable /\ get.key \in files THEN "bytes" ELSE "notfound"]
    /\ get' = NoGet
    /\ UNCHANGED <<ownerVars, diskVars, og, card>>
--------------------------------------------------------------------------------
OwnerNext ==
    \/ \E n \in Names : SetDisplayName(n)
    \/ \E m \in Mood : SetMood(m)
    \/ \E k \in Key : BeginUpload(k)
    \/ BeginRemove \/ SaveFile \/ WriteRow \/ RemoveFile

CardNext == AskCard \/ GetByHandle \/ NotModified \/ Render

CacheNext ==
    \/ OwnerNext \/ DiskFails \/ DiskBack
    \/ CardNext \/ OGFails \/ Expire
    \/ \E k \in Key : AskPhoto(k)
    \/ ByPhotoKey \/ servePhotoFile

CacheSpec == CacheInit /\ [][CacheNext]_cacheVars

\* Somebody keeps looking at the card, the database does not fail for ever, and
\* time passes.
CacheFairSpec ==
    /\ CacheSpec /\ WF_cacheVars(Expire) /\ WF_cacheVars(AskCard)
    /\ SF_cacheVars(GetByHandle) /\ SF_cacheVars(NotModified \/ Render)
--------------------------------------------------------------------------------
\* ogETag, "a mood or name change always" invalidates a cached card: a 304
\* confirms only a card that shows what this request read, although name and mood
\* are read one after the other and change in between.
NotModifiedHonest ==
    [][card # Nothing /\ ~card.fresh /\ card' # Nothing /\ card'.fresh /\ card'.tag = card.tag
          => card'.shows = <<og.name, mood>>]_cacheVars

\* Once the owner stops changing things, the card everyone sees is the current one.
CardCatchesUp == <>[](card # Nothing => card.shows = <<name, mood>>)

Masked(k) == cached[k] = "notfound" /\ photo = k /\ k \in files /\ readable

\* handlePhotoUpload, "the order matters": as long as the directory can be read, no
\* interleaving of uploads, removals and views makes a cache keep, for good, that
\* the account's photo does not exist.
OrderSparesCache == ~failed => \A k \in Key : ~Masked(k)

\* What caches keep of cards and photos is sound.
CacheSound == CacheTypeOK /\ OrderSparesCache
================================================================================
