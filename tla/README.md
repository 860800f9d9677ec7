# A verification model of the openvk backend

TLA+ modules that model the stateful core of this repository, the TLC instances
that check them, and proofs of the results that matter most, for every value of
the constants. Paths are those of the repository (`src/modules/...` is below
its crate directory `src/src`).

Contents: [the system](#the-system) · [modules](#modules) · [runs](#runs) ·
[disagreements found](#disagreements-found) · [fairness](#fairness-and-deadlock) ·
[proofs](#proofs) · [limits](#limits) · [not modelled](#not-modelled) · [plan](#plan)

## The system

The program is an HTTP and WebSocket API (axum on tokio). Any number of
*replicas* of one stateless process share Postgres, Redis and an S3 bucket;
`docker-compose.yml` restarts a replica that exits. A request is a task that
issues SQL statements, Redis commands and bucket calls one by one. Only a few
operations span their statements with a transaction (READ COMMITTED). A client
that disconnects drops the task at its next `await`, and a lost connection does
the same, so a request can end between any two of its calls. There is no
background worker and no message queue; the WebSocket echoes.

What makes the system hard is the same everywhere: two tasks between each
other's statements, a value that is read in one statement and used in a later
one, caches in each replica that no other replica invalidates, a bucket that no
transaction covers, and starts that run migrations and seed beside requests of
other replicas.

| component | state | operations | what makes it correct |
|---|---|---|---|
| votes economy (`modules/desk`) | `users.coins`, `vouchers`, `voucher_redemptions`, `user_gifts` | transfer, gift, redeem; vouchers made by administrators; top-up by the seed; account deletion | balances stay in range; a request has all of its effect or none; a voucher is used as often as it was issued for |
| profile cache (`cache.rs`, `users/services`) | row, `user:<id>` in Redis (30 s), a moka cache per replica (30 s) | lookup, change and reload, invalidation, expiry, lifting a ban that is over at a login or by `/unban` | how old a copy can be; a change answers with its own effect; what a lift goes by is recent |
| walls (`modules/wall`, `db/seed.rs`) | `wall_posts`, `users.wall_seq`, `groups.wall_seq` | writing in a transaction; the seed; hiding and showing; account deletion and changes of address | numbers are sequential and name one post for ever; starts end |
| media (`modules/media`, `users/services`) | bucket, `media_objects`, `albums`, `album_photos`, `audios`, `videos`, `users.avatar_key` | uploads, deletions, albums, avatars, default avatar, account deletion | rows have objects, objects have rows, the avatar is there |
| moderation (`modules/desk`) | bans in `users`, `reports`, `nospam_actions`, `wall_posts.deleted_at` | reports and actions on them, noSpam and rollback, bans | what was hidden can be accounted for; statuses are true |
| messenger (`modules/messenger`, `db/protect.rs`, `vault.rs`) | `conversations`, members, `conversation_keys`, `messages`, `users.wrap_key` | send, which finds or creates the conversation and its keys; keys for old accounts at the start; account deletion | members can open their conversations, and only the two of them |
| database migrations (`db/migrator.rs`) | schema, `seaql_migrations`, an advisory lock | start, statement by statement; adoption of old databases | one replica at a time; recorded means complete; every start ends up serving |
| likes, comments, notices (`modules/likes`, `comments`, `notifications`) | `likes`, `comments`, `notifications`, the cache of posts of each replica | toggle, set, comment, notify | answers are true; the owner is told once it matters |
| accounts (`modules/users`, `modules/auth`, `db/protect.rs`) | rows of `users` and `privacy_settings` | register, login with renewal of an old hash, change of password and settings, leaving; sealing of addresses at a start | a password goes only by who knew it; addresses open and are found; the two tables agree |
| sessions (`modules/auth`, `security.rs`, `middleware/auth.rs`) | challenges and verified tokens, per replica | challenge, login, token, verification (REST and VK API), logout, restart | a challenge opens once; how long a token lasts |
| rate limit (`middleware/rate_limit.rs`) | a counter per address, replica and minute | every request | the limit holds under concurrency |
| support desk (`modules/desk`) | tickets, replies, support bans, limits | create, reply, close, delete, ban, limit | no reply to a ticket that was read closed; refusals hold |
| inspection of uploads (`modules/media/inspect`) | none | which type is accepted, what is written of it | what was stored is accepted again |
| lists (walls, news, comments, likes, notices, albums, tracks, tickets, reports, users) | none of their own | several queries each | a list tells what stood at some moment of the request |
| default avatar, object storage, public ids, VK API, ciphers, codec, tracing, configuration | none that outlives a request, or the bucket | decisions on bytes and strings, input and output | see [not modelled](#not-modelled) |

How they interact: the desk writes rows of `users` that the profile cache
copies; reports and noSpam hide posts of the walls; account deletion reaches
into every component (media keys are read first, then the objects go, then one
`DELETE` cascades); a start runs migrations, seed and wrap keys beside the
requests of other replicas; likes and comments name posts by the numbers of the
walls, and look them up through a cache that moderation does not invalidate.
`PROJECT.json` lists every component with its state of modelling, and under
"hazards" every place in the code where one of these interactions bites, with
the properties that watch it.

## Modules

| module | models | extends or composes |
|---|---|---|
| `Ledger` | abstract: accounts, balances, vouchers, gifts; what is asked for is served at once and entirely, or declined | |
| `Wallet` | the economy, statement by statement, with row locks and deadlocks | |
| `WalletProps` | its properties, `L == INSTANCE Ledger` | `Wallet` |
| `ProfileCache` | row, Redis, replicas' caches, lifts of bans, with time | |
| `Timeline` | abstract: a counter for each wall, posts that take its next numbers as they appear | |
| `Wall` | walls, numbers, seed and starts; `T == INSTANCE Timeline` | `Timeline` |
| `Media` | one user's bucket, rows and avatar | |
| `Moderation` | reports and what is done about them, noSpam | |
| `Messenger` | conversations and their keys | |
| `Migrator` | starts and migrations | |
| `Social` | likes and comments on one post | |
| `Accounts` | accounts, passwords, settings, and the sealing of a start | |
| `Session` | challenges and tokens | |
| `Gate` | the counters of the rate limit | |
| `Support` | tickets, support bans and limits | |
| `Inspect` | what the inspection of an upload accepts and writes | |
| `Pages` | lists assembled from several queries | |
| `MCRequests` | instance: one of the five before, chosen by the initial state | `Session`, `Gate`, `Support`, `Inspect`, `Pages` |
| `WalletProofs`, `ProfileCacheProofs`, `MigratorProofs`, `MessengerProofs`, `WallProofs` | proofs | their module, `TLAPS` |
| `ContentProofs` | proofs | `Social`, `Media`, `TLAPS` |
| `RequestsProofs` | proofs | `Session`, `Gate`, `Support`, `Inspect`, `Accounts`, `Pages`, `TLAPS` |
| `ModerationProofs` | proofs | `Moderation`, `TLAPS` |
| `MC...` | instances for TLC | their module |

Conventions. A variable that is a table or a cache has the name of the source.
`pc[t]` is the next statement of a task. One action is one statement or call;
several are one action only where no other task can tell (a statement that only
its own transaction sees). Dropping a task is an action of every model where
tasks run. *History* variables (in their declaration called so) are read by
properties and by nothing else. A definition that begins with "Mistake:" is a
plausible bug; it is not used by the specification, and it shows, put in place
of the definition after it, that a property notices it. Six properties
are in no run and are proved: `PermalinksNameOnePost` (which `ImplementsTimeline`
says in more detail), `TornWallsAreShut` and `WritesFindRoom` of `Wall`,
`OnlyTransfersDeadlock` of `Wallet`, `FailuresExplained` of `Migrator` and
`SealingFailsForCause` of `Accounts`.

**Wallet.** Tables hold what is committed; `held[r]` and `shared[r]` are the
rows a transaction has locked for update or FOR KEY SHARE (by a foreign key).
`Debit`, `Credit`, `Present`, `Select`, `Record`, `Spend` are the statements of
`transfer_coins`, `send_gift`, `redeem_voucher` (`desk/repository.rs`), with the
conditions of their WHERE evaluated at the row; `Commit` applies what the
request wrote; `Drop` and the errors roll back; `BreakDeadlock` is Postgres'
detector. `Alias` holds numbers that name an account by login ("id1") and no
row by id. In `Ledger` a request is asked for once and is then open until it is
served or declined. A transfer that is served gives to the receiver what it
takes from the sender if the receiver has a row (`Transfer`); only where there
is none do the votes reach nobody (`TransferToNobody`). `Outcome` reads from the
next statement of a request where it stands: one that committed is served, also
when its client is not told. `given` holds the ids that rows ever had.

**ProfileCache.** A write makes version n+1. `lost[n]` counts ticks since
version n was overwritten, `Ttl` and `Patience` bound an entry's life and a
request's duration. Redis may skip any command, as `cache.rs` allows. A ban is
part of the row; `Authenticate` reads it there and may go on to lift it, and
`Serve` may go on to `self_unban` after a lookup through the caches. The lift
writes whatever the row has by then.

**Wall.** `Write` is `insert_row` with its transaction: count `wall_seq` up,
insert, commit; a unique index refuses a number twice. `Seed` is the sequence
of autocommitted statements of `db/seed.rs` for the walls of id1, anna and the
club. Replicas start, fail and are restarted. The history variable `issued` keeps
the numbers a wall ever gave; their count is what `Timeline` calls `given`.
`EnsureUsers` stands for the accounts of the seed: pavel's row is made when his
login has none, and his e-mail address (`address`) and screen name are unique,
so the start fails while another account has one of them. `JoinClub` and the
notes refer to the id that start looked up; `lost` has the starts whose pavel
was deleted since, and they fail there. In `Timeline` a post and its number appear at once: it has no locks, transactions,
statements of the seed or starts.

**Media.** A key stands for its object, its row and its audio or video. Uploads
put the object, then insert the row; deletions remove the object, then the row;
each call may fail with or without having had its effect. A user may have the
SVG of an older release as avatar, which a start converts (`BeginConvert` to
`SweepSvg`, `media/default_avatar.rs`).

**Moderation.** Every statement commits on its own. A report on a wall post is
made for any post, there or not: `create_report` looks for it only when
`owner_id` is given. `FindAuthor` is `wall_author` with its fallback, which bans
the user whose id is the number of the post (`Twin`) when the query finds none
or fails. A "delete" of a report that is not about a post sets the status and
hides nothing. `done[r]` keeps what was done for a report, `shown` what a
rollback put back in sight, `missed` the posts that were not there when a report
deleted them.

**Messenger.** `find_or_create_direct` with its transaction and the keys it
wraps, including the wrap key made by `user_wrap_key_in` for an account that
has none, beside `protect_stored_pii` of a replica that starts. `Opens`, `Thread`
and `Inbox` are what `list_thread` and `list_inbox` answer with.

**Migrator.** `Plan` gives each statement the tables it needs and makes.
`holder` is the replica one of whose sessions has the advisory lock. Lock and
unlock go through the pool, so `Unlock` may reach another session and release
nothing; `CloseSession` is the pool's `max_lifetime` of 300 s. A database is
empty at first, or made by an older release.

**Social.** `get_wall_post` is taken apart into lookup, read and fill;
`state_for`, `set`, `toggle` and `notify` into their statements. Each request
is used once, so notices and comments are sets of requests.

**Accounts.** A row has one address (for e-mail and phone number), plain or
sealed for an id, with its blind index, and one privacy level (for six).
`ReadAll`, `SealUser`, `FailToSeal` and `Serve` are `protect_stored_pii`;
`read[r]` is what a start has read of rows it writes later. `LogIn` reads a row
whose old hash `WritePassword` renews.

**Session.** A challenge and a token carry the moment they were made; the moka
caches of a replica are functions from what they hold to the moment it was put
in, and `Restart` empties them. `BringSealed` begins a login of the REST API,
with a sealed password, `GrantToken` one of the VK API, with a plain one;
`VerifyToken` takes the door as a parameter, since only the REST API goes on to
look for the account.

**Gate.** `GetCounter` finds or makes the counter, `Count` counts up and
decides; time passes only when nobody is between the two, which have no `await`
in between.

**Support.** A request reads (`Ask`, `ReadTicket`) and writes in a later
statement. `copies[p]` are the answers a cached profile may give to the question
of the support ban; the two limits are read from the row.

**Inspect.** `upload` is drawn from files with every combination of kind, name,
type and parts; RIFF and FLAC files keep the sizes of their parts, images the
dimensions in the header and of the pixels, a GIF the kinds of its blocks, an
MP3 whether a tag hides its first frame and what that frame reads as. `Offset`
is where the walk over the parts has come to. `Fault` is what the upload is
refused for, with the type that `Sniff` finds; `Written` has the files that may
be written, and `ValidSize` measures what was sent and what was written. The
stored file is uploaded again and goes through all of this anew.

**Pages.** A kind of list is a record: which rows are cut, what happens when the
thing a row refers to is missing, and the queries in their order. `steady` and
`ever` follow what stood all the time and at some moment.

## Runs

| run | instance | shows | states |
|---|---|---|---|
| `wallet_mixed` | 2 users, 2 requests of any kind, 1 voucher, BIGINT = 4 | `Solvent`, `VoucherBooks`, `NoVotesFromNothing`, `OnlySenderPays`, `ImplementsLedger` (refinement), `EveryRequestEnds` (liveness) | 0.14 M |
| `wallet_alias` | 1 request | `TransferReachesNamed` is **violated** | |
| `cache_age` | 2 replicas, 2 tasks, 1 write, Ttl = Patience = 1 | `BoundedStaleness`, `UncrossedAnswerIsFresh`, `LiftsRecentBansOnly` | 2.1 M |
| `wall_ids` | 2 replicas, 2 writes, 1 guest (pavel), 1 taker of his address, 3 posts per wall, 1 stop | `SequentialIds`, `ImplementsTimeline` (refinement), `StartsServe` (liveness) | 0.55 M |
| `wall_restart` | 1 replica, 1 write | `RestartBringsBack` is **violated** | |
| `media_races` | 2 requests, 2 keys, 1 album, an old SVG or none | `OrphansOnlyFromRaces`, `RowsHaveObjects`, `AvatarServed` | 2.9 M |
| `moderation_desk` | 2 requests, 2 users, 2 posts of one of them, 1 report, 1 noSpam | `HiddenOnRecord`, `StatusTellsTruth` | 2.6 M |
| `messenger_send` | 2 tasks, 2 old accounts, 2 keys, 3 conversations | `MembersCanRead`, `ReadersArePair` | 0.40 M |
| `migrator_starts` | 2 replicas, 3 migrations of 6 statements, 2 stops | `MigratorsApart`, `RecordedIsComplete`, `NothingAfterRecord`, `StartsComeUp` (liveness) | 24 k |
| `social_requests` | 3 requests, 2 users, 2 replicas | `AnswersHold`, `NoticesAreOfNewLikes`, `LikesAreTold`, `OwnCommentsCounted` | 2.4 M |
| `accounts` | 2 accounts, 2 requests, 2 replicas, 1 stop, 3 kinds of old rows | `AddressesOpen`, `SettingsAgree`, `ReplacesWhatItKnew`, `SealingKeepsText`, `StartsSeal` (liveness) | 0.73 M |
| `requests_parts` | 2 tasks, 2 replicas, 4 moments; 2 requests against a limit of 2; 2 clients, 1 ticket; files of up to 2 parts; 4 rows, 2 changes | `OpensOnce`, `TokensLast`; `MinuteHolds`; `LateRepliesReadItOpen`, `RefusalsHold`; `StoredIsAccepted`; `ListsWhatStood`, `NumbersStood` | 0.81 M |

Each property and its meaning is in the comment above it. The runs leave out the
type invariants: those of `Wallet`, `ProfileCache`, `Migrator` and `Social` are
parts of proved invariants, those of `Wall`, `Messenger`, `Moderation`,
`Media`, `Accounts`, `Session` and `Support` are theorems.
`requests_parts` joins five modules that share no variable: the initial state
picks the one that takes steps, so no interleaving is lost and one instance asks
the questions of all of them.

Why the bounds are enough. The races of this code are between two tasks: a
check in one and a write in another. Two tasks (three for likes, where three
are needed for the one case `LikesAreTold` excepts) and one or two rows of each
kind reach each of them, and each exception a property names was seen to be
needed: without it TLC finds the case. `Amounts = {2}` with balances up to 4
makes the second debit of one balance fail, and the credit that overflows after
a redemption, and still leaves room for two redemptions of one voucher. In `cache_age` a second
write exceeds what TLC can do in minutes; the theorem `StalenessBounded` covers
any number. In `media_races` videos are left out for size: in the module they
take the same steps as audios, and with them in place of audios the run passes
as well. `migrator_starts` has the first tables of the core, an `ALTER` in the
second migration that needs one of them, and the minting of public ids.
`social_requests` gives one user all the requests and the owner a comment and a
reading on another replica. In `accounts` the second address is the first typed
in another way, so that two rows may clash, and replicas seal while requests
write. In `requests_parts` a token lives one moment, a challenge one and a
cached token two, which puts the end of each between any two steps; a page has
two rows where the code has 50, and more rows come than it holds; `MaxBytes` lets
in all but the largest WAV files and one that padding makes a byte too long.
In `moderation_desk` one post has the number of a user and one has not. In
`wall_ids` and `wall_restart` the owner of the club may take pavel's address and
give it back. `media_races`
has no key left for an upload between the listing and the end of a conversion;
with three keys and only avatars and conversions, TLC also finds the SVG whose
row stays (see `SweepSvg`).

The properties except, by name, what the code does leave open: requests that
crossed (`crossed`, `rivals`, `crowded`), requests cut off (`cut`, `torn`),
what was read before it changed (`rewritten`, `overtaken`), keys replaced
(`overwritten`), posts a rollback showed (`shown`) or that were written after the
report with their number was handled (`missed`). The exceptions are as
narrow as TLC allows, and the hazards of `PROJECT.json` say what they stand
for.

## Disagreements found

- **`wallet_alias`**: a transfer to a number that only names an account by the
  login `id<n>` takes the votes and credits nobody: the check looks the account
  up by key, the credit by id (`desk/services.rs`, `desk/repository.rs:131`).
- **`wall_restart`**: when moderation has hidden the club's seeded post,
  every start inserts number 1 again, fails on the unique index and exits; the
  restart policy does not bring the replica back, although
  `docker-compose.yml:11` says that it does.

What follows the models show as well, without a run of its own: each is an
exception that a property names, and without it TLC finds the case.

- A login or `/unban` that saw a ban that was over lifts the ban an administrator
  has set since: at a login one as old as the request, by `/unban`, which looks
  at a copy of the profile, one as old as copies get (`LiftsRecentBansOnly` has
  the bounds, which TLC finds reached).
- A deleted `pavel@openvk.local` whose address or screen name another account
  has taken keeps every start from then on from serving, until it is given up
  (`EnsureUsers`; the premise of `StartsServe`).
- A report that names no wall may name a number no post has yet: deleting it
  hides nothing, its status is "deleted", and the post written under the number
  later is in sight; banning for it may ban the user with that number
  (`StatusTellsTruth`, `Accused`).
- A rollback can be repeated, and shows what a report deleted after the noSpam
  (`StatusTellsTruth`).
- A first start that is cut off within the first migration, after `CREATE TABLE
  users`, leaves what the next start takes for a database of an older release:
  it is recorded, and the second migration fails for want of `friendships` at
  every restart (`RecordedIsComplete`, `StartsComeUp`).
- A wall whose first start was cut off between the seed's notes and the `UPDATE`
  of `wall_seq` refuses every post from then on, and no later start repairs it
  (`SequentialIds`; that it stays so is proved, `TornStayShut`).
- Two old accounts whose addresses normalise to one keep every replica from
  starting (`StartsSeal`, `db/protect.rs:147`). A start may also bring back an
  address the user changed while it sealed (`SealingKeepsText`).
- A login that renews an old hash while the password is changed brings the old
  password back (`ReplacesWhatItKnew`).
- A WAV file whose format chunk has an odd size is stored with a declared size
  that is one short, and a FLAC file with a short stream information is stored
  below the size the check asks for: what is served of them is refused as an
  upload. So is an MP3 file whose first frame has "ftyp" behind its header, once
  the tag before it is gone, and a JPEG file may be when encoding it once more
  takes it over the limit (`StoredIsAccepted`).
- The conversion of an SVG avatar leaves the row of the SVG without its object
  when a newer row was taken for the previous avatar (`RowsHaveObjects`).

## Fairness and deadlock

- `Wallet`: weak fairness of each request's statements and of the detector: the
  runtime polls every task, the database answers, Postgres looks for deadlocks
  once a second. A statement that waits for a lock is not enabled, and the
  number of requests is finite, so weak fairness is enough.
- `Wall`: strong fairness of the steps of a start, since a statement of the seed
  that waits for a row that writers take again and again is queued by Postgres
  and has its turn; weak fairness of writes. A replica that is down starts
  again by the restart policy, and `MaxStops` bounds how often it is stopped.
  `StartsServe` asks three things of the users, which no scheduling gives: the
  club's wall keeps a visible post (`ClubKept`), nobody has pavel's address or
  screen name while he has no account (`AddressKept`), and pavel does not delete
  his account again and again (`PavelStays`).
- `Migrator`: weak fairness of a replica's step (the restart policy, the
  runtime; a waiting lock has no rival that returns for ever, since a replica
  that serves does not migrate again) and of `CloseSession` (`max_lifetime`).
- `Accounts`: weak fairness of what a replica does at a start, again for the
  runtime and the restart policy; a row that goes in the middle costs one
  attempt, and accounts are not given twice.
- Everything else is safety and needs none.

Deadlock is checked where the system may not stop. It is not in `Wallet`,
`Media`, `Moderation`, `Messenger`, `Accounts` and `requests_parts` (keys,
accounts, ids, requests and moments end by their bounds) and in `Migrator` (at
rest all replicas serve).

## Proofs

TLAPS checks all of these for any number of users, replicas, requests, rows and
any bounds; the assumptions are the named ones of each module
(`WalletAssumption`, ...), which TLC evaluates in its runs. In each component
one invariant, the conjunction of named parts, is shown to hold at first and to
be kept by every action, one lemma per action; the properties follow from it.
Each of these invariants was checked by TLC on the instance of its run as well,
but for `Dated`, which ranges over all numbers.

- **Wallet** (`WalletProofs`): `TypeCorrect`, `Solvency`, `VouchersNotOverspent`,
  `SendersPay` and `VotesHaveSources` (action properties) and `Refinement`
  (`Spec => L!Spec`).
  `Solvent` is not inductive: that a debit which saw a sufficient balance may
  still commit later depends on the row being locked since. The invariant adds
  `Exclusion` (two requests never hold one row), `Shape` (which rows a request
  holds at each statement) and `Relies` (what it saw is still true while it
  holds the row; of a transfer that found no row to credit, that the id was given
  before and so has none now). With them each `Commit` is one step of `Ledger`
  that serves the request, a refusal, failure or drop declines it, and every other
  statement is a stutter.
  `DeadlocksAreOfTransfers` needs no more than `Shape` and `Exclusion`: everybody
  in a ring of waiting requests holds a row and waits for one, and what holds a
  voucher is waited for by requests that hold nothing; transfers at their credit
  are left.
  The total of all balances is the number of elements of `Votes`, the set with
  each vote as one of its owner's, so that a transfer adds to a total what it
  took from it (`RaisedVotes`) without an induction over the users.
- **ProfileCache** (`ProfileCacheProofs`): `StalenessBounded`, `LiftsAreRecent`
  and `OwnEffectAnswered`. The invariant says how old the version a task carries can
  be at each of its steps (`Carried`), from the time it has spent; a copy read
  from Redis adds Redis' own bound. That a change answers with its own effect
  needs `Effects`: until its answer, no cache the request will look at has a
  version from before its write, unless another request filled it in between or
  Redis skipped a call.
- **Migrator** (`MigratorProofs`): `Exclusion`, `RecordTrue`, `MintedOnce`. What
  is needed beside the properties: a replica has run the statements before the
  one it has come to (`RanBefore`), and the table of users is there because the
  core is complete, is being made by the replica with the lock, or was cut off
  (`WhyUsers`), which is all the adoption of old databases knows. That a
  statement of the core never fails (`CorePossible`) follows from the
  assumption that the core makes what it needs. `StartsFailForReason` says of
  every statement why it may fail, from `PlanAssumption` (each needs what
  earlier ones made) and a second invariant, `Behind`: the migrations before the
  one that a replica has come to are recorded.
- **Social** (`ContentProofs`): `ToldOfNewLikes`, `AnswersStand` (an action
  property), `CommentsAreCounted`, `StandingLikesAreTold`. The invariant follows
  a request from what it read "before": until its own write a like that it did
  not see was made since (`Freshness`), and if nobody crossed it, what it read
  still holds (`Progress`). For comments it says what each replica's cached post
  and each lookup under way counts (`Counted`). For notices, `Owings` says of
  each user what is still owed: the like of a user with two requests at most was
  told, or one of them is sure to tell it (`LikeOwed`), and what a request saw
  before it deleted leaves the same debt (`SeenOwed`).
- **Media** (`ContentProofs`): `MediaTypesHold`, `RowsNameObjects`,
  `OrphansExplained`, `AvatarsServed`. Neither direction between bucket and rows
  is inductive alone, since every upload and every deletion has a moment at
  which one of the two is gone. The invariant `Reached` says, for each call of a
  request, what is in its hands: a key that was put and has no row is with one
  request only, or is in doubt (`Drawn`, `Parted`, `Unborn`); a row whose object
  is gone is about to be deleted by a request that knows it (`Stored`,
  `Removing`); an object without a row is in the hands of one (`Named`);
  `OneGoes`, `AlbumGoes`, `AccountGoes` and `PreviousGoes` say how far the four
  kinds of deletion have come, and `Portraits` and `Portrait` where the avatar
  is while a request replaces it. `Dated` bounds the dates of rows, so that a
  newest one is there to be chosen.
- **Messenger** (`MessengerProofs`): `TypesHold`, `MembersRead`, `ReadersPaired`.
  That a committed conversation opens depends on what a transaction holds in its
  hands before it commits: `Good` says, for each statement of
  `find_or_create_direct`, which keys the task has wrapped so far and that they
  are still the users' own unless another request has replaced them
  (`overwritten`); `MessagesPlaced` says that a message is in a conversation of
  its two users, one of whom may have left.
- **Wall** (`WallProofs`): `TypesHold`, `IdsSequential`, `TimelineImplemented`
  (`Spec => T!Spec`), `NumbersAreFree`, and the action properties
  `PermalinksKept` and `TornStayShut`. Between counting up and commit the number exists only in the
  transaction: `RowLock` says that the writer of a wall is the only one past the
  count, `Writer` and `Starter` what each writer and each start has done and
  what it still owes, `OneOwes` that no two starts owe `wall_seq` of a wall, and
  `Founded` that a start that finds the first posts finds all of them. The
  unique index is what makes `Founded` inductive: it decides which of two starts
  goes on. `Blight` is a second invariant, about the walls of a start that was cut
  off: count 0, the seed's numbers given, number 1 held by a post that nobody can
  delete, and no other start that owes the count. Hence every later write there
  draws number 1 and is refused, and the numbers given are 1 up to some number on
  every wall at any moment (`NumbersGiven`). That makes a commit of a write or of
  the seed one `Publish` of `Timeline`, without an exception for such walls, and
  every other step of a write or a start a stutter. `NumbersAreFree` adds
  `Numbered`: each post has a number that its wall gave, which the next one
  drawn is not.
- **Session, Gate, Support** (`RequestsProofs`): `SessionTypesHold`,
  `ChallengesOpenOnce`, `TokensHold`; `SupportTypesHold`, `LateRepliesHold`,
  `RefusalsKept`; `MinuteMeetsTwo`, `AdmissionsCounted` and `MinuteIsBounded`.
  A challenge is opened once because it is in the cache of the replica that made it and nowhere else;
  a token's end needs that no cached verification is older than the token it
  stands for. A late reply needs that a request at its insert has read the ticket
  open or is `overtaken`. `MinuteIsBounded` counts: any minute meets at most two
  counters, since each is made when the one before it has had its minute
  (`MinuteApart`); no two admissions are the same hit of the same counter, and a
  hit that lets in is within `Limit` (`Admissions`); so those of a minute are as
  many, at most, as there are pairs of one of two counters and one of `Limit`
  hits.
- **Pages** (`RequestsProofs`): `ListsAnswerWhatStood`, `NumbersToldStood`. The
  invariant says what each query that is done has found, against what stood all
  the time and what stood at some moment (`WallsFound` to `HeartsFound`), and is
  kept by others' changes because the first of these only shrinks and the second
  only grows (`Spans`). `InOrder` says that a list reads its rows before what
  they refer to. A number tells its own row's comments because two posts of a
  wall never have one number (`AddressesApart`), and a report's list that does
  not fail has found every author.
- **Inspect** (`RequestsProofs`): `StoredComesBack`. An upload that is stored is
  written from the parts the walk found, and a file as it was written has one
  part or two, whose places follow from `Offset` without an induction; the number
  of parts of what people send is any. `InspectIInv` says, beside
  `StoredIsAccepted`, that what is stored or comes back is sniffed as the format
  it has, passes and is within the limit when written once more, or is one of the
  four excepted files, under a name and type that agree with it (`WrittenPasses`
  and `StoredNameFits` are why).
- **Moderation** (`ModerationProofs`): `ModerationTypesHold`,
  `HiddenStaysOnRecord`, `StatusIsTrue`.
  `StatusTellsTruth` needs, for each request about a report, what it has done so
  far (`Deletes`, `Bans`), that what is done stays done (`DoneGrows`), and that a
  post once out of sight comes back only as `shown` or `missed` (`OutOfSight`,
  `SightKept`).
- **Accounts** (`RequestsProofs`, which extends modules whose names do not
  meet): `AccountTypesHold`, `AddressesFound`, `SettingsHold`,
  `PasswordsReplaced`, `SealedAsRead`, `SealingFailures` (the last three action properties).
  `AddressesOpen` is not inductive in two ways: that nothing
  is in plain text when a replica begins to serve depends on what it has `left`
  (`Begun`: whatever is in plain text is before every start under way), and that
  what a start writes is what the row said depends on `TextKept`; for two starts
  at once the latter needs `SameRewrites`, that of the starts with a row before
  them either all or none count it as rewritten, and `RewrittenSealed`.
  `SettingsAgree` needs `HalfDone` (the row has what the request is about to write into the second table) and `OneUpdate` (two
  updates of one account have torn it); `ReplacesWhatItKnew` is `Verified` at
  the write. `SealingFailures` follows from `TextKept` and from `Addressed`: if
  neither the row went nor its address was changed, what the start writes is
  what the row says, and only another row with that address can refuse it.

Only model-checked is what is beyond the prover: liveness (`EveryRequestEnds`,
`StartsServe`, `StartsComeUp`, `StartsSeal`) and ENABLED. Every other property of a
passing run, invariant, action property or refinement, is a theorem. No theorem
needs an induction over data. Of these liveness properties the part that is
safety is proved: which requests a deadlock can fail, that a write finds its
number free, and for what reasons a start fails. That something goes on
happening is for TLC.

## Limits

- The seed's top-up of the demo account is one statement on one login in
  `Wallet`; deleting an account is one action there and in `Messenger` (in the
  code the rows go by one `DELETE` that cascades).
- Public ids are random; in the models they are fresh: `Wallet` gives none twice
  (`given`), and the votes of a transfer that found no row to credit are lost for
  good. An id that is used again after its row went would need a collision among
  32-bit numbers.
- `vouchers.expires_at` is always NULL in this code and is left out.
- `Wall`: id1, anna and the owner of the club keep their accounts. Pavel's
  screen name acts as his e-mail address does, and both are one `address`; a
  start that finds it taken fails at its first statement, and is "down" as
  before.
- `Media`: covers and order of an album and the download and raster of the
  default avatar are left out; the keys of a deletion are read in one step.
- `Moderation`: roles and the search's limit of 50 are left out; photo, video
  and club reports are as comment reports; how a ban is kept, seen and lifted is
  in `ProfileCache`.
- `Messenger`: privacy and friendship, which refuse before the first statement;
  texts; paging.
- `Migrator`: a statement that goes on in Postgres after its client has gone,
  and sessions that outlive their process, are left out.
- `Social`: one post of a user's own wall; likes of photos, videos and comments
  take the same steps without the cache; `mark_seen` and deletion of accounts
  are left out.
- `Accounts`: screen names, city and the texts of a profile are left out; the
  six privacy levels and the two kinds of address are written together and are
  one each.
- `Session`: what the cipher and the signature say is a fact of the request; the
  Turnstile check is its answer.
- `Inspect`: a file of the formats without sizes (MP4, WebM, Ogg, AAC) is
  sound or is not; encoding the same pixels gives the same PNG or WebP file.
- `Pages`: one list at a time, with bounded changes while it is read; the
  copies that the lists of posts leave in the cache are in `Social`.

## Not modelled

- Warnings and banned links of the desk, which no other part reads; roles.
- CSRF and origin checks, headers, identity and latency: they decide on one
  request alone and keep nothing.
- Friendships, groups, `about` and `health`: single queries; the cached friend
  ids, which age like the copies of `ProfileCache`; the list of gifts;
  attachments of posts; `mark_seen`.
- Methods of the VK API beyond tokens: another door to the services above.
- Walks through MP4, WebM, Ogg and AAC, decoding and encoding of pixels beyond
  whether they succeed and fit: functions of bytes.
- Ciphers, blind index, password hashes, signing for S3, codec, the text on
  which a collision of public ids is decided: functions of bytes and strings.
- Configuration and tracing. The socket of the messenger, which echoes.
- One start as a whole: migrations, seed, sealing and avatars follow each other
  in one task, and each module has its part with its restarts; only the order
  between the parts is left out.

`PROJECT.json` says of each component what is left out of it.

## Plan

1. *Core* (done): `Wallet` with `Ledger`, `ProfileCache`, `Wall`, `Media`,
   `Moderation`, `Messenger`, `Migrator`, `Social`; proofs of four of them.
2. *Extend* (done): `Accounts`, `Session`, `Gate`, `Support`, `Inspect`,
   `Pages`; the thread and the inbox of `Messenger`, the repeated rollback of
   `Moderation`, the conversion of avatars in `Media`.
3. *Prove* (done): `Messenger`, `Wall`, `Session`, `Support`, `Gate`,
   `Moderation`, `Accounts`, `Media`, `Pages`, and what was left of `Social` and
   `ProfileCache`.
4. *Prove further* (done): `Inspect`, for files of any number of parts; the
   refinement of `Wall` to `Timeline`; for what reasons starts fail and which
   requests meet in a deadlock.
