# kcli in TLA+

TLA+ specifications of kcli, a command-line client of kleinanzeigen.de: models of
the parts in which several processes, a shared database, a clock and an
unreliable remote meet, the TLC configurations that check them, and TLAPS proofs
of the results that matter most. Paths below are relative to `src/internal/`.

    tlc -workers 2 -config sync.cfg MCDMSync      # a run
    tlapm MessagingProofs.tla                     # a proof module

## 1. The system

Every kcli command is a process. It opens the SQLite database of its profile
(`state/db.go`), works, prints and ends; `dm watch` is the only long-running
one. Commands of one profile run side by side and share

* the **database**: every read-modify-write is one IMMEDIATE transaction
  (`WithTx`), so writers are serialised and wait for each other; a plain query
  is a snapshot of its own, and two queries of one function may see different
  states;
* the **OS keyring** with the session (`secret/keyring.go`), which knows no
  transactions;
* the **remote site**, also used by the user's other devices: an answer may be
  lost after a request was applied, and a request may be applied late.

There are no threads that share memory across components (a watch runs its poll
in a goroutine and waits for it). Interleavings are those of processes between
statements, transactions and requests; failures are processes that end anywhere,
requests with unknown outcomes, output that breaks, and time that passes while a
process is held up.

The released command tree is anonymous discovery (search, listings, images,
metadata). Accounts and direct messages are kept as tested internals
(`docs/architecture.md`) and are not registered as commands; they are modelled
as their code and tests define them, since they carry the program's hardest logic.

### Components

| component (code) | state it keeps | operations | what is hard | what makes it correct |
|---|---|---|---|---|
| Confirmation plans (`state/confirmation_queries.go`) | table of plans: stage, binding, deadlines, outcome | create, claim, transitions, recovery, look-ups | two claims at once; recovery beside a running command; crash in any stage | a confirmation is consumed once; no stage is left for ever; look-ups find possible deliveries |
| Confirmed messaging (`app/messaging.go`) | locals of a command; plans; remote inbox | `dm reply`, `dm start`: plan, execute, reconcile | lost answers, late application, crash between send and record, account changes | at most one create and send; a denial is true; "sent" is true |
| Website pacing (`kleinanzeigen/web_rate.go`, `web_transport.go`, `state/discovery.go`, `rate_cooldown.go`) | `rate_slots`, `rate_cooldowns` of a host | reserve a start, wait, request, redirect, record a 429 | clocks read before the statement that uses them; a 429 while others wait | starts spaced across processes; silence after a 429; bounded queue |
| DM synchronization (`dmsync/`, `app/sync.go`, `state/sync_queries.go`) | event spool, cursor head and generation, summaries, lease | poll, watch, acknowledge | crash between commit and output, several consumers, sign-out during a poll, retention | nothing unprinted is acknowledged; changes and events commit together; heads advance |
| Mobile transport (`kleinanzeigen/policy.go`, `transport.go`, `listing_media.go`) | `rate_slots`; locals of a request | reserve, send, repeat, move the next start | a delay recorded while others reserve; which operations may be repeated | one `Do` sends an unsafe operation once; a recorded delay is kept by every process |
| Account session (`app/auth.go`, `state/auth_queries.go`) | account rows, generation, keyring entries, refresh lease | login, logout, refresh, status | refresh beside logout, keyring writes that fail half-way | no session after a logout; one refresh at a time |
| Secret store (`secret/`) | keyring entries in chunks | get, set, delete | failure between chunks | a value is read whole or not at all |
| DM reads (`app/dm_read.go`, `state/dm_read_queries.go`, `kleinanzeigen/messages.go`) | summaries, message fingerprints | list, get, mark read | they change what polls compare with; a mark-read whose answer is lost | stored summaries are what was seen; success means it was read |
| Search (`app/search.go`, `search_plan.go`, `kleinanzeigen/search.go`, `web_search.go`, `web_search_parse.go`) | locals of a command, the links of a transport | look-ups, page loop | repeated pages, changing totals, limits in a page | ends; what was fetched is in the output, or the output says it was cut |
| Listings and seller index (`app/listing.go`, `app/seller.go`, `state/search_queries.go`, `listing_queries.go`, `seller_retention.go`) | rows of sellers and of their listings | index a page, a profile or a listing; prune | observations written out of order; previews beside profiles | better names stay; nobody is dropped without cause |
| Metadata cache (`kleinanzeigen/metadata.go`, `state/discovery.go`) | categories, filters, locations with their age | read, refresh | several commands refetch at once | what is served as current is |
| Image downloads (`app/listing.go`, `media/`) | files | fetch, write, install | two downloads of one name, the user, crashes | no replacement without `--overwrite`; whole images |
| Configuration (`app/config.go`) | a file | set, get, list | overlapping sets, crashes, the user's editor, a limit only on reading | what a set leaves loads, unless it has become too long |
| Profile database (`state/db.go`, `state/store.go`) | identifier, cursor generation, device | open, ask, advance | two first openings; a crash between two rows | a profile keeps its identity |
| Command line, output, parsers, platform | - | - | - | sequential and covered by unit tests; not modelled |

## 2. Modules

| module | what it is | proofs |
|---|---|---|
| `ConfirmationPlans` | the plan table, one operator per statement or transaction | |
| `Messaging` | `dm reply` and `dm start` over `ConfirmationPlans`, the account and the inbox | `MessagingProofs`, `DeliveryProofs` |
| `ConfirmedSend` | abstract: what a confirmation promises its user; `Messaging!Promise` is the refinement mapping | `DeliveryProofs` |
| `RateSlots` | the two rate tables of one host | |
| `WebPacing` | the requests of any number of website clients over `RateSlots` | `WebsiteProofs` |
| `EventSpool` | the synchronization tables of one account | |
| `DMSync` | poll, watch, acknowledgement, reads and sign-outs over `EventSpool` | `DMSyncProofs` |
| `AuthSession` | login, logout, refresh and use of the session: keyring entries, account rows, lease, token endpoint | `AuthSessionProofs` |
| `SecretStore` | one secret in chunks in the OS keyring | `SecretStoreProofs` |
| `MobilePacing` | the requests and retries of the mobile transport over `RateSlots` | `MobilePacingProofs` |
| `SearchPages` | one search: look-ups, pages, stop reasons, output | `WebsiteProofs` |
| `SellerIndex` | the commands that write the index of sellers | `WebsiteProofs` |
| `MetadataCache` | one table of cached metadata and the commands that read it | `WebsiteProofs` |
| `Downloads` | image downloads into one directory | `LocalProofs` |
| `ConfigStore` | the configuration file | `LocalProofs` |
| `ProfileOpen` | the first openings of a profile and its identity | `LocalProofs` |
| `DMReads` | `dm list`, `dm get` and `dm mark-read` beside a changing site | `LocalProofs` |
| `MCMessaging`, `MCDMSync`, `MCAuthSession` | finite instances for TLC | |
| `MCWebsite` | instance of `WebPacing`, `SearchPages`, `SellerIndex`, `MetadataCache` | `WebsiteProofs` |
| `MCLocal` | instance of `SecretStore`, `Downloads`, `ConfigStore`, `ProfileOpen`, `DMReads`, `MobilePacing` | `LocalProofs` |

`MCWebsite` and `MCLocal` check several parts in one run. The parts share no
variable (`WebPacing` and `MobilePacing`, which share `RateSlots`, are not in one
of them), so nothing is lost by looking at one at a time: the variable `part`
says which one moves, and the others stay in their initial state. Where parts do meet they are composed: a search and the
index it writes through the times at which it observes (`SellerIndex`), the plans,
the account and the inbox in `Messaging`, the spool and the reads in `DMSync`.

A process is its next step and its local variables: entries of `pc` and of
variables named for the locals in the first modules of the table, one record per
process (`calls`, `downloads`, `setters`, ...) from `MobilePacing` on. An action is one
statement, one transaction, one remote request with its answer, or one output.
`Stop`, or an action named for the end of the command, ends a process at any step:
a crash, a signal, an expired operation deadline or an error return that does
nothing more.

### Messaging

A dry run goes `identity` (messagingIdentity) → `plan_scan` (a start lists
conversations) → `plan_check` (the look-ups of createMessagingPlan) →
`plan_store`. A confirmed run goes `claim` (ClaimPlan, one transaction) →
`client` (dmClient, which reads the account again) → for a start `start_scan`,
`create`, perhaps `mark_reconcile`, `reconcile_create`, `count_first`, and
`mark_created`, `mark_send` → `send` → perhaps `reconcile` → `record`. `Open` is
state.Open, which recovers stale plans, with the command's arguments; `OpenOther`
is any other command doing so. `Login` and `Logout` are the transactions of
`state/auth_queries.go` as far as they touch plans and the account. The remote
side is `Create`, `Send` (delivered, blocked with a warning, refused, or
ambiguous: delivered, pending or lost), `Apply` (a pending send arrives late)
and `Elsewhere` (another device opens conversations and writes).

Assumed of the remote: an answer that the code classifies as definite
(externalFailureDefinite) means the request was not applied; conversations are
not deleted; a request is applied only for the account whose session signs it. A
create applied after its client gave up looks like `Elsewhere`. Texts are model
values with a normalisation function; a start's contact name and the profile are
part of its target.

`ConfirmedSend` leaves out processes, stages, requests and the clock: a
confirmation is issued, consumed once, its message delivered at most once and
never against a report that denies it, and it is closed with a report. A late
delivery is allowed only where the report says *unknown*, or *likely* (a match
found in the conversation, which may be another device's message).

### WebPacing

`reserve` is five steps: `Check` (the cooldown), `Reserve` (the transaction of
ReserveRateSlot), `Wake` (the end of the wait), `Recheck`, then `Dispatch`
(t.client.Do). The clock is read into `seen` before the statement that uses it,
as in the code, so that a held-up client works with an old time. `Answer` is a
redirect (which starts over), a 429, or any other end of the operation;
`Persist` records a 429. Left out: the in-memory pacing of a transport without a
database, response parsing, and the size limits of bodies.

### DMSync

One cycle of Poller.Run is `Identity`, `Position` (the head and startPosition),
`Acquire` (the lease), `Fetch`, `Compare` (the stored summaries and the events
of those that differ), `Commit` (CommitSyncBatch), `Read` (ReadEventsAfter, and
the release of the lease). `Emit` prints the batch, all of it or up to a point;
`Ack` is AdvanceCursorHead. A watch is one cycle after another and a poll is a
watch that stops; each chooses its options at `Position` (`--after` with any
cursor that was ever printed, `--since`, or neither).

Abstractions: the model is one account's view, so that signing in as another one
is a sign-out; a summary is its fingerprint, with all fields known
(preserveUnknownSummary then changes nothing); the inbox may change at any time, so a
scan returns any summaries of any conversations; ValidateCursor's three queries
are one step. Left out: the message events of `--open-changed`, the cycle count,
heartbeats, resync notices and back-off delays of a watch, none of which writes
the state above. The history variables `owed` (committed and not printed) and
`known` (announced, or stored on purpose without an event: `--since`, `dm list`,
`dm get`, `dm mark-read`) serve the properties only.

### AuthSession

A command goes through `authUsableSession`: `account`, `flag` (AuthAccount) and
`entries` (one keyring access each) are authReadLocal, `decide` chooses between
the session as it is, the wait for the lease (`lease`) and, under the lease, the
`refresh` and its `write`; then comes the `request` of AuthDo, once, or for a
read that is answered with 401 twice. A read is here what `AuthDo` repeats: any request that is
no create and no send, that is, a mark-read too. `reject` and `erase` are
authInvalidateSession. A login is `exchange`, `snapshot`, `write`, `store`, with
`restore` after an error; a logout is `erase`, `commit`. `Fail` is an error of
any step that has none of its own in the action, `Crash` the end of the process,
which leaves the lease behind. `Lapse` lets a lease expire, under its owner too
where `MayLapse` says so.

A token is the number of the grant it came with. Abstractions: the expiry entry
is left out and whether an access token is current is a free choice at
`decide`; hash and identifier of the account are one read; the preview of a
logout, which changes nothing, is left out; a keyring access is atomic, which
`SecretStore` justifies as far as it is true (a Get finds a value that was set,
or nothing, also while it is replaced). A keyring write that reports an error
may have been made. The token endpoint grants, rejects, or grants with a lost
answer, and may rotate the refresh token or not; it is not assumed to reject a
replaced one, the properties say that it is not asked.

The history variables: `sent` (the tokens of a command's requests), `barred`
(why a command has nothing to send: it began with no account or with a rejected
session; a completed login lifts it), `lapsed` and `mishaps` (what happened that
excuses the keyring: an expired lease, a login that put entries back, a refresh
whose answer or whose writing was lost). A logout lifts `barred` of commands that
began with a rejected session. It
has to: four actors can make such a command send. One refreshes, a second one is
rejected and sets the row, a third begins and reads the account before a logout
deletes the rows and the row of the rejection after it; it then uses the entries
that the refresh writes last. The properties say nothing of this case.

### SecretStore

`Begin` is the call of Set, or of Delete (no value); `count` is oldChunkCount,
`chunk`, `undo`, `base`, `surplus` the steps of Set, `delete` that of Delete,
`clear` deleteChunks. `Get` reads the base entry and `Gather` the chunks. Each
step is one access to the keyring, which may fail; `Stop` ends the process. A
value is the sequence of its parts, and a manifest is represented by its value,
since digests do not collide. `settled` is the value of the last operation that
succeeded without another one beside it, `untidy` says that an operation failed,
overlapped or was cut off.

### MobilePacing

A caller runs `Do` (or `OpenMedia`, which asks once): `ready` → reserve →
`sleep` → send → `wait` → perhaps `move` (MoveRateSlot) → `pause` → `ready`. The
class is a read, with three attempts, or anything else, with one. `seen` is the
clock as it was read, `recorded` the latest delay that a retry of any process had recorded
(`recordedUntil`) when the start was reserved. The `Retry-After` of a final answer, that of the last attempt or of
anything but a read, is not recorded: `Do` returns first (policy.go:120-122). A `Retry-After` beyond `LongestDelay` stands for a number of seconds
whose multiplication overflows: the delay is negative, the slot is not moved and
the read is repeated at once. `Call_End` is every return, and a crash.

### SearchPages

`StartSearch` → `ResolveReferences` → `BuildQuery` → pages → `done` or `failed`.
What a page holds is chosen when it is fetched, so that listings move between
pages while the search runs. `FetchJSON` is a page of the JSON transport, whose
continuation may be any page, none, or not reported; `FetchForm`, `FetchLinked` and
`FetchKnownEnd` are the website transport, which only reaches what it has seen a
link to (`webPages`). `TakePage` is the body of the loop with the output. The
operators above it (`Scanned`, `NewIds`, `StopReason`, `NextOfOutput`) are its
parts in the order of the code. A listing is its id; the order of the output,
prices and texts are left out.

### SellerIndex

A writer is a search (any number of pages stamped with the time at which it
started), a seller's inventory page, a listing's detail or a public profile
(fetched, stamped, written). Each write prunes in its transaction: what is older
than the retention, seen from the observation that is written, and all but the
newest. A name is represented by the source that gave it. The commands that only
read the index are left out.

### MetadataCache

`ask`, then the cache, or `wait` and `store`. `metaTable` says which of the three
tables a behaviour is about: they have different times to live, an empty list of
filters leaves no rows, an empty list of locations leaves a row, and an empty list
of categories is an error. `said` is when the site said it, `at` the observed_at stored with it.
A request takes at most `FetchTime`, since the transport's requests have a timeout.

### Downloads, ConfigStore, ProfileOpen

`Downloads` follows `writeAtomic`: inspect, create, write, sync, install, and the deferred
removal of the temporary name, which may fail without anybody's knowing (`left`). `linked` is the installation by a link, on a
file system without a no-replace rename. `PowerLoss` cuts what was not synced; a
rename may then be lost with its directory entry, which leaves what was there
before and is covered by not installing. `ConfigStore` follows Set and save in the same way,
without a lock between loading and replacing, beside an editor. Whether `Load` accepts a file follows from the file:
whether it decodes, whether its values are accepted (`Wrong` stands for any that is not), and how long it is, counted in
settings: `others` are further settings of the user's, and each setting is one unit of a
compact text and two of the indented text that `save` writes. `ProfileOpen`
follows `ensureProfileUUID` statement by statement; `AskUuid`, `NextGeneration` and
`InstallId` are what opened commands do with the rows.

### DMReads

`dm list` fetches a page and stores its conversations one by one; `dm get` reads
the row, opens the conversation, which may mark it read whether or not it is
answered, and merges; `dm mark-read` sends one request and, if the answer leaves it
open, looks through up to `ReconcilePages` pages. The site's pages are any
conversations, in any order, for the list moves; a conversation may come without a
usable `unread` (`Unsaid`), which the parser takes for read. A request that was
given up may be applied late. `wasRead` and `omitted` are histories for the property.

## 3. What the runs check

| run | instance | properties |
|---|---|---|
| `start` | 2 processes, 1 plan, 1 listing, 1 conversation, 1 foreign act | `AtMostOneAttempt`, `DenialIsTrue`, `KeepsPromise` (refinement of `ConfirmedSend`) |
| `inbox` | 1 process, 1 plan, 2 texts equal up to white space, 2 foreign acts, time 0..2 | `SentIsTrue`, `ReconciledHasWitness`, `NothingStaysInFlight` (liveness) |
| `cross` | 1 process, 2 plans, replies and starts, 2 accounts, 2 logins or logouts, 1 foreign act | `PossibleDeliveryIsFound`, `DeliveredAsConfirmed`, `DuplicateIsAcknowledged` |
| `website` | `WebPacing`: 2 clients, 2 requests each operation, time 0..4; `SearchPages`: 4 listings (1 excluded), pages of 2; `SellerIndex`: 2 commands, 3 sellers, an index of 2; `MetadataCache`: 2 commands, time 0..4 | `WebsiteTypeOK`, `RequestsArePaced`, `SilenceIsKept`, `QueueIsBounded`, `FetchedIsReturned`, `CompleteMeansExhausted`, `PagesAreBounded`, `ServedIsRecent`, `PreferredNamesStay`, `DroppedForCause` |
| `sync` | 2 pollers, 1 conversation, 2 summaries, 2 events, time 0..1, 1 sign-out | `AcknowledgedWasPrinted`, `ComparedIsKnown`, `SignedOutIsEmpty`, `HeadOnlyAdvances` |
| `session` | 2 commands of any kind, 2 grants, 2 attempts at the lease, which may lapse | `SignedOutIsSilent`, `RefresherHoldsLease`, `RefreshTokenFirst`, `TokensArePresentedOnce`, `RepeatsAreSafe` |
| `endings` | 2 commands, reads and logouts | `CommandsEnd` (liveness) |
| `local` | `SecretStore`: 2 processes, values of 1, 2 and 3 parts; `Downloads`: 2 commands, 2 images; `ConfigStore`: 2 commands, 2 settings; `ProfileOpen`: 2 openings, 2 sign-ins; `DMReads`: 1 command, 2 conversations; `MobilePacing`: 2 callers, time 0..4 | `LocalTypeOK`, `ReadsAreWhole`, `SettledIsReadable`, `NothingIsLeftOver`, `InstalledAreWhole`, `ConfigLoadsIfShort`, `ConfirmedReadWasRead`, `RecordedDelayIsKept`, `UnsafeIsSentOnce`, `NothingIsReplaced`, `SettledProfileStays` |
| `account_switch` | 2 accounts | violation of `ActsForBoundAccount` |
| `profile_identity` | 2 first openings | violation of `UuidIsStable` |
| `retention` | 1 poller | violation of `AtLeastOnce` |
| `leftover` | 2 commands, reads and logouts | violation of `LogoutClears` |

In words:

* `AtMostOneAttempt`: whatever commands run, crash and are run again, at most one
  create and one send are attempted for a confirmation. `DenialIsTrue`: a
  confirmation that was not executed, or is reported as failed or blocked, has
  delivered nothing and never will. `SentIsTrue`: "sent" means delivered.
  `ReconciledHasWitness`: "sent_reconciled" rests on a message of that text in that
  conversation or listing, since shortly before the plan existed.
  `DeliveredAsConfirmed`: what goes out is the confirmed text, to the confirmed
  target, from the confirmed account. `PossibleDeliveryIsFound` and
  `DuplicateIsAcknowledged`: a message that may have gone out blocks its
  repetition until the user acknowledges it, also when a `dm start` sent it and a
  `dm reply` would repeat it. `NothingStaysInFlight`: no crash leaves a plan executing.
* `RequestsArePaced`: every request, a redirected one too, has a start of its own
  that is `Spacing` from every other of any process, and is not sent before it.
  `SilenceIsKept`: after a recorded 429 only a client past its last check sends
  before its time is over. `QueueIsBounded`: reserved starts never reach further
  ahead than the limit and one slot.
* `AcknowledgedWasPrinted`: the head does not pass an event that is in the spool
  and that nobody printed. `ComparedIsKnown`: what the next poll compares with
  was announced, or stored on purpose without an announcement, since the last
  sign-out; a stored change without its event would never be announced.
  `SignedOutIsEmpty`: no poll under way brings a head or events back after a
  sign-out. `HeadOnlyAdvances`: acknowledgements in any order do not move the
  head back. They hold although the lease may expire under its owner (in `sync`
  it lasts one tick): the lease keeps pollers from working twice, the
  transaction's checks keep the tables right.

* `SignedOutIsSilent`: a command that begins signed out makes no request unless a
  login is completed while it runs, whatever a refresh writes back into the keyring.
  `RefresherHoldsLease`: until it expires, the lease is that of the command that
  refreshes. `TokensArePresentedOnce`: commands that find the token expired or
  rejected at once do not present a replaced refresh token. `RefreshTokenFirst`: a
  refresh that stops half-way never leaves a new access token beside a replaced
  refresh token. `RepeatsAreSafe`: a send is made once, any other request at most twice, with two
  tokens. `CommandsEnd`: nobody waits for ever for a lease.
* `ReadsAreWhole`: parts of different values are never joined. `SettledIsReadable`:
  an operation that ran alone and succeeded is what is found, whatever crashed
  before it. `NothingIsLeftOver`: no part of an old value stays while operations succeed.
* `FetchedIsReturned`: a listing that a page showed is in the output unless the user
  excluded it, or the output says that it was cut and names no next page to step
  over the rest. `CompleteMeansExhausted`: a complete output without a next page
  is the end of the results. `PagesAreBounded`: the loop ends however the site
  numbers and repeats its pages.
* `PreferredNamesStay`: no preview, however late it is written, replaces the name of a listing or a
  profile. `DroppedForCause`: a seller leaves the index only when a command writes what it saw,
  and either that command's time is more than the retention after the seller was last seen, or the index it leaves is full of sellers
  last seen no earlier. Only of a seller that the command itself sees is the last time the command's own, be it an
  earlier one; what other commands are under way excuses nothing.
* `ServedIsRecent`: what the cache serves as current was said by the site less
  than the time to live and one request ago, however fetches overlap.
* `RecordedDelayIsKept`: a repeated request has a start of its own like any other, after every delay
  that a retry of any process had recorded for the host. `UnsafeIsSentOnce`: within one `Do` only reads are
  repeated. (`AuthDo` runs a second `Do`, after a 401 and for anything but a create or a send; that is `RepeatsAreSafe`.)
* `NothingIsReplaced`, `InstalledAreWhole`: see section 1; an image is whole after
  a loss of power too, and a command that ended left no temporary file that it could remove. `ConfigLoadsIfShort`: what
  a set left decodes and holds accepted values, after a crash or a loss of power too; `Load` refuses it only if its
  settings, indented, exceed the limit, which `save` does not test.
* `SettledProfileStays`: once the commands that found no identifier are over, no
  later command changes it or takes the generation back, whatever they left behind.
* `ConfirmedReadWasRead`: `dm mark-read` reports success only if each conversation
  was read at the site since the request, except where a page did not say.

Each property has a mutant in `PROJECT.json`, a plausible bug of the code under
which its run finds it violated.

### Bounds

* Processes: two interact in every pair of steps; the claims, slots, leases and
  heads they compete for are decided pairwise. `inbox` and `cross`
  use one process because their questions are about the remote and the account,
  which act as further actors. The proofs cover any number.
* `MaxTime` with deadlines of one or two ticks: every deadline, window, cooldown,
  lease and retention can pass, and be missed, between any two steps. `Retention`
  is 0 ticks, so that an event is old as soon as a tick has passed.
* `MaxElsewhere`, `MaxLogins`, `MaxGenerations`: enough for a change before,
  during and after a command. `MaxSeq` = 2 with `Limit` = 1: a batch that the
  limit cuts off. Retention by number (`MaxEvents`) is not reached with it.
* `MaxRequests` = 2: one redirect.
* `MaxGrants` = 2, one of which a profile may begin with: a refresh of a session,
  after a login or beside one. `MaxTries` = 2 stands for 100: a lease found taken,
  and found taken too often. `MaxParts` = 3, with values of
  one, two and three parts of which two begin alike: longer over shorter, shorter
  over longer, and chunks that fit another value.
* `SearchPages`: `Limits` of 1 and 3 with pages of `MaxRows` = 2 cut inside a page and at its
  end; `ScanBound` = 3 is reached by the 4 listings; `FirstPages` 0, 1 and 2 with
  `LastPage` = 2 cover a start in the middle, one past the end and a link to the page that the
  transport refuses; `Totals` = 2 with `PageSize` = 1 ends a search by its total.
  `PagedLimit` stands for 100.
* `SellerIndex`: `SellerMaximum` = 2 of 3 sellers and `SellerRetention` = 1 of
  `MaxIndexTime` = 2 ticks: both reasons to prune; `MaxSightings` = 1 seller per page,
  since each row of a page is written alike.
* `MetadataCache`: `CategoryTTL` = 2, `LocationTTL` = 1, `FetchTime` = 1 within
  `MaxMetaTime` = 4: expiry, a refetch and a second one that began before it.
* `Downloads`: `ImageCount` = 2, a second image after the first was installed.
  `ConfigStore` has two settings, one accepted value besides none, and a wrong one; with `MaxOthers` = 1 and
  `ConfigLimit` = 4 the user's compact file of three settings loads, and the indented one that a set makes of it does not. `MaxUuids` = 3,
  `MaxGeneration` = 2: an identifier replaced twice, a generation taken back.
* `DMReads`: `PageRows` = 1, `ListLimits` 1 and 2, `ScanLimit` = 2 (for 500) and
  `ReconcilePages` = 2 (for 5) with 2 conversations: full, short, repeated and
  empty pages. One command (`ReadCommands`), since commands meet only through the stored rows and
  the site, whose other readers and writers are actions of their own.
* `MobilePacing`: `MobileQueueLimit` = 1, `ReadAttempts` = 2 (for 3), `Backoff` = 0 (a repetition
  at once, the hardest case), `AskedDelays` 2 and 9, of which the second overflows (`LongestDelay` = 5).

Symmetry is used only where no liveness property is checked, on sets whose
members no definition tells apart (confirmations, processes, clients, callers,
writers, lease owners; the two summaries differ in their unread state, and exchanging them
keeps every comparison).

Processes may stop and time ends at its bound, but `Open`, `Begin` and
`Identity` stay enabled, so that deadlock is checked in the runs of `Messaging`,
`DMSync`, `MCWebsite` and `MCLocal`, whose commands may always begin again. In those of `AuthSession` each command
runs once, and nothing is left to do when all have ended; `CommandsEnd` shows that they do.

### Fairness

`UsedSpec` (run `inbox`) assumes `WF(Tick)`, time passes, and `WF(OpenOther)`,
the user keeps running kcli commands, each of which opens the database and
thereby recovers stale plans (`state/db.go:73`). Nothing is assumed of a command
that was started: it may stop for ever in any step.

`RunningSpec` (run `endings`) assumes `WF(Step(c))` of each command: a process
that was started is scheduled until it ends. It may fail or crash at any step,
and a lease whose owner is gone need not expire. Keyring accesses, statements and
requests are taken to return: `state/db.go` sets a busy timeout and the transport a
request timeout; a keyring that asks the user something is assumed to be answered.

## 4. What is proved

For every value of the constants, under the named assumptions of the modules
(`TimesAssumption`, `NullsAssumption`, `MessagingAssumption`, `SpacingAssumption`,
`PacingAssumption`, `SpoolAssumption`, `SyncAssumption`, `SessionAssumption`,
`StoreAssumption`, `MobileAssumption`, `DownloadAssumption`, `ConfigAssumption`, `ProfileAssumption`,
`SearchAssumption`, `IndexAssumption`, `MetadataAssumption`, `ReadsAssumption`:
times are natural numbers, null values differ from real ones, a listing has an
image, and what a database or a page holds is finite: the conversations and
fingerprints of `DMSync`, the conversations of `DMReads`, the settings of `ConfigStore`, the listings of a search,
the sellers of the index). The proofs about parts that share a composition share a module.

| theorem | statement |
|---|---|
| `MessagingProofs!TypeCorrect` | `Spec => []TypeOK` |
| `MessagingProofs!SingleAttempt` | `Spec => []AtMostOneAttempt` |
| `MessagingProofs!DenialsHold` | `Spec => []DenialIsTrue` |
| `DeliveryProofs!SentHolds` | `Spec => []SentIsTrue` |
| `DeliveryProofs!PromiseKept` | `Spec => KeepsPromise`, the refinement of `ConfirmedSend` |
| `DeliveryProofs!ConfirmedIsDelivered` | `Spec => []DeliveredAsConfirmed` |
| `DeliveryProofs!PossibleIsFound` | `Spec => []PossibleDeliveryIsFound` |
| `DeliveryProofs!ReconciledRests` | `Spec => []ReconciledHasWitness` |
| `DeliveryProofs!RepeatsAreAcknowledged` | `Spec => DuplicateIsAcknowledged` |
| `WebsiteProofs!TypeCorrect` | `Spec => []TypeOK` |
| `WebsiteProofs!Paced` | `Spec => []RequestsArePaced` |
| `WebsiteProofs!Silenced` | `Spec => []SilenceIsKept` |
| `WebsiteProofs!BoundedQueue` | `Spec => []QueueIsBounded` |
| `WebsiteProofs!SearchTypeCorrect` | `SearchSpec => []SearchTypeOK` |
| `WebsiteProofs!NothingIsSteppedOver` | `SearchSpec => []FetchedIsReturned` |
| `WebsiteProofs!CompleteIsExhausted` | `SearchSpec => []CompleteMeansExhausted` |
| `WebsiteProofs!BoundedPages` | `SearchSpec => []PagesAreBounded` |
| `WebsiteProofs!NamesOutrankPreviews` | `IndexSpec => PreferredNamesStay` |
| `WebsiteProofs!SellersAreDroppedForCause` | `IndexSpec => DroppedForCause` |
| `WebsiteProofs!RecentlyServed` | `MetaSpec => []ServedIsRecent` |
| `WebsiteProofs!PartsKeepTheirSpecs` | `WebsiteSpec => Spec /\ SearchSpec /\ IndexSpec /\ MetaSpec` |
| `WebsiteProofs!WebsiteTypeCorrect` | `WebsiteSpec => []WebsiteTypeOK` |
| `DMSyncProofs!TypeCorrect` | `Spec => []TypeOK` |
| `DMSyncProofs!AcknowledgementsFollowOutput` | `Spec => []AcknowledgedWasPrinted` |
| `DMSyncProofs!ChangesAreAnnounced` | `Spec => []ComparedIsKnown` |
| `DMSyncProofs!SignOutIsFinal` | `Spec => []SignedOutIsEmpty` |
| `DMSyncProofs!HeadAdvances` | `Spec => HeadOnlyAdvances` |
| `AuthSessionProofs!TypeCorrect` | `Spec => []TypeOK` |
| `AuthSessionProofs!LeaseHeld` | `Spec => []RefresherHoldsLease` |
| `AuthSessionProofs!SafeRepeats` | `Spec => []RepeatsAreSafe` |
| `AuthSessionProofs!SignedOutSilent` | `Spec => []SignedOutIsSilent` |
| `AuthSessionProofs!KeyringStaysCurrent` | `Spec => []RefreshTokenFirst` |
| `AuthSessionProofs!PresentedOnce` | `Spec => []TokensArePresentedOnce` |
| `SecretStoreProofs!TypeCorrect` | `Spec => []TypeOK` |
| `SecretStoreProofs!WholeReads` | `Spec => []ReadsAreWhole` |
| `SecretStoreProofs!SettledReadable` | `Spec => []SettledIsReadable` |
| `SecretStoreProofs!LeavesNothing` | `Spec => []NothingIsLeftOver` |
| `MobilePacingProofs!MobileTypeCorrect` | `MobileSpec => []MobileTypeOK` |
| `MobilePacingProofs!OnceOnly` | `MobileSpec => []UnsafeIsSentOnce` |
| `MobilePacingProofs!DelayKept` | `MobileSpec => []RecordedDelayIsKept` |
| `LocalProofs!ImagesAreWhole` | `DownloadSpec => []InstalledAreWhole` |
| `LocalProofs!NothingElseIsReplaced` | `DownloadSpec => NothingIsReplaced` |
| `LocalProofs!ShortConfigLoads` | `ConfigSpec => []ConfigLoadsIfShort` |
| `LocalProofs!IdentityStays` | `ProfileSpec => SettledProfileStays` |
| `LocalProofs!ReportedReadWasRead` | `ReadsSpec => []ConfirmedReadWasRead` |
| `LocalProofs!PartsKeepTheirSpecs` | `LocalSpec =>` the specification of each of its six parts |
| `LocalProofs!LocalTypeCorrect` | `LocalSpec => []LocalTypeOK` |

**Messaging.** `Typed` adds `ControlFits` to the types: a confirmed command has
a confirmation, and only a start creates. `AtMostOneAttempt` is not inductive: a
second worker in front of its send would break it. `Execution` rules it out: a
plan has one worker (`OneWorker`), because a claim needs stage `planned`, a
plan that is worked on or was attempted has left it (`WorkIsClaimed`,
`AttemptsAreClaimed`), and no stage ever goes back to it; and a worker that still
has its create or its send before it has not made it (`StepsComeOnce`).
`DenialIsTrue` needs `Denying` on top: a message needs a send
(`OutgoingWasSent`), a worker about to record a denial has nothing outgoing
(`DenialsToRecord`), and a denied plan has no worker left that could send
(`DeniedIsOver`). Recovery beside a running worker is the interesting case: it
may take the plan away, so that the worker's later marks find another stage, and
it writes *unknown*, never a denial.

**Delivery.** `DeliveryProofs` adds what joins a row, the work on it and the messages it
sent. `Sound` is what the refinement rests on: with `Execution` and `Denying`,
`Honest` says that who is about to record `sent` has a message delivered, and that a
confirmation has at most one message, delivered or on its way, so a late delivery
cannot make it two. `PromiseKept` then goes row by row: a step changes at most one row, in one
of six ways (`Stored` to `Recorded`, by `GivenUp` and `Forgotten` for the others), and each
is a step of `ConfirmedSend` for that confirmation while the rest stutter.

`DeliveredAsConfirmed` needs `Bound`: the row, the command's copy of it, the client's account,
the conversation it uses and the message on its way have the same bindings
(`RowBound`, `WorkBound`, `ClientBound`, `ConvBound`, `MessagesBound`). The critical conjunct is
`AccountBound`: a living plan is of the signed-in account or of one no command
acts for, because signing in as another deletes plans in the same transaction. It is
what makes the second, uncompared reading of the account harmless (section 5).
`PossibleDeliveryIsFound` needs `Locating`: the conversation to which a message went
is the target of its row or is recorded in it before the send
(`RowLocates`), and recovery keeps it. `Find` looks for the latest row with a
least tie-break; that both exist (`LatestExists`, `LeastExists`) is from the well-foundedness of the
natural numbers. `ReconciledHasWitness` needs `Witnessed`: a message that was counted stays,
and a count that was made before the send is not used after it (`CountedOnce`).
`DuplicateIsAcknowledged` needs `Cleared`: between the look and the insert
a known attempt can only be deleted (`KnownStay`), and who reaches the insert was
let through by an acknowledgement of one that repeats it.

**WebPacing.** `Pacing`: starts that were used or may still be used lie `Spacing`
apart and `Spacing` before the next free one, and a client past its wait is not
early. `Silence`: the row remembers every recorded 429 because it only grows,
and no client's clock runs ahead. `Queueing`: the limit is tested against the
time that was read, which is not later than now.

**SearchPages.** `SearchInv`. `Accounted`: what was returned is what was seen less
the exclusions, and all that a page showed was seen unless it was cut; the first of
several equal rows of a page is the one that counts as new, which is an appeal to the least number of a set
(`ShownIsSeen`). A page is cut only by the listing that fills the output, and the output is
then marked (`CutIsFull`). `Counted`: each fetch saw a new listing or was counted, and two in
a row without one end the search; that gives the bound on the fetches for any numbering.

**SellerIndex.** `NamesGiven` is all the inductive invariant adds to the types: a name
marked as preferred is that of its source. `DroppedForCause` rests on lemmas about the
retention: its order has no ties (`NewerIsOrder`), so counting the newer rows of
each seller ranks them injectively below their number (`Ranking`), and exactly the maximum
lies below the maximum (`FirstOfRanking`, with the cardinality theorems of the library);
whoever is recent and dropped was therefore dropped from a full index of sellers no older
(`DroppedFromFull`). A step that writes determines its writer's rows before the pruning (`WritesPut`): for every writer and page that
explain the step, what a dropped seller's row had become is the writer's time if it saw the seller, and what it was
otherwise, which gives the cause (`DropHasCause`).

**MetadataCache.** `MetaInv` dates entries: no entry is younger than the clock or
was said by the site more than one request before its time (`Dated`), in the cache and in the hands of
readers alike.

**DMSync.** `Typed` adds to the types that a silent change is to a summary that
was fetched. `AcknowledgedWasPrinted` alone says nothing of a poller that is
about to acknowledge; `Printing` adds what makes its acknowledgement safe.
Sequences only grow (`SequencesArePast`), so what is new lies above every cursor
in use. Everybody prints in order from a start below which all is printed, so
what lies below a printed event is printed too (`PrintedInOrder`), and each cursor
from which a poll may start, the beginning, the head or a printed event, is such
a start (`StartsArePrinted`; a first poll inserts a head at 0, `FirstStartsAtZero`).
A batch that the limit cuts off leaves out nothing above its start
(`BatchesAreWhole`): an event below its last one has at most as many
predecessors, which is where the finiteness of the spool is used. The lease does
not occur in the argument. `ComparedIsKnown` needs `Comparing`: a poll of the
current generation found each fetched summary known, or announces it
(`ScansAreKnown`), and known summaries are forgotten only by a sign-out, after
which its generation is past (`GenerationsArePast`). `SignedOutIsEmpty` needs
`Leaving`: a scan needs a session, so a poll that can still commit in the current
generation runs while its account is signed in (`ScansAreSignedIn`).

**AuthSession.** `Typed` adds `ControlFits` to the types: loop indices stay within
the three entries, only a login exchanges and stores, who writes or requests has
an access token. `RefresherHoldsLease` is inductive by itself; `LeaseMoves` gathers
what a step may do to the lease. `RepeatsAreSafe` needs `TokensKnown`, every access
token in the keyring and in a command was granted, so that the next grant differs
from the rejected one, and `Asking`: a command that may still request has made
one request only if it was rejected, with the rejected token, and then goes on
only with another one. `SignedOutIsSilent` needs `Quiet`: as long as a command is
barred, the rows that barred it are there (`RowsMove`), so that it does not pass
both `account` and `flag`. The contents of the keyring do not occur in that
argument, which is why a refresh beside a logout cannot revive a session.

`RefreshTokenFirst` and `TokensArePresentedOnce` are about the keyring, and share the
invariant `Rotation`. Its parts hold under different histories: always, who refreshes or
writes new tokens holds the lease unless it lapsed (`Leases`); while nothing but a loss has gone wrong, no access
token in the keyring, or about to be written, is of a grant that replaced the refresh token
beside it (`Rotating`), for which the order of the two writes is used twice, once for each half of a pair
that a crash leaves; while nothing has gone wrong, a refresh token that was
replaced is in the keyring only until its refresher has written the next one
(`Presenting`), and whoever has it in hand under the lease (`InHand`) read it after the last one
was written. Each step is first reduced to one of nine shapes (`Rotates`), or it undoes a login, so that the
conjuncts are proved once per shape and not once per action.

**SecretStore.** `IInv` says of each process what it has done so far: `Fits` bounds
its indices; `Alone` says that a process that runs alone is the only writer, so
what it has written is what is stored; `Achieves` and `Leaves` say, step by step,
which chunks hold its value and which may still hold an old one. Reads need only that the base entry is
a value that was set, because a Get compares what it gathered with it.

**MobilePacing.** `UnsafeIsSentOnce` needs `Repeating`: whoever does not wait for
an answer has an attempt left, which the tests before a pause (`MayRepeat`)
establish. `RecordedDelayIsKept` relates starts reserved by different callers at
different times; what joins them is the row of the host. `BeforeRow` says that every
delay recorded, every start used and every start still slept for lies before
`next_start_ms`, which never moves back because a delay is recorded as the later of
two instants (`MoveSlot`): with a plain assignment a short delay would undo a long one.

**Downloads.** `TemporaryRight` says what the temporary file holds at each stage;
a file that is installed was synced (`OnDisk`), so a loss of power cuts only what
nobody has installed. A temporary file outlives its command only if the command was killed or a removal failed
(`left`). `NothingIsReplaced` looks at the directory in the step of the
installation itself: what the look at it had shown does not occur in the argument.

**ConfigStore and ProfileOpen.** `SetterRight` is the same for the configuration:
indented and of accepted values from the load (`Sound`, for `Load` has checked all of them but the new one, and `Set` that one), whole from the write, on the disk from the sync, and then the
name of the file (`ConfigRight`). What decodes, is sound and is still refused can only be too long. `SettledProfileStays` holds because only a command that found no
identifier stores one or resets the generation, and `Settled` is closed: the
identifier is there, so no later command finds none.

**DMReads.** `RightFor` says what a mark-read may rely on at each stage. The history
`wasRead` contains all that is read now as long as the command waits; the request, if applied,
made all of its conversations read; and the reconciliation only counts a
conversation that was not shown as unread, so that it was read when the page was made, or the page
did not say (`NotShownUnread`). A conversation read and unread again in between does not
disturb this: the history only grows.

**Compositions.** `WebsiteSpec` and `LocalSpec` imply the specification of each part
(`PartsKeepTheirSpecs`): a step of one part leaves the variables of the others as they are. All
theorems about the parts therefore hold in what the runs `website` and `local` check.

Each run also evaluates the assumptions of the modules it extends.

**Only model-checked**: the liveness properties `NothingStaysInFlight` and
`CommandsEnd`, because the prover does not reason about ENABLED, which fairness is defined
by. Every invariant and every action property that a passing run checks is a
theorem. Induction over data is out of the prover's reach as well; where a
minimum, a maximum or a count was needed, the proofs cite the library's theorems on
well-founded orders and finite sets, which need no operator as parameter; nothing here uses RECURSIVE.

## 5. Where code and words differ

* `account_switch`: a confirmed command reads the signed-in account twice, for the
  claim and for the client, and does not compare; after an account change in
  between it acts as an account that the confirmation is not bound to.
  `DeliveredAsConfirmed` still holds: the new account cannot write to the old
  one's conversations, and the account change deleted the plan, of which the
  property then says nothing.
* `profile_identity`: `ProfileUUID` is documented as the stable identifier of a
  profile (`state/confirmation_queries.go:85`); the first Open looks for it and
  writes it in two statements, so that a second one that runs beside it replaces what the first command was
  told. `SettledProfileStays` shows that this is over when the commands that found no
  identifier have ended. What they may leave is a profile without a cursor
  generation (a crash between the two rows), which no later Open repairs:
  `NextGeneration` is then never possible: sign-outs, polls and sign-ins as another account fail. A first
  sign-in does not read the generation (`state/auth_queries.go:71`) and works.
* `retention`: deliveries are called at least once (`app/sync.go:57`,
  `cli/dm_sync_cmd.go:44`); events older than seven days are removed whether
  printed or not, within the poll that would have printed them, and the head passes them.

* `leftover`: a logout reports that it cleared the local session, and its test that
  no secret remains; a refresh that is under way writes its new tokens after it.
  `SignedOutIsSilent` shows that nobody uses them, and the next login overwrites them.
* Seen and not run: `docs/v0.1-scope.md` says that *requests* are paced by 2.5 seconds; the
  code paces reserved starts (`RequestsArePaced`), and a process held up after
  its wait sends next to the following one.
* Seen and not run: `Load` refuses a configuration of more than 1 MiB (`app/config.go:52`), `save` has no limit
  and indents: a `config set` on an accepted file can leave one that no later command loads. `ConfigStore` reaches such
  files, and `ConfigLoadsIfShort` says that nothing else makes a set's file unloadable.
* Seen and not run: the `Retry-After` of a final 429 or 503 is not recorded (`kleinanzeigen/policy.go:120-122`), so that
  the next request to the host may start within the delay that was asked for.
* Seen and not run: the state machine that dry runs print (`app/messaging.go:491`)
  leaves out edges that the code takes, e.g. `executing_create -> outcome_unknown` in recovery.

## 6. What is left

`PROJECT.json` lists every component and hazard. Left to model or to prove, in
the order of what it would add:

1. The message events of `dm watch --open-changed` and its message fingerprints.
2. Stronger theorems on what is there: for `DMSync`, that an event is announced by the first poll
   that completes after a change; for `SearchPages`, an abstract specification of a
   search that both transports implement.

### Not modelled

* The parsers of listings and of stored JSON (`kleinanzeigen/listing_parse.go`,
  `decode.go`): pure functions on text, tested with fixtures; a finite model would
  tell apart nothing that matters to the state around them. The parsers of search
  pages and metadata occur as the outcomes their callers distinguish.
* The commands that only read the seller index, `config get` and `list`, `auth status`
  without a check: they print one query each and keep nothing.
* The command line, the catalog of operations, schemas and output: no state between
  commands. Platform directories, version strings, scripts: no behaviour of the program's own.
* The migrations of the schema: run by a library, one transaction each.
