# The IT HelpDesk in TLA+

TLA+ modules, TLC configurations and TLAPS proofs for the ticketing backend of this
repository, and for what its browser application does with it. Paths below are relative to `src/`; `tickets.service.ts` and the like are in
`backend/src/<part>/`. `PROJECT.json` is the index: components, runs, mutants, the map from
each definition to the lines it models, findings, hazards, theorems.

    tlc -config MCTicketLifecycle.cfg MCTicketLifecycle      # a run
    tlapm TicketTrailProofs.tla                              # a proof module

## 1. Inventory

A browser talks through Nginx to one or more NestJS instances, which share PostgreSQL
(READ COMMITTED unless a transaction says otherwise) and Redis. A request is an `async`
function: it runs alone between two `await`s, and anything may happen at an `await`.
Components call one another directly, meet in tables and Redis keys, and tell one another
of changes through the in-process event emitter.

| component | state | operations | what makes it correct |
|---|---|---|---|
| ticket lifecycle (`tickets`) | rows of `tickets`, `ticket_history` | create, updateStatus (+ reopen write), assignTicket, updatePriority, delete | status, dates and history agree; no move or assignment is lost; a move is one its caller was allowed |
| SLA engine (`sla`) | `sla_configs`, `slaDueAt` / `slaStatus` of tickets, key `sla:check:lock` | config create / update / delete, recalculation, five-minute cron | lights converge; terminal tickets keep their deadline; a lock is given back by its holder only; no values of an inactive config |
| sessions (`auth`) | `refresh:<user>:<jti>`, `login:failed`, `login:locked` | login, refresh, logout, revocation listeners | one successor per token; discarded tokens stay dead; a chain stays on its device; guesses are bounded |
| users (`users`) | `users` | create / reactivate, update, delete | accounts and tokens agree; history survives |
| maintenance (`maintenance`, guard, `backup.sh`) | the flag, two locks, backup directories, the schema, a per-process cache | set mode, backup, delete backup, restore, admit a request | locks are not taken over; the source is complete; what is dropped is backed up; no stale flag admits an end user to half a database |
| attachments and comments | files, rows | upload, comment, delete, six-hourly clean-up | a row has its file; the limit per ticket holds |
| notification gateway | sockets, rooms, timers, `userSockets` | connect, disconnect, expire, evict | who hears is open, registered and timed; at most five places; a deactivated user falls silent, at the latest when the token runs out |
| notifications | rows, preferences | fan-out per event | each recipient once, one failure does not stop the rest |
| Telegram | configuration row, `polling`, generation, offset, failure counter, link codes | start, poll, handle update, save, link, send, the settings form | one live loop, with the stored token; messages go where the settings say |
| dashboard | `dashboard:stats:v2:*` | read through, invalidate | staleness bounded by the TTL; the numbers of one moment add up |
| lists and CSV export | none | two translations of the filters, the batched export | both translations agree; every ticket once |
| browser refresh (`frontend/src/lib/axios.ts`) | `isRefreshing`, `failedQueue`, the store | intercept 401, refresh, replay, log in and out | every queued request is answered; nothing is carried out twice |
| concurrency helper | an index, results | `runWithConcurrency` | every item once, at most `limit` at a time |
| master data | categories, sub-categories, locations, FAQs, self-service events | CRUD with delete-or-deactivate, filing, recommending | a referenced row is not deleted; what the figures count happened |
| pages of the browser | the query cache of a window | visit, fetch, mutate, invalidate | what a window changed is on its screen |
| audit log, guards, validation, deployment | none of interest | | not modelled (section 8) |

What is hard: values read before an `await` and relied on after it (statuses, assignees, SLA
configs, the restore flag, the account behind a token); Redis locks whose TTL runs out under
their holder; a cron that walks batches while rows move; a restore of many steps that may
fail or die at each of them; revocation by SCAN while tokens are being stored; polling loops
that outlive the settings they began with; caches filled after their invalidation, in Redis and
in the browser; queues of requests behind a refresh that may fail. Every such place is a `hazard` in `PROJECT.json`, with the properties that would catch it.

## 2. Plan

| # | module | runs | proofs |
|---|---|---|---|
| 1 | `SlaRules`, `TicketLifecycle`, abstract `TicketWorkflow` | done | types, dates, both trails, authority, refinement |
| 2 | `SlaEngine` (extends 1) | done | types, `SectionHeld`, `TerminalDeadlineKept` |
| 3 | `AuthSessions` | done | all its safety properties |
| 4 | `Maintenance` | done | all its safety properties |
| 5 | `AttachmentStore` | done | all its safety properties |
| 6 | `NotificationGateway` | done, in `Portal` | types, `HearersAccountable` |
| 7 | `NotificationFanout`, `TelegramBot` | done, in `Portal` | types, `OncePerEvent`, `NobodyLeftOut`; `BotFollowsItsSettings` |
| 7 | `TelegramOutbox`, `RefreshClient` | done, in `Portal` | types, `SettingsAndMessagesAgree`, `CarriedOutOnce` |
| 8 | `DashboardCache`, `TicketReads`, `MasterData` | done, in `Portal` | types and all their safety properties |
| 8 | `Console` | done, in `Portal` | types, `OwnChangesShown` |

Every invariant a run checks is proved. What is left of the plan: a mutual exclusion with expiring leases
as the abstract specification that the SLA lock and the two maintenance locks implement; and a session
with one live token at a time that the refresh protocol implements. The atomic ticket workflow, the
third abstract specification, is done.

## 3. What the modules model

### `SlaRules`
The traffic light, as computed in TypeScript per ticket (`StatusAt`) and in SQL per batch
(`BatchStatusAt`, with its rounded threshold). Time is minutes.

### `TicketLifecycle`
Handlers run by `Requests`. `req[r]` is the request's program counter and what it has read.
Each read that a later write relies on is a step; a transaction's writes are one step, at
its commit; an `updateMany` tests its `where` against the row as it is then, since
PostgreSQL re-evaluates it after the row lock.

| action | code |
|---|---|
| `CreateRead`, `CreateCommit`, `CreateAbort` | `create`: config read, then `createTicketWithNumber` |
| `StatusRead`, `StatusCommit`, `StatusAbort` | `updateStatus`: checks on the row read, then the conditional update and its history row |
| `ReopenReadConfig`, `ReopenWriteSla` | the SLA write after the commit, when a ticket leaves Closed |
| `AssignRead`, `AssignCheck`, `AssignCommit`, `AssignAbort` | `assignTicket` |
| `PriorityRead`, `PriorityReadConfig`, `PriorityCommit`, `PriorityAbort` | `updatePriority`, unconditional |
| `DeleteRead`, `DeleteCommit`, `DeleteAbort` | `delete`, history by cascade |
| `UpdateUser`, `DeleteUser` | `UsersService` as tickets see it: roles, `isActive`, and `transactionDelete`, which removes the user's history rows and clears assignees |

Dates are "set or not". `count[t][f]`, the number of rows ever written, orders the history
(the code orders by time) and lets properties speak of rows that were removed.
Ticket numbers, subjects, attachments and events are left out; so are sub-categories and locations,
which are only checked and copied.

### `TicketWorkflow`
What the handlers promise: a status moves along permitted transitions, one at a time, each
entered in a journal whose lines may be struck out, never altered. `TicketLifecycle`
instantiates it with `status`, `moves` and `journal` read off its tables.

### `SlaEngine`
Extends `TicketLifecycle`, so the handlers run beside it on the same tables. A `Worker` is a
cron run or a config request. The cron takes the lock, reads the clock and configs once,
walks the open tickets by id in batches, and writes three `updateMany`s per batch, in order,
by id only. `ConfigCreate` / `ConfigUpdateRead` / `ConfigUpdateWrite` are followed by the
recalculation under the same lock (skipped when it is held), then by `Clear` when the config
was deactivated. `ConfigDeleteCheck` / `ConfigDeleteWrite` look for tickets, then delete.
`LockExpires` is the TTL, at any time. `Crash` leaves the lock; `Fail` is a database error
(the lock is given back); `RedisFails` a Redis error (the lock is left to its TTL). One category: a config is found by its
priority, and a config deleted and created again is the same row.

### `AuthSessions`
Requests log in, refresh, log out, and run account changes with the revocation each awaits.
Tokens are numbered in the order they are stored. `RefreshGet` / `RefreshUser` /
`RefreshConsume` are the three awaits of `refresh`; consumption is `GetDel`, one Redis
script. Revocation is `Scan` then `Del` of what was met, until the cursor returns; pages are
taken as one page at a time. A token may be presented any time, from any device, any number
of times. `dead` is a history variable: tokens exchanged, logged out, revoked, or refused for the device or
an inactive account. A deleted account makes `findById` throw (`auth.service.ts:126-131`), so its
token is refused and its key left alone (`RefreshUser`). Counters and locks expire at any time; Redis and
database errors are not modelled here.

### `Maintenance`
Workers run `setMaintenanceMode`, `createBackup`, `deleteBackup` and `restoreBackup` one call
at a time; `cache` is the guard's memory in each instance, `guest[g]` an end user's request.
It is answered from the cache (`GuardCached`) or asks Redis (`GuardAsks`), Redis reads
(`MgetReads`), and the answer arrives later, fills the cache and decides (`GuardAnswered`).
`Exempt` is what passes whatever the flag says: `/health`, `/maintenance/*`, `/auth/*`, and a token that
does not verify, which `JwtAuthGuard` refuses next; `AdmitBlind` is a Redis that does not answer.
The schema is `whole`, `torn`, `dropped` or `importing`; an archive is what the dump saw.
A dump reads one snapshot (its locks make `DROP` wait). The drain is longer than the guard's
cache lives (5 s and 2 s), so it waits until every cache filled before it is gone; a question that
is under way for the whole drain is marked `late`, for nothing bounds how long Redis takes.
An administrator's request needs the users table, so none begins on a dropped schema.
`BackupLockExpires` and `RestoreLockExpires` under a live holder are faults: a renewal timer
has to fail for that. `held`, `lostBackup`, `lostRestore` and `overrun` are history.

### `AttachmentStore`
Files in the uploads directory (`disk`) and rows of `attachments` (`row[f]`, the ticket of file
`f`), which no transaction spans. Files are numbered in the order they are named.

| action | code |
|---|---|
| `Receive`, `CountRows`, `Save`, `Commit` | `upload` and `create` of a comment: checks, `attachment.count`, `storageService.save` per file, inserts and commit |
| `SaveFails`, `Rollback`, `Unlink`, `Answer` | their error paths: an upload removes its file whatever failed, a comment only after a failing save (`LeftBehind`) |
| `DeleteRead`, `DeleteCommit`, `DeleteAbort`, `Unlink` | `TicketsService.delete`: paths read, rows gone by cascade, files removed |
| `CleanRead`, `CleanList`, `CleanUnlink`, `CleanDone`, `CleanFails` | `cleanupOrphanedFiles`: rows, then the directory, then one unlink per file |

The transactions are SERIALIZABLE: a commit that adds rows to a ticket marks `conflict` on every
transaction that has counted the rows of that ticket and not finished, and such a transaction
cannot commit (PostgreSQL's serialization failure). `raced` and `excused` are history: the
files a clean-up could meet between their saving and their recording, and those a failure
left behind. A commit whose acknowledgement is lost is not modelled.

### `NotificationGateway`
`handleConnection` awaits the user's row between the handshake and the bookkeeping, hence
`Connect`, `ReadUser`, and `Admit` or `Refuse`. `ClientCloses` and `TimerFires` close sockets; `Switch` is what
`UsersService` commits before it emits `user.deactivated` or `user.deleted`. `Evict` is their listener:
in a gateway with a namespace `this.server` is a `Namespace`, so line 186 throws at the first id, whose timer
is cleared by then, and nobody is disconnected. `untimed`, a history variable, holds the sockets that
lost their timer so. An id that closed during its own check (`early`, a history
variable) is registered afterwards and never removed.

### `NotificationFanout`
A handler reads its audience and their preferences (`ReadAudience`), then inserts: the support
users of a new ticket through `runWithConcurrency` (`TakeItem`, `FinishItem`, at most `PoolLimit` between them), the rest
one after another. Reads and inserts fail one by one; preferences and accounts change meanwhile.

### `TelegramBot`, `TelegramOutbox`
`TelegramBot` is the incoming side: `updateConfig` and the start of the application call `startBot`, which
takes a generation and awaits the token; `loop[g]` is the polling loop of generation `g` with
its own token and offset, sharing `polling`, `failures` and `pollTimeout` with the others. Telegram
keeps messages until an offset passes them. Link codes are made, expire and are redeemed by
`handleUpdate`, in steps. `TelegramOutbox` is the outgoing side: an event resolves the settings
and the chats in separate awaits, while the settings are saved by the form of
`TelegramConfigSection.tsx` (fetch, hydrate, edit, read-merge-write, answer) and by others. The page may
be left while its PUT is under way (`LeavePage`): the PUT becomes one of `orphans`, and writes or fails
with nobody to hear of it. `Hydrate` fills a form opened again from whatever the cache has.
`estranged`, a history variable, holds the forms filled from an old answer or overtaken by a write not their own.

### `DashboardCache`
`Ask` takes the entry or a miss; `RunQuery` is one query at one moment; `StoreResult` stores what
they returned. `EditTicket` and `FileTicket` start an invalidation that deletes key by key
(`DeleteKey`); `Midnight` moves every range. `Trend` has the buckets of `date_trunc` and those of
`fillTrendGaps`.

### `TicketReads`
`PrismaMatches` and `SqlMatches` are the two translations of a filter; `SqlRefuses` is the query PostgreSQL
rejects (section 7). The access rule and the four ways attachments are counted or shown are
operators too. `BeginExport`, `ReadPage`, `WritePage` and `CloseResponse` are the streamed export, between
which `FileNext`, `DeleteTicket` and `Rate` change the table.

### `RefreshClient`
Requests of a page carry the token of the moment. A 401 starts a refresh or joins the queue;
`RefreshSucceeds` and `RefreshFails` settle the queue; logging in and out, the check of
`ProtectedRoute.tsx`, a reload, expiring tokens, a lost answer and a session that ends come at any time.

### `MasterData`
An edit is opened from a list that may be old (`OpenEdit`), decided by the service on what it
reads (`ReadEdit`: delete or deactivate), and written (`InsertRow`, `UpdateRow`, `RemoveRow`) under the
unique indexes and foreign keys of the schema. A ticket is checked and inserted in steps, and
its form records what it was shown, what solved it and that it was filed. `Deflected`, `ResolvedBy` and
`DeflectedIn` are the three queries over these records; the last counts per session and sub-category.

### `Console`
`PagesOf` and `View` list what each page mounts and offers to each role; `Mutations` what each hook
invalidates. A behaviour follows one query of one window through fetches, joined fetches,
mutations, other people's changes and the polling of the unread count.

### `Portal`
Puts these nine beside one another. They share no variable: the gateway hears of accounts and the
dashboard of tickets through events that each module has as actions of its own. All at once
would multiply their states and show nothing more, so a behaviour picks one part and the others
rest in an initial state (`AtRest`): the run's states are the sum of the parts', and each property is
checked on its part's behaviours.

## 4. Runs

| run | asks | shows | bounds |
|---|---|---|---|
| `tickets` | do status, dates, history and authority survive two racing requests and an edited account? is it the atomic workflow? | yes: `TypeOK`, `DatesMatchStatus`, `StatusTrailLinked`, `AssignmentTrailLinked`, `StatusMovesAuthorised`, `ImplementsWorkflow` | 1 ticket, 2 requests, 2 users, 5 status rows (a whole life and the reopening), 2 assignments, 1 priority change |
| `tickets_audit` | is the trail full? | no: deleting a user deletes the rows of their moves | same |
| `sla` | do the lock and the batches hold beside handlers, expiry and a fault? | yes: `SlaTypeOK`, `SectionHeld`, `TerminalDeadlineKept` | 1 ticket, 2 workers, 1 config request of 6 kinds, 1 fault |
| `sla_liveness` | do the lights come right? | yes: `LightsConverge` | 1 ticket, 5 status rows (it is closed and opened again), 2 workers, 1 config change, 1 fault, 1 tick of the clock; 385,000 states |
| `sla_stale` | are values of an inactive config gone? | no: create and reopen write a deadline read earlier | same as `sla` |
| `auth` | rotation, discarding, device binding, lock-out under races | yes: `AuthTypeOK`, `SingleSuccessor`, `DeadStayDead`, `DeviceChain`, `BoundedGuesses` | 1 user, 2 devices, 2 requests, 3 tokens, 2 passwords, limit 1 |
| `auth_revocation` | are all tokens of the old password gone after a change? | no: login and refresh store theirs after an await | limit 2 |
| `maintenance` | locks, source, backup before drop, no end user admitted by a stale flag | yes: `MaintTypeOK`, `LocksHeld`, `SourceComplete`, `DropIsBackedUp`, `QuietDuringRestore` | 2 workers, 1 instance, 1 end user's request, 3 directories, 1 fault; 3 million states |
| `attachments` | files and rows under failures and the clean-up | yes: `StoreTypeOK`, `PerTicketLimit`, `RecordedKept`, `NothingLeftByUploads`, `LeftoversRemoved` | 1 ticket, 2 requests, 1 clean-up, limit 2, comments of 1 or 2 files, 3 files, 1 fault |
| `attachments_orphans` | does the clean-up remove orphans only? | no: it reads rows before it lists the directory | no fault |
| `maintenance_off` | can the flag go off under a restore? | yes, it can: the check and the write are two calls | no fault |
| `portal` | each of the nine parts of `Portal`, by itself | see below | see below |

| part of `portal` | properties | bounds |
|---|---|---|
| gateway | `HearersAccountable`, `DeactivatedFallSilent` | 3 sockets, 1 user, 2 places, 2 switches of the account |
| fan-out | `OncePerEvent`, `EveryoneTold` | 3 users (2 support), 1 event of any kind, a pool of 1, 1 failing insert or read, 1 change of preferences or account |
| bot | `BotFollowsItsSettings`, `BotSettles` | 2 tokens (1 good), 1 save and the start, 2 chats (1 taken), 1 code, 1 message, 1 fault, 2 failures stop a loop |
| outbox | `SettingsAndMessagesAgree` | 1 form, 2 profiles, 1 group, a linkable account and the group itself linkable, 1 event, 1 save (of the form, left or not, or of another browser), 1 fault |
| dashboard | `NumbersAddUp`, `DashboardCatchesUp` | 1 ticket, 2 states, 2 priorities, 1 page, the 90-day range, midnight, 2 changes, 1 fault of Redis |
| reads | `ListsAgree`, `ExportComplete` | 4 tickets of 2 requesters, batches of 2, at most 3 rows, 1 change meanwhile |
| refresh | `RequestsSettle` | 2 requests and the logout, 2 tokens, 1 lost answer or 503 |
| master data | `MasterDataSound` | 1 category, 2 sub-categories, 1 location, 1 FAQ, 1 filing, 2 administrators, 2 edits, 1 unrecorded event |
| console | `ScreensCatchUp` | 10 queries one at a time, every role and page, 1 change, 1 fault, 1 visit |

`PortalTypeOK` is the type invariant of all nine. All of these hold; where the code lets something
through, the property names it as an exception and section 7 says what it is.

Why the bounds are enough: each hazard named above needs two actors, one object and one
fault. Two requests reach every pair of interleaved handlers; five status rows close a
ticket and open it again, after which its row is what it was when created; a refresh needs
a parent, and a fork two children (three tokens); revocation needs an old and a new
password; a restore needs a source and its own pre-restore backup, and the third directory
is one a second worker makes. One end user's request and one instance are enough for the guard, since
requests share nothing but the cache of an instance, and an instance's cache and the answer to its
question already cross the drain; `QuietCorrect` is for any number. Two racing writers need three files to pass a limit of two. In
`portal`: three sockets compete for two places, so that one is refused, and an eviction clears the timer of
one of two; two starts make a stale loop and a live one; three rows of four, in batches of two,
make a limit inside a batch; two requests are one that refreshes and one that waits; a window needs one
change and one fetch that crosses it. One save is that of the form, of a page left meanwhile, or of
another browser; two that overlap in either order only `OutboxCorrect` covers, for the run with two has more states than
it is worth. In the weekly trend the ranges of `NumbersAddUp` start on
every weekday. A fault, change or visit more repeats these on what they left. A limit of one failed login (the code has ten) makes the
lock-out reachable in a step; `BoundedGuesses` is stated for any limit. Where a bound stops
a request, TLC would call it a deadlock, so deadlock checking is off and each cfg says why.
`Requests` and `Workers` are interchangeable and never compared by order, hence the
symmetry sets; the runs with a liveness property use none.

Every property of a passing run has a mutant: a definition with a plausible bug (the `where`
without the status, a lock deleted whoever holds it, GET for GETDEL, a drop whatever became
of the backup) under which TLC finds the property violated in the same run.

## 5. Fairness

`SlaSpec`, `StoreSpec` and `PortalSpec` assume some. In `SlaSpec` a worker that has begun goes on (`WF` on `Step`): an `async`
function whose promises settle is resumed, and failing is modelled apart. Some worker takes
the lock when it is free (`WF` on `CronAcquire`): `@Cron` fires every five minutes for ever.
The lock's key disappears (`WF` on `LockExpires`): Redis enforces the TTL. Nothing is
assumed of the users' and administrators' requests, nor of faults; edits, faults and clock
readings are finite because they are bounded. In `StoreSpec` the clean-up of each instance starts
(`@Cron` every six hours) and goes on once it runs (`WF` on `CleanRead` and `CleanStep`);
nothing is assumed of requests.

In `PortalSpec`, while its part moves: a socket's timer fires (`TimerFires`, a `setTimeout`); a fan-out
handler, a save of the bot's settings and each polling loop go on (`JobStep`, `CallStep`,
`LoopStep`: their awaits have timeouts or reject, and failing is one of the steps); Redis enforces the TTL of
the dashboard's entries (`ExpireEntry`) and a request for it settles (`PageStep`); the server answers
the browser's requests (`RequestStep`, `RefreshStep`, `Serve`, `Receive`), a lost answer being an answer
too; and the unread count is refetched (`Refetch`, its `refetchInterval`). Users, edits, switches,
events, logouts and faults are assumed nothing of; they are finite because they are bounded.
`BotSettles`, `DeactivatedFallSilent` and `DashboardCatchesUp` are of the form "once ... stays so", so no
fairness of the person at the other end is needed.

## 6. Proofs

The four modules about tickets are proved for any sets of tickets, users, priorities and requests, of any size, under
`NoneAssumption` and `TableAssumption` (NULL is none of the values; tables start well typed).

- `TicketLifecycleProofs!TypeCorrect`: `Spec => []TypeOK`. `TypeOK` alone is not inductive: a commit
  copies what the request remembered, so `Typed` adds what a request holds at each program
  counter (`RequestsSound`) and that a live ticket has a priority (`RowsSound`).
- `TicketTrailProofs!DatesCorrect`, `StatusTrailCorrect`, `AssignmentTrailCorrect`: from
  `HistorySound`, which adds that row numbers never exceed the counters (a new row is the only one
  with its number: `TrailNumbered`) and that a ticket that is not there has no rows. `ChainAppend`
  and `ChainErase` say what adding the next row, or removing some user's rows, does to a chain; the
  conditional updates give `ChainAppend` its premise that the row read is still current.
- `TicketTrailProofs!StatusMovesCorrect`: an action property. Its invariant, `Authority`,
  carries what `updateStatus` checked of an end user's request until it commits: the
  requester of a ticket never changes, and the status is tested again.
- `TicketTrailProofs!Refinement`: `Spec => ImplementsWorkflow`. `CreateCommit` is `Open`, `StatusCommit`
  is `Move`, `DeleteCommit` is `Remove`, `DeleteUser` is `StrikeOut`, all else stutters.

- `SlaProofs` (under those and `EngineAssumption`: ids of tickets are positive naturals, which the batches go
  by; `None` is no worker; a batch is not empty): the invariant `SlaSound` is `Typed` of the
  lifecycle, which the engine's writes keep too, `SlaTypeOK`, `JobsSound` (what a worker has read when it is at
  a step that uses it) and `SectionHeld` itself. `BatchMax`, that a batch has a last id, is the
  well-foundedness of `Nat`, for tickets may be infinitely many. `TerminalDeadlineCorrect` is an action
  property: only `updatePriority` and the reopening write the deadline of a terminal ticket, and every
  `updateMany` of the engine looks at the status again.

- `AuthProofs` (under `AuthAssumption`: finitely many requests; a limit of at least one): `SessionsSound`
  adds to the types what a request has learnt of its token (`Learnt`), that an exchanged token is
  dead and its successor has its user and device (`ParentsDead`), and that a request
  between `GETDEL` and storing the next token is the only one with that parent (`IssuersAlone`): without it
  `SingleSuccessor` is not inductive. `BoundedGuessesCorrect` counts: `GuessesSound` bounds the failures
  so far plus the logins past the check by the limit and the number of requests.

- `MaintenanceProofs` (under `MaintenanceAssumption`: `None` is no worker, number or archive): `MaintSound` adds
  to the types and `LocksHeld` what a request relies on at each step (`JobsSound`), that directories are
  numbered as they are made and a source stays whole or is deleted (`FilesSound`), that no directory
  has two writers (`Exclusive`), that a restore without its lock is an overrun (`OverrunSound`), how far
  the pre-restore backup agrees with the schema (`BackupsSound`), and which caches and answers under way may still say
  FALSE while the flag is on (`QuietSound`): none after the drain but those marked `late`. `DropBackedCorrect` rests on there being one restore (`OnlyRestore`),
  so that nobody else touches the schema between dump and drop.

- `PortalProofs`. The gateway (under `GatewayAssumption`: a positive limit):
  `GatewaySound` ties the check, the transport, the places and the room together (`ChecksSound`,
  `PlacesSound`, `RoomSound`, `OwnersSound`, `TimersSound`), a socket of the room having a timer or having lost
  it to an eviction; `Close` and `Register` keep the places
  finite and counted. The fan-out (under `FanoutAssumption`: support users are users, and `Nobody` is none):
  `FanoutSound` says of each handler who has no notification yet, by how far it has come
  (`HandlerSound`): without it `OncePerEvent` is not inductive. `FanoutServed` is its other half: whoever was
  to be told is told, has a failing insert of their own, or is still in line, in the pool or in
  the sequential rest, and the pool never holds more than its limit. At the end nobody is in line, hence
  `NobodyLeftOut`, the safety half of `EveryoneTold`. The bot (under `BotAssumption`: bounds
  are natural, `Nil`, `Keep` and `Boot` are none of the values): `TokenSound` is that the loop of the current
  generation has the stored token or a start is on its way; it rests on generations to come having no
  loop (`LoopsSound`) and on a save that sends a token starting the bot anew (`CallsSound`).
  `LinksSound` carries from the code to the link that the chat has sent it (`Vouched`).

- The dashboard (in `PortalProofs`, under `DashboardAssumption`: names as in the schema, ranges of
  whole days that do not run backwards, finitely many tickets). What `DashboardAddsUp` says is about sums
  over finite sets, and the library's fold is a `CHOOSE` of a function that solves a
  recursion. `OneSolution`: two solutions agree on every finite set, for a smallest set on which they
  differ loses an element; `SolutionFound`: so the fold is any function that grows
  by each element's value (`GrowsBy`), if there is one. Here there is: how many tickets have
  their status, or day, among those summed so far. The trend needs besides that every day of a range is in exactly
  one bucket, for days and for weeks that begin on any weekday.

- `DeskProofs`, of the parts without a clock of their own:
  - Master data (`MasterAssumption`: sub-categories have a category, ids of different kinds differ, and the rows
    there are at first refer to one another and have names). `MasterSound` adds that what a delete has counted
    still does not refer to what it removes (`DesksSound`; the foreign key decides otherwise), that a row
    refers to rows there are (`RecordsSound`, `TicketsSound`), that what a form has picked stays picked
    (`DraftsSound`) and that a recorded filing keeps its event unless its sub-category goes (`FiledSound`).
  - Outgoing Telegram messages (`OutboxAssumption`: profiles are what the form offers). `FormsSound`: the baseline
    of a form nobody has overtaken is the settings in force, and what it is saving will be; a PUT that outlived its page
    (`OrphansStep`) overtakes every open form.
    `DispatchesSound`: a chat has been written to once as the group and once as an
    account whose turn has come. A chat may be both, since a code may be sent from a group: then it hears twice.
  - The lists and the export (`ReadsAssumption`: positive batch and limit). `ListsCorrect` compares the two
    translations of a filter, value by value. `ReadsSound` has `InOrder`, that what is written is a beginning of
    the one order of the tickets and the page its continuation, while nobody touches them; and `NoneAgain`: if
    tickets are only deleted, all that is still to come stands after all that is written except for at
    most `offset` tickets, which the next `OFFSET` passes over.
  - The browser's refresh (`RefreshAssumption`). `WaitersAwaited`: whoever waits has a refresh
    under way, as its starter or in its queue; so a request that is sent again has not been
    carried out (`OnceSettled`), the safety half of `RequestsSettle`.

- The window (in `PortalProofs`; no assumption). The table of what each page mounts and offers and what each
  hook drops is gone through by lemmas: `TicketHooks`, `UserHooks` and `OtherHooks` find the queries a hook
  changes and does not drop, `Covered` that no page shows one of these and offers that hook, except that a ticket
  may be deleted on its own page, which is left then (`OnlyOnTicket`). `WindowSound`: while what a window has of a
  query on its screen is old and there is no excuse for it, a mutation of its own is done on the server and
  will, when its answer comes, fetch the query anew or leave the page.

- `Portal`: a step is for each part a step of it or none (`PortalParts`), so each theorem about
  a part holds of `PortalSpec`, which the run checks: `PortalHearers`, `PortalOncePerEvent`, `PortalBot`,
  `PortalMasterData`, `PortalOutbox`, `PortalExport`, `PortalLists`, `PortalNumbers`, `PortalNobodyLeftOut`,
  `PortalCarriedOutOnce`, `PortalOwnChanges`, and `PortalTypeCorrect`, the types of all nine.

- `AttachmentProofs` (under `StoreAssumption`: a natural limit, `None` is no ticket; any number of
  tickets, requests, instances, files and faults): `StoreTypeCorrect`; `LimitCorrect`, from `Counted` (while
  nobody has written to what a transaction counted, there is room for what it adds) and the
  cardinality of a union; `NothingLeftCorrect`, inductive once types are; and `KeptCorrect`, from
  `Kept`: what is named is new (`Named`), what a request holds has no row (`Unrecorded`) and is
  nobody else's (`Exclusive`), what is being written is on disk or raced (`Present`), and a
  clean-up only comes upon raced files of rows (`Listed`).

The MC runs check the same formulas on the same definitions.

Only model-checked: liveness under fairness, which is outside what TLAPS does: `LightsConverge`,
`LeftoversRemoved`, `DeactivatedFallSilent`, `BotSettles`, `DashboardCatchesUp` and the
liveness halves of `EveryoneTold` (every handler finishes), `RequestsSettle` (every request is
answered) and `ScreensCatchUp` (the unread count comes right). The safety halves of these three
are proved.

## 7. Where code and documents part

1. `tickets_audit`: README.md:35 promises a full audit trail; `user.repository.ts:199` removes
   the rows a deleted user wrote.
2. `sla_stale`: `sla.service.ts:280-282` clears values so that none is stale; a ticket created across the
   deactivation keeps them.
3. `auth_revocation`: `auth.service.ts:207-209` counts on the event; a token stored after the
   SCAN outlives the password.
4. `maintenance_off`: `maintenance.service.ts:110-121` checks, then writes; a restore that
   starts between runs with the flag off.
5. `attachments_orphans`: `attachments.service.ts:46-48` removes files without a record; a file recorded
   between the query and the listing goes too.

Noticed and not run: `comments.service.ts:83-84` says that no files persist if the transaction fails, but
only a failing save is caught (87-113); `LeftBehind` models it, and the clean-up repairs it. Also:

- `ticket.repository.ts:139` compares the text columns `categoryId`, `locationId` (143) and the requester with
  `uuid[]`, which PostgreSQL refuses: with one of these filters the sort by SLA status fails, and so does
  the CSV export sorted so, which README.md:37 offers "with current filters". `SqlRefuses` is this, and
  `ListsAgree` leaves it out.
- `use-maintenance.ts:18-19` says that the 503 interceptor invalidates the mode's query and so starts
  polling again; `axios.ts:150-157` redirects administrators and does nothing else.
- `use-all-users.ts:16` asks `/users/active` for the filters of every role's ticket list; `users.controller.ts:49-53`
  refuses end users. Their list works, without that filter.
- README.md:101 says that inactive users are disconnected. `notifications.gateway.ts:186` reads `server.sockets.sockets`
  in a gateway with a namespace (25), where `server.sockets` is a map of sockets: `get` of undefined throws, after the first
  timer was cleared (181-185). A deactivated user's sockets stay; most fall silent when the token runs out, and the one
  whose timer is gone hears on while it is open. `Evict` does so, and `DeactivatedFallSilent` names that socket.
- The maintenance guard lets pass `/health`, `/maintenance/*` and `/auth/*` (`maintenance.guard.ts:94-102`) and, on protected
  routes, a token that does not verify (73-76); with a Redis that fails, everything (35-36). `QuietDuringRestore` excepts these.
- `auth.service.ts:126-131` refuses a deleted account's token without consuming it, unlike an inactive one's (132-141).
- `getSubCategoryStats` (`faq-interaction.repository.ts:104-134`) counts per session and sub-category: who resolved something under
  one sub-category, changed the select and filed counts as solved under the first. `MasterDataSound` speaks of the
  sub-category filed under.
- Two overlapping saves of the Telegram settings may lose a group id that was typed (`telegram.service.ts:229-246`), and
  the form, opened again after a save and before the refetch, shows old settings and no changes
  (`TelegramConfigSection.tsx:55-78`). The model has both; `SettingsAndMessagesAgree` promises nothing there.
- A refresh answered after a logout puts its token into the signed-out store (`axios.ts:133`), and a socket that
  closes while `handleConnection` awaits its user keeps its place for good.
- `telegram.service.ts:136-137` moves the offset before it handles the update: one whose handling throws is lost.
  Sending a valid code from another chat links the account anew (188) without a word to the first.
- `tickets.service.ts:364` keeps active SLA configs for 30 s per process, so lists may show a deadline whose
  config is gone. `sla.service.ts:79` and `155` and `maintenance.service.ts:161` and `318` check first and write
  later, as `PROJECT.json`'s hazards without a property say.

## 8. What is not modelled, and why

Whole parts: the audit log (rows that are appended next to an administrator's call and only
listed), deployment (migrations, Docker and Nginx are configuration), and the guards, pipes,
filters and interceptors, which keep no state between requests: DTO validation, CSRF, throttling, error
mapping, logging, request ids. Roles and `isActive` are guards inside the modelled handlers.

In the modelled parts: ticket numbers and their retry (only `CreateAbort` is kept), e-mail addresses,
bcrypt and JWT signatures (a password is right or wrong, a token is one that was issued), the message
stored beside the maintenance flag, the contents of archives, and `backup.sh`, which takes the
backup lock as `createBackup` does. Of notifications, marking them read and clearing them are single
statements by id and user, and `Console` has what they change on the screens. Of the bot: its
shutdown, the token of the environment, texts and answers. Of the dashboard: averages, top lists and the
tickets in need of attention, and a server and a database in different time zones. Of lists: the text
search. Of FAQs: the ranking of recommendations and the purge of old events. Of the pages:
layout, themes, texts, client-side validation and what a user sees while something loads.
