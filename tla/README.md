# Verification of the e-mail gateway

TLA+ models of `nest-email-gateway` (NestJS, Postgres through TypeORM, Redis through
BullMQ and pub/sub) and of its `frontend` (Next.js), checked with TLC, with theorems
about them proved with TLAPS. Paths below are relative to the repository; `gw/` stands
for `nest-email-gateway/src/` and `fe/` for `frontend/`.

## 1. The system

| Component | State it keeps | Operations | Hard parts | What makes it correct |
|---|---|---|---|---|
| Outbound mail, `gw/mail` | a BullMQ queue in Redis | `POST /mail/send` enqueues; `processSend` judges the mailbox's token and logs an event; `GET /mail/queue` | retries, stalled jobs, workers that outlive their lock, crashes, a commit whose answer is lost | an accepted send is logged or visibly given up; verdict `ok` only with a usable token; a bounded number of rows |
| Event log, `gw/events` | table `event` | `createNormalized` saves, then emits `email_event`; `list` | a crash between the two | every row is announced or a fault explains why not |
| Inbound mail, `gw/webhooks`, `gw/worker` | a second queue | webhook handler judges the token, enqueues, answers; `process` logs | `process` swallows failures; the verdict travels in the job; a provider that got no answer delivers again | answer and log agree; every row beyond the first has a failure to answer for it |
| Mailboxes and clients, `gw/mailboxes`, `gw/clients` | tables `mailbox`, `client` | create client, `saveTokens` (JSON or OAuth callback), `refreshTokenExpiry` | every statement is a transaction of its own; whole entities are saved | tokens stay in their row and expiries with their token, refresh tokens are kept; an unbound client with a mailbox, two providers of one client or two mailboxes of one key take overlapping requests |
| WebSocket gateway, `gw/ws` | a counter in Redis, `notificationCount` per instance | subscribe, connect, notify, emit | three Redis connections per instance that break and reconnect, several instances, restarts | counts are Redis's, order per publisher, the last count settles, a listening instance shows every event |
| Session, `fe/store/useAuthStore`, `fe/lib/api`, login and layout | `localStorage` twice, axios defaults, a store per tab | login, logout, reload, requests, 401 | four copies of one token, several tabs | the copies agree; an expired session ends |
| Live log, `fe/app/dashboard/logs`, `useSocket`, `LogNotificationProvider` | list, filters, unread badge, one socket | fetch, filter, navigate, receive | overlapping requests, stale closures, a socket disconnected under a listener, a date that the API and the browser read differently | the page settles on what the log holds for the date |
| Mailboxes and clients pages, `fe/app/dashboard/mailboxes`, `clients` | copies of the two tables, overlay and disabled buttons | fetch, add, connect (by way of the provider), refresh, receive | overlapping fetches, decisions by an old copy, buttons that a lost answer could leave disabled | a tab repeats what was done only when its copy is in doubt; a quiet page shows the table; nothing sticks |
| Authentication, `gw/auth` | table `user` | bootstrap and reset of the administrator, login, change password | two instances starting, a reset racing a change, a failed start that only logs | the flag belongs to the password, a reset ends a lockout, instances come up |
| Settings, health, system, filters, middleware, configuration; compose, overview and settings pages | none | reads and formatting | none | not modelled |

How they interact: controllers call services; `MailService` and `WorkerService` call
`EventsService.createNormalized`, which calls `WsGateway.emit`, as do `MailboxesService`
and `ClientsService`; the gateway publishes on Redis and every instance emits to its
browsers; the browsers answer an announcement by fetching again. The mailbox table is
written by `MailboxesService` and read by both queues. `PROJECT.json` lists every
component, and under `hazards` what is hard to test, each at its line.

## 2. Modules

| Module | Models | State and actions against the code |
|---|---|---|
| `JobQueue` | BullMQ as used by both queues (outside the repository) | operators on one job's record; a transition is one Lua script, hence atomic |
| `SendLedger` | what `POST /mail/send` promises | abstract: accepted, then done with a row, or lost; decisions are final |
| `MailSend` | `MailService`, its processor and queue, with `createNormalized` | `pc[w]` is the place of worker *w* in `processSend` between two awaits; `branch` is which of the three payloads it writes; one action per awaited call and per way it fails |
| `MailSendProofs` | theorems on `MailSend` | |
| `Inbound` | `WebhooksController`, `WorkerService` | `hook[d]` the handler of delivery *d*, `pc[w]` the worker; `Redeliver` starts a repetition |
| `InboundProofs` | theorems on `Inbound` | |
| `Mailboxes` | `MailboxesService`, its controller, `ClientsService.create` | `req[r]` holds the locals of request *r*; one action per SQL statement |
| `MailboxesProofs` | theorems on `Mailboxes` | |
| `WsGateway` | `WsGateway` on several instances | the three connections of an instance are queues: `cmds`/`replies`, `pub`/`acks`, `sub`; `phase` is how far `onModuleInit` got, and whether `redisSub` is connected; `BreakSub`, `BreakPub` and `BreakClient` are ioredis losing and renewing a connection |
| `WsGatewayProofs` | theorems on `WsGateway` | |
| `Auth` | `AuthService` on several instances | `pc[w]` is the await at which an instance (in `onModuleInit`) or a request (in `changePassword`) is; `entity[w]` is the object it saves |
| `AuthProofs` | theorems on `Auth` | |
| `Session` | sign-in state of the tabs of one browser | one action per user act, effect or interceptor |
| `SessionProofs` | theorems on `Session` | |
| `LiveLogs` | the logs page, the socket and the badge in one tab | a commit and its effects are two steps; handlers hold the page and filter of their render |
| `LiveLogsProofs` | theorems on `LiveLogs` | |
| `Dashboard` | the mailboxes and the clients page in one tab | one action per click, per answer and per handler of the API; `req[s]` is a request of the tab and what awaits it |
| `DashboardProofs` | theorems on `Dashboard` | |

`MCMailSend`, `MCInbound`, `MCMailboxes`, `MCLiveLogs` and `MCAuth` extend their module
with the values of the constants that a `.cfg` cannot write. `JobQueue` is extended by
`MailSend` and `Inbound`;
`SendLedger` is instantiated by `MailSend` with the mapping `phase[j]` = the state of the
job, `rows` = `rows`. Definitions headed *Mutated form* are the bugs with which
`PROJECT.json` tests that a property can fail; no specification uses them.

### Decisions worth knowing

- *Statements.* Nothing in the repository opens a transaction, so each `await` on a
  repository is one step. `repo.save(entity)` on an existing row is two: TypeORM loads
  the row to compare (`Reload`) and updates the columns that differ (`Write`).
- *Lost acknowledgements.* A write may commit and still reject (`SaveLosesAck`,
  `Written`, `Swallow`).
- *BullMQ.* Default `maxStalledCount` 1, concurrency 1 per process. A second stall gives
  the job up at once. A worker whose lock was lost may still run; its result is ignored,
  its rows are not. Fewer than 100 failed jobs exist, so `removeOnFail: 100` evicts none.
- *Foreign keys.* `Event.mailboxId` references a mailbox: a send for an unknown mailbox
  cannot be logged at all and fails all its attempts (`SaveViolatesForeignKey`).
  Mailbox rows are never deleted by the code.
- *Token times.* `processSend` uses `<`, the webhooks `<=`; each module has its own
  `IsExpired`.
- *Unique constraint.* `app.module.ts:51` turns `synchronize` off in production and the
  only migration creates indexes, so the table may lack
  `uq_mailbox_email_provider_client`. It is the constant `UniqueConstraint`.
- *Providers* are the normalised names, or `Blank` when none is given, which
  `POST /mailboxes/tokens` accepts. Such a request passes the 409 while the client is
  unbound, leaves a mailbox with the empty provider, and binds the client to nothing
  (`mailboxes.service.ts:99-100`), so that a later request may still bind it; if another
  request bound it meanwhile, it is unbound again. `SingleProviderUnlessRaced` therefore
  leaves mailboxes stored without a provider out, and `MailboxClientIsBound` names the
  overlap that unbinds.
- *Expiries.* `saveTokens` writes `tokenExpiresAt` with every grant, null if it came without
  `expires_in`, so a stored expiry belongs to the stored access token or to a refresh
  (`ExpiryBelongsToToken`).
- *Announcements* carry the row, but the pages fetch again on any of them: what counts is
  that one comes after the last write (`FinalStateAnnounced`), not which row came last.
- *Redis connections.* `redis.provider.ts` lets ioredis reconnect for ever
  (`retryStrategy`) and gives no command up (`maxRetriesPerRequest: null`); ioredis then
  subscribes again and sends again, in order, the commands that got no reply. So while
  `redisSub` is away an instance misses what is published (`phase` `deaf`), a `PUBLISH`
  whose reply was lost is published twice (`again`), and an `INCR` takes a second number.
  `redisClient` and `redisPub` are renewed in the step that breaks them: nothing but
  their own queue depends on how long they are away.
- *Gateway.* The branch of `emit` without `redisPub` cannot run, since `WsModule` is
  initialised before the modules that emit. `notify` is called by tests only; it is
  modelled all the same.
- *Authentication.* A hash is the password it verifies; a fresh hash of the same password
  differs in its salt, so `repo.save` always updates it, and `mustChangePassword` only if
  it differs from the row read again. `bootstrap()` in `main.ts` catches a failed start
  and only logs it, so the process stays without listening; the liveness probe of
  `k8s/app.yaml` restarts it (`Probe`). The compose files have no such probe: there a
  failed start stays failed, and `InstancesComeUp` does not apply. The environment may
  differ from start to start. A generated first password is known to nobody.
- *OAuth.* The redirect keeps no state; the callback gets e-mail and client from the
  state it signed, so the callback's free choice of both stands for it.
- *Session.* A failed login answers 200 with `success: false`, so a login never yields
  the 401 that the interceptor acts upon.
- *Repeated notifications.* A provider that got no answer delivers the notification
  again (`RepeatOf`); nothing in the handlers compares it with an earlier one, so it is a
  delivery of its own for the same mailbox.
- *Live log.* Fewer than 100 events, so `GET /events` is not truncated. Of the three
  filters the date is modelled: API and page select a provider or a client in the same
  way, but the API takes a day from midnight to midnight UTC and `filteredLogs` keeps what
  falls on the day in the browser's own time. `zone` is the browser's offset; only UTC
  itself makes the two agree.
- *Dashboard pages.* One tab; everybody else is `OthersAdd`, `OthersConnect` and
  `OthersRefresh`. The handlers of the API are one step each here, `Mailboxes` takes them
  apart. `openConnectModal` and `handleConnect` are one action, since the page fetches the
  clients once per visit and the choice cannot change in between. `ListLimit` stands for
  the 100 rows of a list. Answers come in any order, and a tab misses what is announced
  before `Handshake`. Banners, toasts and the three seconds for which a refreshed row is
  marked are left out.

## 3. What the runs show

| Run | Instance and bounds | Why enough | Shows |
|---|---|---|---|
| `send` | 1 job, 1 mailbox, 2 workers, 2 attempts, clock 0..1, 6 faults per job (732,769 states) | more faults than attempts, stalls and both saves of one attempt need together; a token before, at and after its expiry, or none. Jobs share only the mailbox, which no send writes; the proofs cover any number of them | `CompletedIsLogged`, `OkVerdictJustified`, `RepeatedRowsHaveCause`, `LossNeedsRepeatedFaults`, `AnnouncementsAccounted`, refinement of `SendLedger` with its liveness |
| `auth` | 2 instances, 1 request, 2 addresses, 4 environments, 2 usable passwords, 1 fault or restart | two instances race for the first account, and a reset meets a change between any two statements | `FlagMatchesPassword`, `ResetEndsLockout`, `InstancesComeUp` |
| `mailboxes` | 3 requests, in sequence or two at a time, 1 client, 1 address, 2 providers or none, a grant with refresh token and expiry or with neither, the unique constraint, 1 fault (3.1 million states) | two racing writers and a third that overlaps with one of them or comes before or after both, with a provider or without; `overlaps` records who ran at the same time as whom | `MailboxClientIsBound`, `TokensMatchMailbox`, `ExpiryBelongsToToken`, `FinalStateAnnounced`, `SingleProviderUnlessRaced`, `OneMailboxUnlessRaced`, `RefreshTokenKept`, `RefreshExtendsUnlessRaced` |
| `ws_gateway` | 2 instances, 2 emits, 1 browser connection, 1 fault: a restart or a Redis connection that breaks (403,813 states; the safety properties also hold with 2 faults, 3.4 million states) | one GET can be overtaken by an INCR of the same or the other instance; a connection breaks with a command unanswered, or between two events; the proofs cover any number of each | `CountsAreRedis`, `OrderPerPublisher`, `SoleNotifierCountSettles`, `EventsAreShown` (of one watched instance, all being alike) |
| `inbound` | 2 deliveries, the second a repetition of the first if that got no answer, 1 mailbox, 2 workers, clock 0..1, 2 faults per delivery (717,106 states) | a job is stalled, given to the other worker and given up, while its repetition is under way | `AnswerMatchesLog`, `RowsHaveCause`, `EventuallyLogged` |
| `session_tabs` | 2 tabs, 3 logins | a token each and one that replaces another | `CopiesAgree`, `UnauthenticatedHasCause`, `StaysSignedIn` |
| `live_logs` | 3 pages (one without `useSocket`), 2 days of 2 instants, a browser on UTC and one instant east or west of it, 2 events, 2 clicks, 1 fault | an event before and one after every click, on either side of a midnight; a date selected and left | `StaleListHasCause`, `UnreadClearedOnLogs`, `ListenerIsConnected` |
| `dashboard` | 1 domain, 1 address, 2 providers, 3 requests of the tab at a time, lists of 1 row, 2 rows per table, 3 clicks of all users, 1 fault | one domain and one address make every second row a repetition; a table can be longer than its list; a click of the tab, one of somebody else and another of the tab | `RepeatHasCause`, `QuietPageIsCurrent`, `OneRefreshPerRow`, `RefusalsAreForeign`, `NothingSticks` |

Four runs find a disagreement between the code and what is said of it:

- `queue_listing`: `listQueue` tests `finishedOn` before `failedReason`, so a job given
  up for good is listed as `completed` (`gw/mail/mail.service.ts:85`).
- `client_race`: two concurrent `saveTokens` for an unbound client leave it with a mailbox
  at each provider (`gw/mailboxes/mailboxes.service.ts:96-101`), although the service and
  the page say that only one can be connected. `SingleProviderUnlessRaced` shows, and the
  theorem `OnlyRacesSplitClients` proves, that a mailbox with a provider gets under a
  client of another one only by an overlap of requests for different providers, or for a
  provider and none. A mailbox stored without a provider needs no overlap: it stays under
  the client when a later request binds it.
- `refresh_race`: "extend token expiry" saves the whole entity and can write the tokens
  back that a concurrent `saveTokens` has just replaced (`mailboxes.service.ts:58-61`).
  `RefreshExtendsUnlessRaced` shows that only an overtaken one does.
- `session_expiry`: after a 401 the token in `auth-storage` survives and the tab goes
  round between `/login` and the dashboard (`fe/lib/api.ts:22`).

Deadlock checking is off in the `Mailboxes`, `WsGateway`, `LiveLogs`, `Dashboard` and `Auth`
configurations: there the requests, emits, clicks and restarts are finite and the system
then rests (in `Auth` with instances up and a generated password nobody can use). In
`MailSend`, `Inbound` and `Session` some step is always possible.

### Fairness

`MailSend` and `Inbound`: weak fairness of each worker's own steps (`SendStep`,
`WorkerStep`) since a running process goes on, and of `QueueStep`, since BullMQ fetches
waiting jobs, ends backoffs and looks for stalled jobs on timers of its own. Nothing is
assumed of the handler of a webhook. `WsGateway`: weak fairness of Redis executing commands
and of the instances handling replies and messages, over connections that come back because
`retryStrategy` always gives a delay; that `redisSub` is subscribed again is not assumed.
`Session`: effects run and requests are answered. `Auth`: a starting instance goes on, and
the orchestrator starts containers and acts on its liveness probe. `Dashboard`: weak
fairness of `Progress`, the socket connecting and delivering and the requests being
answered or failing. `Mailboxes` and `LiveLogs` are checked for safety only and state no
fairness. Nothing is assumed of users, of the clock, of token changes or of faults.

## 4. What is proved

All proofs hold for every value of the constants that satisfies the module's `ASSUME`:
any number of jobs, workers, requests, instances, tabs, slots, rows and faults. Every
invariant and every action property that a passing run checks is a theorem, but for
`ExpiryBelongsToToken`; what else is left to TLC is liveness. In each module an inductive invariant is shown to hold initially and
to be kept by each action (one lemma per action or per group of like actions), from which
the theorem follows with one temporal step.

| Theorem | States |
|---|---|
| `MailSendProofs`: `TypeCorrect`, `NoSilentCompletion`, `OkIsJustified`, `RepeatsAreCaused`, `LossIsEarned`, `AnnouncementsAddUp` | `TypeOK`, `CompletedIsLogged`, `OkVerdictJustified`, `RepeatedRowsHaveCause`, `LossNeedsRepeatedFaults`, `AnnouncementsAccounted` |
| `MailSendProofs`: `ImplementsLedgerSafety` | the safety part of `SendLedger` |
| `InboundProofs`: `TypeCorrect`, `AnswersMatchTheLog`, `RowsNeedCause` | `TypeOK`, `AnswerMatchesLog`, `RowsHaveCause` |
| `MailboxesProofs`: `TypeCorrect`, `LastWordIsTrue`, `RefreshTokensStay`, `RefreshesExtend` | `TypeOK`, `FinalStateAnnounced`, `RefreshTokenKept`, `RefreshExtendsUnlessRaced` |
| `MailboxesProofs`: `ClientsStayBound`, `TokensStayFiled`, `OnlyRacesSplitClients`, `OnlyRacesDuplicate` | `MailboxClientIsBound`, `TokensMatchMailbox`, `SingleProviderUnlessRaced`, `OneMailboxUnlessRaced` |
| `WsGatewayProofs`: `TypeCorrect`, `CountsComeFromRedis`, `OrderIsKept`, `SoleCountSettles` | `TypeOK`, `CountsAreRedis`, `OrderPerPublisher`, `SoleNotifierCountSettles` |
| `AuthProofs`: `TypeCorrect`, `FlagBelongsToPassword`, `ResetsEndLockouts` | `TypeOK`, `FlagMatchesPassword`, `ResetEndsLockout` |
| `SessionProofs`: `TypeCorrect`, `CopiesStayTogether`, `UnauthenticatedNeedsCause`, `SessionsStay` | `TypeOK`, `CopiesAgree`, `UnauthenticatedHasCause`, `StaysSignedIn` |
| `LiveLogsProofs`: `TypeCorrect`, `BadgeIsClear`, `ProviderStaysConnected`, `StaleListNeedsCause` | `TypeOK`, `UnreadClearedOnLogs`, `ListenerIsConnected`, `StaleListHasCause` |
| `DashboardProofs`: `TypeCorrect`, `RowsAreRefreshedOnce`, `RefusalsComeFromOthers`, `QuietPagesAreCurrent`, `RepeatsNeedDoubt` | `TypeOK`, `OneRefreshPerRow`, `RefusalsAreForeign`, `QuietPageIsCurrent`, `RepeatHasCause` |

### The arguments

`MailSendProofs`. The invariant `IInv` joins `TypeOK`, `CompletedIsLogged` and
`OkVerdictJustified` with what makes them inductive: a worker past its save has a row for
its task in the log (`SavedIsLogged`), a running worker's job was added
(`RunningIsAdded`), and a token about to be read or already read justifies the verdict to
come (`ReadIsJustified`). The step that matters for `NoSilentCompletion` is `Finish` of a
worker at `done`: it got there through `emit`, hence through a save. `OkIsJustified` needs
that time only moves forward: a token usable at `now` was usable when it was read. A step
of `MailSend` is an `Accept`, `Log`, `Done` or `Lose` of the ledger, or a stutter; `Done`
needs `SavedIsLogged`.

The three properties that count rest on `CountInv`, the accounts of each job. A worker
stands for what it may still do: one that has yet to save may write two rows (the second
from the catch block), one in the catch block one row, one at `emit` owes an announcement,
one that threw owes a failure (`Kind`). `Balanced` says that rows and rows still possible
are covered by the starts of `processSend`, and by one plus the faults; that announcements
and those owed differ from the rows by no more than the faults; and that failed attempts
of a job whose mailbox exists and its stalls each have a fault of their own. The faults
are those that struck this job (`faults[j]`). Each action moves one
worker from one account to another (`Moved`), whatever the other workers are doing.

`InboundProofs`. The verdict is settled before the job is added (`AddedIsJudged`) and what
the provider was answered is that verdict (`Answered`); a worker only runs jobs that were
added (`RunningIsAdded`), so every row copies the verdict (`RowsAreVerdicts`), however
late and by whichever worker. `RowsNeedCause` counts like `MailSend`: rows and workers
about to write are covered by how often the job was taken (`CountInv`). Stalls, lost
workers and a lost answer are each paid for by a fault of its own that struck this
delivery (`PaidInv`). Summed over a delivery and all its repetitions, each but the last
without an answer, this leaves one row and one more for each fault, however long the chain
is. Until the first fault of a delivery its log says where its worker is (`CalmInv`).

`MailboxesProofs`. `IInv` joins `TypeOK` with what each place of a request implies of its
locals and of the client it names. `ClientsStayBound` follows the client through the
request (`BoundInv`): whoever has passed the check or `bind` with a provider finds the
client bound, or a request without a provider overlapped with one that named one
(`IsBound`), because `Bind` writes `Blank` only for a request that read the client unbound.
`FinalStateAnnounced` holds because until the first failure every row was announced as it
is or some request is about to do so (`AnnounceInv`): a write that makes the last
announcement untrue is by a request that reads the row again and tells. The three theorems
about races follow what a request read and acts upon later: unless a request that overlaps
with it interfered, a client it is about to bind is still free (`BindRace`), a client it
has checked still has its provider (`CheckRace`), a key it is about to insert is still
absent (`InsertRace`). That two requests in flight are in `overlaps` (`Overlapping`) turns
an interference into the cause that the properties name. `EntityFiled` says the same of
the tokens in the entity that a request holds in memory. The two action properties rest
on `HeldInv`: an entity in memory has its request's own token in a column, or the row's,
or another request wrote the column meanwhile; and after the comparison only own or
overtaken columns are dirty. `Write` updates dirty columns only.

`WsGatewayProofs`. `CountsComeFromRedis`: its invariant `NumberInv` says of every message
and reply under way that its number is at most Redis's counter and belongs to one event.
Since a reply that was lost takes its number with it, this survives an `INCR` that is sent
twice. `OrderIsKept`: `OrderInv` lines up what an instance published, the oldest first, as
shown, in the subscriptions, on `redisPub`, and waiting for a number on `redisClient`, with
each of these queues ascending, but for messages that are published `again`; sending again
keeps the order of the commands (`CmdOrder`). `SoleCountSettles`: with one notifier *i* no
other instance has a number under way (`Foreign`), and the counter's present value can be
followed to *i*'s browsers (`Word`): if no `INCR` waits on `redisClient`, the last reply to
one carries it (`Fresh`), so that the reply of a `GET` is out of date only if that of an
`INCR` follows; if there is none, the last number on `redisPub` is it (`LastIs`); if none
is there either, the last one in the subscription, and among the unacknowledged messages
that may be sent again; and if there is none, the browsers were told it, unless the
subscription was interrupted since (`gap`).

`AuthProofs`. The invariant adds to the properties that a save works on an account that
exists and, for a reset, on the instance's own administrator (`SavesInOrder`), that only
an instance told to reset looks for one (`OnlyResetsFind`), and that what a save found to
differ still differs unless it was overtaken (`DirtyIsExact`), from which the flag follows
at `Write`. Inserts disturb nothing because they succeed only where no account was.

`SessionProofs`. `CopiesAgree` is inductive with `TypeOK`. The other two need that until a
token expires or somebody logs out the two entries of `localStorage` agree, a tab with a
token implies a session in the storage, and a tab on the dashboard has a token
(`CalmInv`): a reload then restores what the tab had.

`LiveLogsProofs`. `Handlers`: the provider's handler on the logs page goes with a clear
badge, and a commit that leaves the provider's effect alone is one of a page that uses
`useSocket`, whose own effect connects the socket again. `Listed`, for `StaleListHasCause`:
as long as no response failed or was overtaken, the last request is for the selected date,
and its answer (or the list, once it has landed) lacks no event whose announcement was
handled. That the list then errs to one side away from UTC is arithmetic on days
(`DaysApart`, `ZonesShiftDays`). The proof needs `Zones` to lie less than a day from UTC,
and `LiveLogsAssumption` says so: at a whole day the two readings of a date would share no
instant and the property would be false. Browsers are between 12 hours behind and 14
hours ahead.

`DashboardProofs`. Four invariants, each on top of the one before. `IInv` says what an
answer may be used for (`Sound`: its rows are rows of the table, only a fetch of the
mailboxes ends a refresh, no answer reaches a page that was left), that a tab away at the
provider has no connection and no disabled button (`Detached`), and `OneRefreshPerRow` for
every row (`Rows`). `CopyInv`: names, lists and answers are earlier versions of the tables
that differ only in rows added later and in clients that others have bound since
(`Past`), because the tab itself binds a client only in `Return`, which forgets all copies;
so a connection that was offered fits (`Fits`), or others bound the client. `RenewInv`:
without doubts the page shows the table, or an announcement it heeds waits, or a fetch is
out that will bring the table; an answer that is not older than the table is the table
(`PastNotOlder`), and one that is older raises a doubt. `OnceInv`: a form can be used only
when the page's copy has everything the tab has made (`ClientsPage`, `MailboxesPage`), so
a row made without doubt is new; and calls of a page that was left are either known as a
doubt to the next one or, for a connection, forgotten when the tab goes to the provider.

### Only model-checked

Liveness under fairness, which needs `ENABLED` and is outside TLAPS's reach here: the
fairness of the ledger (`ImplementsLedger`), `EventuallyLogged`, `EventsAreShown`,
`InstancesComeUp` and `NothingSticks`. The four violated properties are findings; of two
of them a theorem says how far they do hold: `OnlyRacesSplitClients` (`client_race`) and
`RefreshesExtend` (`refresh_race`).

## 5. Plan

In order of importance. Steps 1 to 9 are done.

1. `JobQueue`, `MailSend`, `SendLedger`: the send path, its refinement, first theorems.
2. `Mailboxes`: the two tables and their races, `ClientsStayBound`.
3. `WsGateway`: counts and order over Redis.
4. `Inbound`: the second queue, sharing `JobQueue`; repeated notifications.
5. `Session` and `LiveLogs`: the frontend's own concurrency; the day of the date filter.
6. `Auth`: bootstrap, reset and change of passwords on several instances.
7. `Dashboard`: the two pages that decide by copies of the tables.
8. Proofs of the type invariants and of the first safety property of each module.
9. Proofs of the other safety properties: what is counted (`MailSend`, `Inbound`), races
   and refreshing (`Mailboxes`), the last count (`WsGateway`), `Session`, the list of the
   logs page, the copies of `Dashboard`.
10. Abstract specifications of more components, with the step-by-step refinement proved as
    for `SendLedger`: a table whose operations are atomic for `Mailboxes` without overlaps,
    a publish/subscribe bus for `WsGateway`.
11. Composition of `MailSend` with `WsGateway` (an abstract event bus that both
    implement) in place of `announced`; composition of `Dashboard` with `Mailboxes`.
12. The rest of `EventsService.list` (limit, skip and cursor) as a pure function of its
    arguments against a reference definition, and the masking of `SettingsService`.

## 6. Not modelled

- *Settings.* `SettingsService` reads the environment and the mailboxes and masks secrets;
  it keeps no state. The page shows what it fetched once. The two disagree on a mailbox
  whose token has no expiry: `settings/page.tsx` shows it as expired, `mailboxes.service.ts`
  lists it as active.
- *Health and system endpoints, filters, logging, DTO validation, configuration and
  migrations* keep no state. What a migration leaves open is a constant
  (`UniqueConstraint`).
- *Compose and overview pages.* A form whose list of mailboxes is fetched once and serves as
  a menu, and a page that fetches and shows. Neither uses the socket: they are the pages of
  `LiveLogs` outside `SocketPages`.
- *Limit, skip and cursor of `GET /events`* and the CSV download: reads of a list short
  enough not to be cut.
- *Eviction of failed jobs* (`removeOnFail: 100`) needs more than a hundred of them, and
  *the unread badges of several tabs* more than the one tab of `LiveLogs`. Both are listed
  as hazards without a property in `PROJECT.json`.
- *The signature of the OAuth state, throttling, the shared secret of `POST /events`.* The
  callback is modelled from the token exchange on; `POST /events` is one of the sources of
  events in `LiveLogs`.
- *Attachments, subjects and senders* are data no property depends on.
