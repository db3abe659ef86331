# agendIA in TLA+

agendIA books appointments for small businesses in two ways: the business works in
a web panel, and its customers write to a WhatsApp number that an agent answers.
This directory holds TLA+ models of the parts of the repository whose
correctness depends on the order in which things happen, the TLC runs that check
them on small instances, and TLAPS proofs of what matters most for every size of
instance. `PROJECT.json` lists components, runs, hazards, findings and theorems,
and maps each definition to the lines it models.

Contents

1. The system and its components
2. The modules
3. Messaging: the message pipeline
4. Connection: who may speak for a number
5. Operations: appointment writes under a key
6. Appointments: the calendar lock
7. Agenda: quotes a customer confirms
8. Panel: screens, sessions and late answers
9. Clients: one undecided creation per browser
10. Summaries: what the agent is told
11. Accounts and Throttle: who is let in, and what a deletion leaves
12. The runs
13. The proofs
14. Where code and documents disagree
15. What is not modelled
16. Plan

## 1. The system and its components

Four processes share one PostgreSQL database:

| process | what it does |
|---|---|
| `apps/web` | the panel (Next); it calls the API and keeps undecided writes in sessionStorage |
| `apps/api` | Fastify; every write is one transaction of `TenantUnitOfWork` |
| `apps/message-worker` | pg-boss jobs: the agent session that answers a message, conversation summaries |
| `apps/whatsapp-manager` | sockets (Baileys), ingestion, the ai.generate outbox, sending; any number may run |

They interact through rows only: outbox rows, job rows, leases, session advisory
locks, transaction advisory locks and row locks. Nothing but the database is common to
two processes, and each may stop between any two of its transactions.

| component | state it keeps | operations | what is hard | what makes it correct |
|---|---|---|---|---|
| message pipeline (`repositories/messaging.ts`, `reply-pacing.ts`, manager `inbound`, `outbound`, `ai-outbox`, worker `ai-job.ts`) | conversations, messages, inbox_events, ai.generate outbox, pg-boss jobs, outbound_commands | route, ingest, publish, generate, claim, send, close | four kinds of process, at-least-once jobs, two locks with different lives, takeovers with a send in flight | one provider call per reply; nothing stale is sent; the history tells what was delivered; no deadline without a message; a pending message is resolved |
| connection (`connection.ts`, `repositories/whatsapp.ts`, `routes/whatsapp.ts`) | whatsapp_connections, link codes, auth records, link commands, the manager's `active` map | request, claim, take over, admit, connect, apply events, acknowledge, release, restore | lost advisory locks, lapsed claims, events of fenced-off sockets, crashes between any two steps | one socket, only the owner changes the row, credentials survive a replay, a link and a session come back |
| appointment operations (`unit-of-work.ts`, `turnos-screen.tsx`, `api-client.ts`) | appointment_operation_receipts; sessionStorage intents; what the screen shows | mutate, recover, cancel, read | lost answers, requests that arrive after they were given up, stale reads | once per key; an intent is not forgotten in doubt; the screen edits what is current |
| appointments, calendar, catalog (`repositories/appointments.ts`, `business-calendar.ts`, `catalog.ts`, `domain/appointments`) | appointments, business_calendars, closures, services, resources | book, change, finish, edit hours, closures, resources, services | check-then-write between users; edits of what an offer was computed from | no double booking; upcoming appointments keep hours, resource and service; saved as agreed; what is over stays |
| agenda dialogue (`agent/adapters/agenda.ts`, `whatsapp-agenda.ts`) | the dialogue, its quote and acceptance | prepare, present, accept, collect names, book, change, cancel | a yes to a quote that was replaced, edited, not delivered or already saved | what is saved was delivered as it is saved, accepted for that reply, and saved once |
| agent session (`agent/runtime.ts`, `tools.ts`, `response.ts`) | rounds, tool results | converse | calls of tools in any order, strict final response | one staged action; nothing after it; it ends with a reply, in silence or with nothing |
| panel screens (`shell/live-panel.tsx`, `features/*`, `api-client.ts`) | what is shown and by whose session it was read, requests in flight, the mutation token | load, write, read back, refresh, link, log out | the cookie is shared by tabs, the panel's state is not; answers come late or not at all | no mixture of sessions, no write in a foreign session, nothing shown disappears, nobody waits for ever |
| clients screen (`clients-screen.tsx`) | a journal in localStorage, the list | search, create, change, check | an unknown outcome shared by all tabs | no second creation in doubt; lists do not go back |
| summaries and context (`ai-job.ts`, `repositories/messaging.ts`, `agent/context.ts`) | conversation_summaries, conversation-summary jobs | plan, take, save; compose | summaries computed outside of any transaction, by handlers that lose their lock or their job; planned over what is still pending | a summary tells all it covers; the agent is told everything once |
| identity, sessions, registration (`routes/auth.ts`, `repositories/identity.ts`, `registration.ts`, `0004_registration.sql`) | pending_registrations, businesses, auth_identities, web_sessions | register, approve, reject, provision, log in, log out | decisions, submissions and logins that read before they lock | decided once, as reported; no e-mail both pending and in use |
| login throttle (`admit_login`) | login_throttle_global, login_throttle_accounts | admit | rows for accounts that do not exist, a purge in batches | a bounded table, one row per account |
| administration and deletion (`administration.ts`, `0007_private_business_purge.sql`) | businesses, every table of a business | suspend, reactivate, delete | writes, jobs and logins in flight during a purge | the purged tables stay empty, nobody enters, and the audit, which is kept, ends with the deletion |
| audit chain (`repositories/events.ts`) | audit rows with a hash chain | append | concurrent appends | one chain |
| Baileys auth store | encrypted records with versions | load, save, wipe | writes of an old socket | no mix of old and new credentials |
| forms and wording, HTTP contracts, AI adapter | - | - | presentation, schemas, HTTP calls | - |

All rows down to the deletion are modelled here. `PROJECT.json` gives each component's status.

## 2. The modules

| module | lines of the system | role |
|---|---|---|
| `Delivery` | `domain/messaging/outbound-delivery.ts` | abstract: the delivery table and one provider call per reply |
| `Messaging` | the message pipeline | detailed; implements `Delivery` |
| `MessagingProofs` | | theorems about `Messaging` and `Summaries` |
| `Connection` | the connection's life cycle | |
| `ConnectionProofs` | | theorems about `Connection` |
| `Operations` | panel intents and API receipts | |
| `OperationsProofs` | | theorems about `Operations` |
| `Appointments` | agenda, calendar and catalog under the calendar lock | |
| `AppointmentsProofs` | | theorems about `Appointments` |
| `Agenda` | the customer's dialogue and the agent's tool session | |
| `AgendaProofs` | | theorems about `Agenda` |
| `Panel` | seven screens of the panel, the session cookie, the mutation token, the routes they call | |
| `PanelProofs` | | theorems about `Panel` |
| `Clients` | the clients screen in several tabs | checked from `MCOperations` |
| `ClientsProofs` | | theorems about `Clients` |
| `Summaries` | the summaries of a conversation and the context of an answer | checked from `MCConversation` |
| `Accounts` | registrations, logins, status, writes and deletion of businesses | checked from `MCPanel` |
| `AccountsProofs` | | theorems about `Accounts` and `Throttle` |
| `Throttle` | the login throttle | checked from `MCPanel` |
| `MC*` | | TLC instances: symmetry sets and concrete constant values |

The detailed modules are separate because the code separates them: they
share no variable except the owner of a connection, the business status and the
fact that a write is executed or a reply delivered. `Messaging` has the part of `Connection` that fences a sender
(the advisory lock, the ownership token, the manager's `active` entry), and `Operations`
treats what `Appointments` does as "completes, is refused, or fails". `Agenda` sees of
`Messaging` only what becomes of each message and reply, and of `Appointments` only that slots
and terms change under it. `MCOperations` is the sum of `Operations` and `Clients`, the two
screens that keep evidence of an undecided write in the browser: a behaviour is one of either. `MCConversation`
is the sum of `Messaging` and `Summaries`, the two queues a conversation feeds: a summary changes nothing but what the agent is told,
so it is modelled over a conversation of its own, in which what `Messaging` does in many steps is what becomes of a turn. `MCPanel` is
the sum of `Panel`, `Accounts` and `Throttle`: what a session shows, and who is let into one.

Each action is one transaction, or one step between two transactions, of the
code. Where a transaction reads, decides and writes without a lock on what it
read, it is split into actions so that other transactions get between. Where
the code holds a row lock or an advisory lock from the read to the commit it is
one action, or the lock is a variable. A definition named like one that precedes
it plus a suffix (`RetireClaimed` next to `Retire`) is a plausible bug of the code used to check
that a property can fail; no behaviour uses it.

## 3. Messaging: the message pipeline

One conversation. State: the conversation's row (`sequence`, `nextSequence`,
`latestInbound`, `replyDueAt`, `lastReplyAt`, `lastExchangeAt`), the inbound messages'
`processing_state` (`message`), `inbox_events` (`seen`), events between routing and
ingestion (`routed`), ai.generate rows (`outbox`) and publications in flight
(`publishing`), pg-boss jobs (`job`), worker slots (`worker`), the two locks an agent session
holds (`aiLock`, the session advisory lock; `conversationLock`, the row lock of the open
transaction), outbound rows (`outbound`), dispatches in progress (`flight`), the
connection's ownership, and a history of provider calls (`sends`).

| action | code |
|---|---|
| `Route`, `IngestIgnored`, `IngestCustomer`, `IngestManual` | `PostgresInboundHandler.handle`, `ingestInbound`: two transactions; deduplication, echo test, retirement of unclaimed replies, deadline |
| `ClaimAiOutbox`, `PublishJob`, `CompleteAiOutbox`, `ReleaseAiOutbox` | `AiOutboxDispatcher.dispatchBatch` and its SQL functions |
| `FetchJob`, `AcquireAiLock`, `BeginSession`, `CommitReply`, `CommitSilent`, `FailSession`, `FinishJob`, `ExpireJob` | `PostgresAiJobProcessor.process`, `withAgentSession`, `saveGenerated`, `saveSilentCompletion`; pg-boss delivery |
| `ClaimOutbound`, `InvokeProvider`, `FinishOutbound` | `claim_owned_outbound`, `dispatchNext`, `admitBusinessSend`, `finishOutbound` |
| `TakeOver`, `Attach`, `CloseLease`, `LoseAdvisoryLock`, `ManagerCrash`, `WorkerCrash` | `takeOverWhatsApp`, the lease, and failures |

A reply is named by the message it answers, because
`outbound_commands.source_message_id` is unique. pg-boss and the phone are external: a job is fetched, completed,
expired and retried up to its limit; an echo may arrive any time after the call.

Time is a tick counter with the code's comparisons; `InitialDelay`,
`ActiveDelay`, `InactivityReset`, `ClaimTtl` and `RetryDelay` are in ticks.

`Delivery` is the domain package's transition table plus one promise, that
the provider is called at most once and only for a claimed command. Under the mapping, a reply is `pending` until
its message is ingested and `processing` until it is generated. `ImplementsDelivery` is checked by TLC and proved.

## 4. Connection: who may speak for a number

One connection row, link commands, and attempts: calls of
`PostgresWhatsAppManager.start` with their claim, token, socket and unapplied events. An
attempt goes `claimed` -> `reserving` (advisory lock) -> `locked` (`takeOverWhatsApp` and
`admitWhatsAppLink` in one transaction) -> `checking` -> `connecting` -> `connected` -> `active` ->
`releasing`. Socket events are emitted and applied separately and in any order, as the
gateway's handlers are not serialised. Disturbances: crash, lost advisory lock,
failed connect, transient close, logout, corrupt credentials, a claim that lapses under a slow
attempt, stop, suspension.

Ownership tokens and claim tokens are random in the code; here a new one is any
member of a small set that nothing refers to. This keeps the state finite
without counting takeovers, and makes tokens interchangeable.

## 5. Operations: appointment writes under a key

Both ends of one protocol. The panel draws a key, stores an intent in sessionStorage, sends the write,
and forgets the intent only on a terminal receipt or on its own answer. The API
takes an advisory lock on the key, replays a receipt it finds, otherwise does
the work in a savepoint and commits effect and receipt together; a
cancellation writes a `cancelled` receipt under the same lock, which fences off a
request that has not arrived.

State: `receipts`, `effects` (how many times a key's write was done), API
transactions (`exec`), requests and answers on the network, the panel's `stored`
(sessionStorage), `held` (memory), `ready` (scope loaded), `mutation`,
`asking`, `unfresh` (appointments whose current state must be read again), and what the screen shows
(`selected`, `detail` as the number of the panel's own writes it includes) with the
reads under way. A call the panel gave up is still on its way, only unheard.

Two actions stand for reads: the API serves one (`ServeDetail`, `ServeCurrent`), the panel installs it
later (`InstallDetail`, `InstallCurrent`), so a read may be older than a write that came
between. Faults: a dropped call, a repeated request, an unexpected error, a storage
that refuses, a disabled screen, a reloaded page.

## 6. Appointments: the calendar lock

Every writing transaction of the agenda, the calendar and the catalog first takes the business's calendar lock, then
reads the clock, then reads and decides, and writes at its commit. `Submit`
is the user acting on an offer or a screen, at any earlier time; `Acquire`, `Decide` and the `Commit...` actions are the
transaction; `Abandon` is a refusal, a no-op or a rollback at any point. Time may pass
between any two of them, and the lock is the only isolation.

Hours and closures are sets of time units; `Lead` is the hour of `isNewStartAllowed`. The agreed terms are
service, resource, start and duration: duration stands for the price and the
labels that are saved the same way. `agreed` is a history variable: the terms the user
confirmed last.

Two deliberate choices. The exclusion constraint on appointments, which the
migrations keep for raw writers, is left out: were the model to include it,
`NoDoubleBooking` would hold whatever the lock did. And a service or resource that is suspended does not end
bookings, as in the code: only deletion is guarded, so `FutureIsHonoured` says "not
deleted", not "active".

## 7. Agenda: quotes a customer confirms

One customer, the messages he sends, and the reply to each. A session answers the latest pending
message in one transaction that holds the locks of the conversation, the dialogue and the
calendar, so while it lasts only the clock moves (`SlotPasses`). State: what messages say as
far as guards tell (`text`: a name, a plain yes, something else, or a sender that is not
verified), the fate of each message and reply (`turn`), the core of the quote each reply
presents (`presented`), the calendar and the price as the customer's offers depend on them
(`passed`, `closed`, `terms`), his appointments, clients and whose phone it is (`appts`,
`clients`, `holder`), the `dialogue` row, the `session` in progress, and which
presentations were saved (`spent`, a history).

| action | code |
|---|---|
| `Receive`, `Deliver` | ingestion and delivery, seen from the dialogue |
| `SlotPasses`, `EditsCalendar`, `EditsAppointment`, `EditsClients` | time; the panel, between sessions |
| `Open`, `Natural`, `Retained` | `beginAgentSession`: what the session may take as an acceptance |
| `PrepareBooking`, `PrepareChange`, `InvalidPreparation`, `ClearPending`, `Refused` | the preparing tools and their refusals |
| `ConfirmQuote`, `FinishAccepted`, `ConfirmNaturally`, `CollectNames` | the four ways from a quote to a staged action |
| `ChangeState` | cancelling, notes |
| `Commit`, `Silent`, `Rollback` | the end of a session: reply, quote that it presents, dialogue and appointment in one commit |

The tools are called in any order, which is what a language model may do; no promise here
depends on what it writes. The calls of a session are bounded by the code (16); the run has 2.

What "delivered" means. A quote counts as delivered when its reply is `sent` at the moment the
next message is processed, not at the moment that message was written. A "sí" the customer wrote
before the quote reached him still confirms it, and the model has it so.

## 8. Panel: screens, sessions and late answers

One open panel in one tab. `mode` says which of seven screens it is: the administrator's, services,
resources, the calendar, the profile, the agent and WhatsApp. What a screen shows comes in two
parts (`main`, `side`), because two requests fill it: services and categories, resources and
services, businesses and registrations, the weekly schedule and the closures, the connection and its QR;
the profile and the agent have one. A part is the set of writes it reflects and the session it was
read in, which is enough to tell old from new and one's own from another's.

The cookie (`now`) belongs to the browser: another tab may log in (`OtherLogin`), the session may end
(`SessionEnds`). The mutation token (`stored`) belongs to the tab. A request carries the cookie and
the token of the moment it is sent, and the server admits a write only if they are of one
session. A job is an asynchronous function of the component (`load`, `act` for a write or a
refresh, `closures`, `logout`): a record of what its closure captured, the step it waits in, and
the answers that came. The guards after each `await` (`attempt`, generation, `owner`, `isCurrent`,
`alive`) are those of the code, screen by screen.

| actions | code |
|---|---|
| `Load`, `Retry`, `Reload`, `LoadSession`, `LoadRead`, `LoadVerify`, `LoadQr` | the panel's load effect |
| `Submit...`, `...Written`, `...Saved` | a screen's write and what it does with the answer |
| `...Refreshed`, `ReadsBack`, `OwnerAnswered`, `AdminVerified` | reading back, and the checks of the session around it |
| `StartLink`, `LinkAnswered`, `Monitored`, `LinkExpires` | linking WhatsApp |
| `Logout`, `LoggedOut`, `Leave` | leaving |
| `Serve`, `ServeWrite`, `ServeLogout`, `NeverServed` | the API's routes, its session and token checks, and a lost request |

Four things the code does that a reader might not expect. They are neither documented otherwise
nor tested, so they are no findings; the properties leave them out by name.

* The services check the session before a write, and when the tab has no token that check fetches one
  (`api-client.ts:311`) but returns the session it had read before. A login in another tab between the two makes
  the token, and so the write, the other session's. `WritesWhereRead` is about writes whose check did not
  fetch a token (`seen = 0`), and not about the administrator's.
* "Recargar configuración" clicked in the agent's panel while a logout is under way starts a load whose answer
  `isCurrent` drops; if the logout then fails, the panel stays at "loading". `NobodyWaitsInVain` leaves
  the agent out of its last part.
* In WhatsApp a load's late QR may replace a newer one of the monitor. `NothingDisappears` leaves the QR out.
* The other screens accept answers of the session that is current when they come: after another tab's login,
  parts of two businesses can stand beside each other. Only the services promise otherwise (`ServicesOfOwner`).

## 9. Clients: one undecided creation per browser

The clients screen writes a client it is about to create into localStorage, sends the request, and
erases the note only on an answer or when a check finds the client in the list. The note is shared by
the tabs of one identity: a tab that opens under a note, or meets one when it is about to write its own, is `fenced`
until a check or an answer clears it. State: the server's
`registry`, the `note`, the `tabs` (what a tab shows, its marks and its requests: a listing, a write, a
check), the `writes`, and a budget of `faults` for lost answers, refusals and a storage that
throws. A write may be executed after its answer was given up for lost.

The look at the note, its writing and its reading back (`clients-screen.tsx:227-230`) are one step, `SaveNew`. They are synchronous, so
nothing of the same tab comes between them, but whether two tabs may interleave there is the browser's storage: the Web's
specifications do not promise a lock, and a browser that runs tabs in several processes may give none. `DoubtIsKept` is stated for a storage
that serialises these three calls; where it does not, two tabs may both find no note and write their own, and the reading back
stops only a tab whose note was replaced before it read.

Two limits of the code show in the statement of `DoubtIsKept`. The note is the draft, so the same client typed twice is one note
(`clients-screen.tsx:44`): the property speaks of creations that are `Alone` with their draft. And a check that finds
a client which somebody else created, with the same data, clears the note although the own request may still be on
its way; the user is told by then, and the phone's uniqueness refuses the second one.

## 10. Summaries: what the agent is told

The turns of a conversation by sequence, and of each what the context depends on: who wrote it (`turns`), whether it ends a
group of messages (`closes`: claimed, completed in silence, or a text of the business), which message is pending (`latest`) and which replies
are on their way (`sending`). Then `rows` (conversation_summaries), `jobs` (the conversation-summary queue), `handling` (what a worker has read and is
summarising), `lock` (the session advisory lock).

| action | code |
|---|---|
| `Inbound`, `BusinessText`, `Claim`, `NoAnswer`, `Acknowledge`, `Undelivered` | `ingestInbound`, `claim_owned_outbound`, `saveSilentCompletion`, `finishOutbound`, as far as turns and groups go |
| `Plan` | `planSummary` before an answer, and `boss.send` |
| `Take`, `Stale`, `Save`, `Fail` | `PostgresSummaryJobProcessor.process`, `loadSummarySource`, `saveConversationSummary` |
| `Die`, `Expire`, `LoseLock` | pg-boss takes up a job whose handler is dead or only slow; the lock's session breaks |

`CurrentGroup`, `Chosen` and `History` are `loadAiMessage` and `buildAgentMessages`: what an answer to the pending message would be given now.
What a summary tells is the set of turns it was computed from, so `SummariesAgree` says that nothing is lost or told twice on the way
from summary to summary, and `ToldOnce` that the context of an answer has every turn once, up to the length of the history. A summary may be too
long for the context (`bounded`), and then an older one or none is taken.

One consequence of the code to know of: a reply acknowledged after the customer's next message is a row later than the start of the group that
is being answered, so it is neither in the history nor in that group; the agent does not see it until the group ends.

## 11. Accounts and Throttle: who is let in, and what a deletion leaves

`Accounts` has the registrations that wait (`pending`), the decisions that were reported (`verdicts`), the `status` of each business,
`identities`, `sessions`, the businesses with `rows` in the tables that a deletion purges, the last event of each business's
`audit`, and the transactions under way (`work`), each with the lock it
holds or waits for. A transaction is one action where the code locks before it reads and writes nothing it read before; else it is a
beginning, a lock and a conclusion. What the 26 purged tables (`0007_private_business_purge.sql:49-54`, deleted from in 101-126) have in common is
their trigger, so they count as one.

`audit_events` is not among them. It has the same trigger (line 46), but it is append-only (`0000_base.sql:647-648`), the
purge leaves it, and `delete_business` appends a `business.deleted` event of its own (154-158): the history of a business is
kept after its deletion (`docs/DATABASE.md:93`, `docs/ARCHITECTURE.md:75`, `docs/OPERATIONS.md:72`), and so is its
row in `businesses`, suspended and with its name, as a tombstone. `NothingOutlivesDeletion` therefore says two things: the purged tables,
the sessions and the logins of a deleted business are gone and stay gone, and its audit ends with its deletion, so that
nothing it did is recorded after it. A write may append to the audit and to nothing else, as a failed login does (`auth.ts:64-80`);
logins, logouts and changes of status append an event each; registrations and their decisions append to the platform's stream, which belongs to no business.
Jobs that pg-boss already has are kept as well; what they would write is a `Write`.

| actions | code |
|---|---|
| `SubmitRegistration`, `CommitSubmit` | `POST /auth/register`, `submit_registration`: the e-mail's lock, the look at the identities, the insert that a pending e-mail makes void |
| `ReadRegistration`, `LockRegistration`, `Approve`, `Reject`, `NotFound` | `decide_registration`: the row is read, the lock awaited, the row read again |
| `Provision` | `provisionAdmin` |
| `Write`, `CommitWrite` | any insert or update of a purged table, of the audit (`appendAudit`, `append_runtime_audit`), or of both, from its trigger to its commit |
| `Login`, `GuardLogin`, `CommitLogin`, `RevokeSession` | `login`: the identity is read, the password verified, the session inserted under its trigger; logout |
| `SetStatus`, `Delete`, `CommitDelete` | `setBusinessStatus`, `delete_business` with `purge_business_data_private` |
| `Abandon` | a transaction that fails, at any point |

Things the model shows that no document speaks of. A login that read its identity before a suspension can insert its session after it:
the session is not revoked, is refused while the business is suspended, and works again when it is reactivated. A write that holds a row
which the purge wants, and waits for the business's row, deadlocks with it, and so does one that holds the lock of the audit, which the deletion takes last; PostgreSQL ends one of them, which is an `Abandon`.
The script that provisions the administrator does not take a registration's lock: an approval may then find the e-mail taken, and answers 409.

`Throttle` is `admit_login`, a step of its own because the global row is locked before the clock is read: the purge of a batch of rows that are over
(the oldest; among equals any), the global budget with its window, and the account's row. `TableIsBounded` counts windows: one horizon
of 15 minutes can meet 16 windows of 120 admissions, so the table has fewer than 1920 rows, slightly more than
the 1800 the comment above the insert suggests. The bound less one is reached in the run.

## 12. The runs

| run | question | bounds | states |
|---|---|---|---|
| `Pipeline` | Do deadlines, history rows and retired replies stay consistent? Does a summary tell all it covers, and the context everything once? | answers: 2 customer messages, 1 manual text, 1 manager, 1 slot, clock 0..2, one event between routing and ingestion; silent completion and provider failure. Summaries: 4 turns, 2 summarisers, budget 2, history 1, 1 retry, 1 fault | 972 K |
| `Ownership` | Is a reply sent at most once and closed by its owner only? Does the pipeline implement `Delivery`? | 1 message, 1 manual text, 2 managers, 3 takeovers; crash, lost lock, close, suspension, agent switch, rejected and unknown outcomes | 494 K |
| `Recovery` | Is a message resolved and a reply closed after failures? (liveness) | 1 message, 1 manager, 2 slots, 2 takeovers, 2 claims, 1 retry; silent completion; manager, worker, publication and provider failures, early expiry | 62 K |
| `Linking` | Do two managers with one link command keep one socket, one owner and the credentials? | 2 managers, 2 tokens, 2 claims, 2 disturbances of crash, lost lock, slow, suspend | 247 K |
| `Relinking` | Is a link request answered, and do links and sessions come back? (liveness) | 1 manager, 3 tokens, 2 claims, 2 disturbances of six kinds | 75 K |
| `Intents` | Does a write take effect once, and is it never forgotten in doubt or edited over? Is a client in doubt not created again, and a saved one not shown as it was? | appointments: 2 keys, 1 appointment and creation, 2 API connections, 2 faults; clients: 2 tabs, 1 phone, 2 names, 2 clients, 2 writes, 1 fault | 999 K |
| `Booking` | Are the agenda's promises kept between users? | 3 transactions, 2 appointments, 2 resources, 1 service of 2 durations, 2 weekly schedules, 1 closure, instants 0..2 | 569 K |
| `Dialogue` | Is what the agent saves what was delivered, accepted for that reply, and saved once? | 3 messages (each a yes or the name), 2 slots, 1 edit, 2 calls in a session | 3.03 M |
| `Sessions` | Do the panel's screens survive logins elsewhere, ended sessions and late answers? Is a registration decided once, and do the purged tables stay empty after a deletion, and does the audit end with it? Is the throttle's table bounded? | panel: 7 screens, 1 business and the administrator, 2 jobs at once, 2 sessions, 1 write, 2 loads, 1 logout, 2 faults; accounts: 3 transactions, 2 registrations, 1 e-mail; throttle: 6 accounts, budgets of 2, horizon of 2 windows, batches of 1, instants 0..6 | 775 K |
| `ProviderFailure`, `Suspension`, `SecondLink` | findings, section 14 | the smallest instance that shows them | |

Why these bounds are enough to be informative. A race needs two actors and one
thing to race for: two managers, two slots, two keys on one appointment,
three transactions (two that compete and one that changed what they read). Two customer messages
are what it takes for one to supersede the other, before, during and after its answer. The clock
goes one past each delay and expiry, so that what is due and what has lapsed are both reached. The
disturbance budgets are two because the failures of interest come in pairs (a
crash, then a loss while recovering).

Three messages are what a quote needs to be presented, replaced and confirmed; two slots, so that one can
be taken while the other is offered; a dialogue of two calls prepares and confirms in one session, or
prepares twice. Two sessions are the tab's and the other's. Two jobs at once pair
each late answer with what overtakes it. Two clients and two tabs are one creation in doubt and one
that must wait. Four turns and a budget of two are two summaries planned for different coverage, with a message pending
at either plan; a history of one is the smallest that can be full. Three transactions are two that race for a lock and one that changed what they
had read; two registrations contend for one e-mail; six accounts are one more than the throttle's table can hold. Some runs were also made larger, with no error, and take longer than is useful in a routine run:
`Sessions` with three faults (1.73 M states of the panel), with two e-mails (2.02 M of the accounts) and with three jobs at once, `Intents` with two phones (1.58 M) and with a
search by phone, `Dialogue` with a sender who is not verified (4.39 M).

Type invariants are theorems, and no run spends time on them.

Bounds are named constants in guards: `MaxNow`, `MaxTokens`, `MaxClaims`,
`MaxRouting`, `MaxFaults`, `MaxTime`, `MaxMessage`, `MaxEdits`, `MaxCalls`, `MaxLogins`, `MaxWrites`, `MaxLoads`,
`MaxLogouts`, `MaxClients`, `MaxLosses`, `MaxTurns`, `MaxTrouble`, `MaxInstant`. In Messaging, `RoomToRecover` explores a
crash only where the bounds leave room to recover from it; otherwise liveness would
be refuted by the bound. Likewise `ReleaseAiOutbox` and
`IngestCustomer` stay within `MaxNow`.

`CHECK_DEADLOCK FALSE` where a behaviour may rightly end: all messages
handled, all requests done, all faults spent. `Ownership` checks deadlock.

Symmetry is used only in safety runs. In `Intents` the keys serve as tabs and the API's connections as
names: only one of the two screens is open in a behaviour, so the two symmetries do not meet.

### Fairness

Liveness is stated under weak fairness of what the code schedules by itself:

* the manager's timer starts, claims, publishes and dispatches once a second (`apps/whatsapp-manager/src/index.ts`), and reconnects are throttled, not stopped;
* pg-boss delivers ready jobs and expires active ones;
* `converseAgent` bounds rounds and time, so a session ends;
* a slot that waits for the advisory lock retries every 25 ms (`runtime-pools.ts`); claims lapse after 30 s;
* a socket with valid credentials is opened by WhatsApp, and its events are applied.

Nothing is assumed of customers, of users who would have to scan a code, of the business, or of
faults, which are finite by their bounds. `Recovery` and `Relinking` are about a business, an
agent and a connection that stay up: a job fetched while one of them is down is completed
without an answer and nothing takes the message up again, which is listed as a hazard.
`Operations`, `Appointments`, `Agenda`, `Panel`, `Clients`, `Accounts` and `Throttle` assume no fairness and state safety only: what they
wait for is a user, a browser or a network. `NobodyWaitsInVain` says in their place that whatever a screen
waits for is still under way.

## 13. The proofs

All theorems are of the form `Spec => ...` for every value of the constants that satisfies the
module's assumptions (disjoint sets of ids, bounds that are naturals, non-empty closures). They do
not depend on the bounds: the bounds are constants in the guards, and any will do.

**Messaging.** `TypeCorrect` first; the other theorems use it.
`SendsCorrect` rests on `SendInv`: `AtMostOneSend` is not inductive, so `OneDispatchPerReply` ties a
dispatch to its row (only a claimed row has one, it has one, and it has not called while `claimed`),
and `RetiredIsFailed` says that a retired row is closed and never sent. `NoOrphanSending` and
`ClosedByOwner` rest on `OwnershipInv`: the owner is the last token drawn, or none. `DeadlineCorrect` and
`SequencesCorrect` are inductive together with the types; `DeadlineIsFixed` is an action property. `SequencesCorrect` is what says
that ingestion and `finishOutbound` never draw one number twice: `ReplyRowMeansSent`, the property the runs check of the same
transactions, would not notice two equal numbers.
`DeliveryImplemented` is the refinement: each step maps to a step of the table, or to a provider
call, or to a stutter; it needs that a message is ingested once. `SupersededHasNoJob` needs that a message
with a row has one in the outbox (`SettledInv`). `HistoryIsDelivered` and `AnswersTheNewest` rest on `HistoryInv`: what a
manager routed and has not ingested is classified truly (an echo is never held for a text of the business), the history
has the replies that were acknowledged, and nothing is newer than the latest message.

**Connection.** The argument is the advisory lock's, as long as the database keeps it. `IInv` says that how far an attempt
has come tells whether it has a token and a socket (`AttemptsOK`), that tokens are distinct (`TokensDistinct`), and, while the lock was not
lost, that every attempt with a token holds the lock under it (`LockIsHeld`) and, from its takeover to its release, is the
owner in the row (`OwnsIt`). Two live sockets would be two holders: `SocketsAreOne`, `HolderIsOwner`. The three action properties
do not need the lock: `SavedSessionStays`, `OwnerConnects` and `OwnerAcknowledges` hold also after it was lost, by the tokens that
each transaction compares.

**Appointments.** The argument is the lock's. `IInv` says that the transaction past `Acquire` holds
the lock (`LockIsHeld`), that its clock is of the past (`ClockWasRead`), and that what it decided is still what it would decide
(`DecisionStands`), which is inductive because every writer needs the same lock. From it:
`ResourceBookedOnce` (the interval found free is free when it is written), `UpcomingIsHonoured` (an edit has looked at
every appointment that is upcoming now, since its clock is not later; a booking satisfies what it was
checked against), `TermsAreTheConfirmedOnes`, `OverIsOver`.

**Operations.** `IInv` has an API part and a panel part. API: one transaction holds a key; one that has worked has found
no receipt, and there is none until it commits; a terminal answer on the network agrees with its receipt. Then a
receipt is written once and the effect with it: `WritesTakeEffectOnce`. Panel: what is held in memory is what
is stored, once the scope is ready; a released intent has a receipt; undecided writes are of
different appointments. `IntentsOutliveDoubt` and `OneWriteInDoubt` follow because receipts never change. `ScreenIsFresh` rests on
`ViewInv`: an appointment has one stored intent at most (`IntentInv`); while it is locked for a new reading that intent is
decided, so the reading finds the last version, and what is shown of an unlocked appointment is the last version unless its
stored intent has taken effect (`ReadInv`).

**Agenda.** `IInv` is `TypeOK` with five parts. `Issued` says of a quote that names the reply it went out in that
it is what that reply presents, that no later reply presents another, and that nothing was saved from it; `PresentedIsPast`
that only messages already settled have presented something; `SpentIsPresented` that what was saved had been presented;
`SessionIsLatest` that a session answers the latest message, which is still pending; `SessionOK` that the draft's quote is
`Issued` too, that collected names are about the dialogue's quote, and that a staged booking or change was presented, delivered and
accepted as it stands, with the appointment as it is while the locks are held. It is inductive because a tool either drops the draft's quote,
issues one that names no reply, or changes the names of the one that is there. `Commit` is the step that needs all of it.
From `IInv`: `DeliveredQuotes`, `SavesWhatWasPresented`, `AcceptanceFits`, `SavedOnce`.

**Clients.** `IInv` says what a tab's mark is worth: either the tab
is locked over the very draft it marks, or the user was told of a creation with that draft (`Marked`). Whoever erases
the note holds it as his mark, so a note is erased only when the user is told; from that, a creation in doubt that is alone with its draft is
the note (`Noted`), which is `DoubtOutlivesTabs`. `VInv` says that what is shown or was answered is of the past: no newer than
the registry, whose versions grow, and, in an answer that may still be applied, no older than the list it would replace.
That is `ListsMoveForward`.

**Panel.** `StepCases` is the lemma on which everything else stands: it takes the actions of seven screens apart into what a step may do
to the panel and to each job (a job is kept, is served, begins or goes on), so that an invariant needs a case for each of these and not for each action of
each screen. `TypeOK` is inductive with what a job of each kind can be doing (`JobsTyped`): `PanelTypes`. `SessionInv` adds that answers
and owners are of sessions already begun (`Past`), that a load is alone in its attempt (`OneLoad`) and that held buttons are held by a job that runs (`Held`).
From them: the tab's token is not younger than the requests and the data of the panel (`TokenOlder`, `ShownNotOlder`), since only a
job that asks for the session brings one; so the token of a change is not younger than what the change was made from (`TokenGoesWithData`), and an API that admits
it has `ChangesStayInTheirSession`. What the services screen loads it reads between two answers about the session (`LoadedBetween`), which agree when it is shown:
`ServicesAreOfOwner`. `WaitInv` says that a panel that is loading has a load that is not abandoned (`LoadingIsLoaded`), and that closures that are not there yet hold
their buttons, hence have a job (`ClosuresAwaited`): `PanelWaitsForJobs`. `ShownInv` is for the action property: whoever may still change
what is shown holds the buttons of that part (`CurrentIsHeld`, `NeverAsked`, `MadeFromShown`), what was told and what is shown was in the database of the business of
the session that was asked (`AnswersPast`, `ShownPast`), and what the holder of a part was told, if it was told the whole part, covers what is shown
(`CatchesUp`): `NothingShownDisappears`. It assumes that no record is the value of an empty place (`NullIsNoRecord`).

**Summaries.** `SummariesInv` adds to `SummariesAgree` that what a worker tells is every turn up to the coverage of its job
(`WorkersTellAll`): its source told every turn up to its own coverage, and the worker added the rest. A row is stored only above
every other in both version and coverage, so the compare-and-swap alone gives `SummariesTellAll`; the advisory lock only saves work.
`AgentIsToldOnce` follows: nothing is told twice since the summary chosen stops before the group, and of the turns that are neither told nor in the
history one is the last (`LastOfSome`, by the well-foundedness of the naturals), after which there is nothing but a full history.

**Accounts.** `DeletionInv` says that nobody shares the lock of a row that a deletion holds (`RowExcludes`) and that whoever holds it
has seen a business that is not deleted (`HoldersAreLive`). The commit of a write or a login is then about a business that is not deleted, and
the commit of a deletion finds nobody else at work. So the last event of a deleted business's audit is the deletion's own, and the purged tables stay empty: `DeletionIsFinal`. `RegistrationInv` says that one transaction holds the lock of
an e-mail (`EmailExcludes`), that ids and e-mails of what is pending are one (`PendingIsOne`), that what a decision read is still what is pending under
its id, if anything is (`ReadsArePending`), and that what is being submitted is known to nobody else (`SubmitsAreNew`). Most steps touch none of
it (`Quiet`); an approval needs all of it, and `Decides` is the lemma for both decisions: `DecidedOnce`.

**Throttle.** The table remembers rows of windows that the budget has forgotten. `WindowsAdmit` counts them by lines drawn back from the window of the
budget, a minute apart: the rows made after the k-th line are fewer than k full budgets and what this window has spent. It is inductive because windows
are a minute apart at least, and strict because the first row of a window is made as it begins. A purge that leaves a row that is over has deleted a batch,
hence at least the row it makes room for; any other leaves only rows of the last horizon, which are after the last line: `ThrottleIsBounded`. The horizon is assumed to be a whole number of minutes,
as it is in the code (15).

**Only model-checked:** `PendingResolves`, `ReplySettles`, `RequestIsAnswered`, `LinkResumes` and `SessionResumes`, the liveness
properties: they need fairness and `ENABLED`, which are beyond this prover. Every invariant, action property and refinement that a
passing run checks is a theorem.

**Proved and checked by no run:** `OneDispatchPerReply`, `HolderOwns` and `DeadlineNeverSlides`, parts of the arguments above or too
close to one assignment of the code to spend a run on.

## 14. Where code and documents disagree

* `ProviderFailure`: `docs/ARCHITECTURE.md:45` says a provider failure marks the message `ai_failed`. The
  processor throws and leaves it to pg-boss; `failAi` has no caller, so after the last retry the message stays `pending` and its
  conversation keeps `reply_due_at`.
* `Suspension`: `docs/ARCHITECTURE.md:46` says the manager closes what it claims. When the business is suspended between claim
  and admission, `dispatchNext` returns and the row stays `sending` as long as its lease lives.
* `SecondLink`: the API refuses to link a linked connection and the domain has no such transition, but the check and the
  command are two transactions and admission does not look at the state: a second request, admitted after
  the first link's socket closed for a moment, wipes the linked session's credentials.

## 15. What is not modelled

* In Messaging: the loss of the worker's advisory lock while it runs (the conversation row lock still serialises the sessions), heartbeats, outbound
  commands without a source message, prompt and text content.
* In Summaries: the words of texts and summaries, their lengths in characters and the packing of the prompt, with what is dropped when
  the required context is too large; rows written before commands named their source message.
* In Connection: the content of a QR code, heartbeats, the linked number, the encrypted records themselves; whether
  credentials exist is the one fact kept.
* In Operations: lists and calendars on the screen, focus and messages; what is in a receipt beyond its
  state; the fingerprint check (a key is drawn for one payload); the screen being left and entered (that is a
  reload whose storage survives).
* In Appointments: clients, the customer's preferred resource, creation of services and resources,
  calendar arithmetic in local time, a clock that goes back. The API's clock is assumed monotone. Bookings by the
  agent are in Agenda.
* In Agenda: preferences for a resource, the text of notes, changes of the service of an appointment, partial names, the day asked
  for, tools that only read, a second customer (his bookings are slots that close), the revision that
  numbers presentations, the prompt and the parsing of the model's answer.
* In Panel: forms, validation, wording and focus; the pages of login and registration; the second call of the session that
  the administrator's load makes and does not wait for. Activity in the panel, which renews its session, is one
  step, and the closures can be asked for again whenever they show an error or are there. The server's refusals are the ones of the
  session, the token, the role and a conflict; what else it checks is in Appointments.
* In Clients: the appointments of the selected client, typing, focus; the search by name.
* In Accounts: passwords, how long a session lasts and its renewal, the administrator's own login, the registration throttle (a counter of a
  window, as the throttle's first), which of the purged tables a row is in, and of the audit all but the last event of each business: its earlier events, numbers and hashes, and the platform's stream. The deadlock of a write and a purge is an abandoned transaction.
* Availability as arithmetic, the audit chain and the Baileys store: see the plan. HTTP contracts are schemas without state and the AI adapter is an HTTP call whose
  failures are an outcome in Messaging; neither has behaviour of its own to model.

## 16. Plan

1. Messaging and Delivery: done and proved.
2. Connection: done; its safety is proved.
3. Operations and Appointments: done and proved.
4. Agenda, Clients and Panel: done and proved.
5. `Availability`: the starts offered, as operators over intervals, against a reference definition by enumeration; lemmas on
   intervals instead of liveness.
6. Accounts and Throttle: done and proved.
7. `Audit`: the chain under concurrent appends. Summaries: done and proved.
8. The Baileys auth store: versions and envelopes against a fenced-off socket, composed with `Connection`.
