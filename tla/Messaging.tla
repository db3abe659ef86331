----------------------------- MODULE Messaging ------------------------------
(***************************************************************************)
(* The message pipeline of one WhatsApp conversation: what the manager     *)
(* ingests, the ai.generate outbox, the job the message-worker runs, and   *)
(* the outbound command the manager claims, sends and closes.  Every       *)
(* action is one transaction of the code, or one step between two of them, *)
(* so that the processes interleave exactly where the code lets them.      *)
(*                                                                         *)
(* A conversation is independent of the others: each statement filters by  *)
(* conversation, and what conversations share (connection, business) is    *)
(* here.  A reply is named by the customer message it answers, because     *)
(* outbound_commands.source_message_id is unique.                          *)
(***************************************************************************)
EXTENDS Integers, FiniteSets

CONSTANTS
  Customer,         \* provider ids of customer texts
  Manual,           \* provider ids of texts the business writes on its phone
  Managers,         \* whatsapp-manager processes
  Workers,          \* message-worker job slots
  NULL,             \* absence of an id, a lock holder...
  InitialDelay,     \* initialDelaySeconds, in clock ticks
  ActiveDelay,      \* activeDelaySeconds
  InactivityReset,  \* inactivityResetSeconds
  ClaimTtl,         \* claimTtlMs of the ai outbox
  RetryDelay,       \* what release_ai_outbox adds to next_attempt_at
  RetryLimit,       \* retryLimit of an ai-generate job
  Faults,           \* the faults the environment may inject
  MaxNow,           \* bound: the clock
  MaxTokens,        \* bound: takeovers of the connection
  MaxClaims,        \* bound: claims of one outbox row
  MaxRouting        \* bound: events between their routing and their ingestion

AllFaults == {"suspend", "agent", "managerCrash", "workerCrash", "providerFailure",
              "publishFailure", "lostLock", "close", "silent", "expire", "rejected", "unknown"}

ASSUME MessagingAssumption ==
  /\ NULL \notin Customer \cup Manual \cup Managers \cup Workers
  /\ Customer \cap Manual = {}
  /\ \A m \in Customer : <<m, "reply">> \notin Customer \cup Manual
  /\ InitialDelay \in Nat /\ ActiveDelay \in Nat /\ InactivityReset \in Nat
  /\ ClaimTtl \in Nat /\ RetryDelay \in Nat /\ RetryLimit \in Nat
  /\ MaxNow \in Nat /\ MaxTokens \in Nat /\ MaxClaims \in Nat /\ MaxRouting \in Nat
  /\ Faults \subseteq AllFaults

\* The provider id of a reply is its outbound_id (BaileysGateway.send).
Reply(m) == <<m, "reply">>
Replies == {Reply(m) : m \in Customer}
ProviderId == Customer \cup Manual \cup Replies

NoTime == -1            \* a null timestamp
Time == Nat \cup {NoTime}

VARIABLES
  now,                  \* the database clock
  businessActive, agentActive, connected,
  ownership,            \* ownership_token of the connection, 0 when null
  tokens,               \* ownership tokens drawn so far
  advisoryLock,         \* manager holding the session advisory lock
  manager,              \* per manager: token of its start(), and whether it is in `active`
  routed,               \* inbound events routed but not yet ingested: id -> class
  seen,                 \* inbox_events
  sequence,             \* messages.sequence by provider id, 0: no row
  nextSequence,         \* conversations.next_sequence
  latestInbound, replyDueAt, lastReplyAt, lastExchangeAt,
  message,              \* processing_state of the inbound rows
  outbox,               \* ai.generate outbox rows
  publishing,           \* publications in flight in AiOutboxDispatcher
  job,                  \* pg-boss ai-generate jobs
  worker,               \* message-worker slots
  aiLock,               \* session advisory lock ai:<business>:<conversation>
  conversationLock,     \* row lock on the conversation held by an agent session
  outbound,             \* outbound_commands rows
  flight,               \* dispatchNext() calls in progress
  sends                 \* history: calls of the provider per reply

connectionVars == <<businessActive, agentActive, connected, ownership, tokens,
                    advisoryLock, manager>>
conversationVars == <<sequence, nextSequence, latestInbound, replyDueAt, lastReplyAt,
                      lastExchangeAt, message>>
inboxVars == <<routed, seen>>
queueVars == <<outbox, publishing, job>>
workerVars == <<worker, aiLock, conversationLock>>
sendVars == <<outbound, flight, sends>>
vars == <<now, connectionVars, conversationVars, inboxVars, queueVars, workerVars, sendVars>>

MessageState == {"none", "pending", "generated", "superseded", "silent_completed", "ai_failed"}
OutboundState == {"none", "generated", "sending", "sent", "failed", "delivery_unknown"}
NoOutbound == [state |-> "none", token |-> 0, code |-> "none"]
NoOutbox == [state |-> "none", nextAttemptAt |-> 0, attempts |-> 0, claim |-> 0, claimedAt |-> NoTime]
Idle == [pc |-> "idle", message |-> NULL]

ConnectionType ==
  /\ businessActive \in BOOLEAN /\ agentActive \in BOOLEAN /\ connected \in BOOLEAN
  /\ ownership \in Nat /\ tokens \in Nat /\ ownership <= tokens
  /\ advisoryLock \in Managers \cup {NULL}
  /\ manager \in [Managers -> [token : Nat, active : BOOLEAN]]

ConversationType ==
  /\ sequence \in [ProviderId -> Nat] /\ nextSequence \in Nat \ {0}
  /\ latestInbound \in Customer \cup {NULL}
  /\ replyDueAt \in Time /\ lastReplyAt \in Time /\ lastExchangeAt \in Time
  /\ message \in [Customer -> MessageState]

InboxType ==
  /\ routed \in [ProviderId -> {"no", "accepted", "accepted_business", "automation_inactive"}]
  /\ seen \subseteq ProviderId

OutboxRow == [state : {"none", "unpublished", "published"}, nextAttemptAt : Nat,
              attempts : Nat, claim : Nat, claimedAt : Time]
Publication == [by : Managers, message : Customer, claim : Nat, stage : {"claimed", "sent"}]
JobRow == [state : {"absent", "ready", "active", "completed", "failed"}, tries : Nat]
QueueType ==
  /\ outbox \in [Customer -> OutboxRow]
  /\ publishing \subseteq Publication
  /\ job \in [Customer -> JobRow]

Slot == {Idle} \cup [pc : {"waiting", "locked", "session", "done"}, message : Customer]
WorkerType ==
  /\ worker \in [Workers -> Slot]
  /\ aiLock \in Workers \cup {NULL} /\ conversationLock \in Workers \cup {NULL}

OutboundRow == [state : OutboundState, token : Nat,
                code : {"none", "superseded", "manual_reply", "failed", "delivery_unknown"}]
Dispatch == [by : Managers, message : Customer, token : Nat, stage : {"claimed", "invoked"}]
SendType ==
  /\ outbound \in [Customer -> OutboundRow]
  /\ flight \subseteq Dispatch
  /\ sends \in [Customer -> Nat]

TypeOK == /\ now \in Nat
          /\ ConnectionType /\ ConversationType /\ InboxType
          /\ QueueType /\ WorkerType /\ SendType

Init ==
  /\ now = 0
  /\ businessActive = TRUE /\ agentActive = TRUE /\ connected = FALSE
  /\ ownership = 0 /\ tokens = 0 /\ advisoryLock = NULL
  /\ manager = [p \in Managers |-> [token |-> 0, active |-> FALSE]]
  /\ routed = [id \in ProviderId |-> "no"]
  /\ seen = {}
  /\ sequence = [id \in ProviderId |-> 0] /\ nextSequence = 1
  /\ latestInbound = NULL
  /\ replyDueAt = NoTime /\ lastReplyAt = NoTime /\ lastExchangeAt = NoTime
  /\ message = [m \in Customer |-> "none"]
  /\ outbox = [m \in Customer |-> NoOutbox]
  /\ publishing = {}
  /\ job = [m \in Customer |-> [state |-> "absent", tries |-> 0]]
  /\ worker = [w \in Workers |-> Idle]
  /\ aiLock = NULL /\ conversationLock = NULL
  /\ outbound = [m \in Customer |-> NoOutbound]
  /\ flight = {}
  /\ sends = [m \in Customer |-> 0]

-----------------------------------------------------------------------------
(* Clock, business and agent switches (external to the pipeline).          *)

Tick == /\ now < MaxNow
        /\ now' = now + 1
        /\ UNCHANGED <<connectionVars, conversationVars, inboxVars, queueVars, workerVars, sendVars>>

SetBusinessStatus ==
  /\ "suspend" \in Faults
  /\ businessActive' = ~businessActive
  /\ UNCHANGED <<now, agentActive, connected, ownership, tokens, advisoryLock, manager,
                 conversationVars, inboxVars, queueVars, workerVars, sendVars>>

SetAgentActive ==
  /\ "agent" \in Faults
  /\ agentActive' = ~agentActive
  /\ UNCHANGED <<now, businessActive, connected, ownership, tokens, advisoryLock, manager,
                 conversationVars, inboxVars, queueVars, workerVars, sendVars>>

-----------------------------------------------------------------------------
(* Ownership of the connection: PostgresWhatsAppManager.start and its      *)
(* lease.  Connection.tla has the whole life cycle; here it is what fences  *)
(* a sender.                                                               *)

\* Mutants of Abandon: nothing is closed; the row is offered again.
AbandonNothing(o) == o
AbandonForRetry(o) == IF o.state = "sending" THEN [o EXCEPT !.state = "generated"] ELSE o

\* start(): the session advisory lock, then takeOverWhatsApp in one
\* transaction.  It locks every conversation first, so it waits for an agent
\* session, and it closes what an earlier owner left in `sending`.
Abandon(o) == IF o.state = "sending"
              THEN [o EXCEPT !.state = "delivery_unknown", !.code = "delivery_unknown"]
              ELSE o

TakeOver(p) ==
  /\ advisoryLock = NULL /\ manager[p].token = 0
  /\ conversationLock = NULL
  /\ tokens < MaxTokens
  /\ advisoryLock' = p
  /\ tokens' = tokens + 1
  /\ ownership' = tokens + 1
  /\ manager' = [manager EXCEPT ![p] = [token |-> tokens + 1, active |-> FALSE]]
  /\ outbound' = [m \in Customer |-> Abandon(outbound[m])]
  /\ UNCHANGED <<now, businessActive, agentActive, connected, conversationVars, inboxVars,
                 queueVars, workerVars, flight, sends>>

\* gateway.connect returned a lease and its "open" event was applied, fenced
\* by lockWhatsAppOwnership; only then is the token in ownershipTokens().
Attach(p) ==
  /\ manager[p].token # 0 /\ ~manager[p].active
  /\ manager' = [manager EXCEPT ![p].active = TRUE]
  /\ connected' = (connected \/ ownership = manager[p].token)
  /\ UNCHANGED <<now, businessActive, agentActive, ownership, tokens, advisoryLock,
                 conversationVars, inboxVars, queueVars, workerVars, sendVars>>

\* The socket closes: "transient-close" is applied under the same fence, then
\* releaseWhatsApp clears the ownership if it is still this one, and the
\* advisory lock is released.
CloseLease(p) ==
  /\ "close" \in Faults
  /\ manager[p].token # 0
  /\ connected' = (connected /\ ownership # manager[p].token)
  /\ ownership' = IF ownership = manager[p].token THEN 0 ELSE ownership
  /\ manager' = [manager EXCEPT ![p] = [token |-> 0, active |-> FALSE]]
  /\ advisoryLock' = IF advisoryLock = p THEN NULL ELSE advisoryLock
  /\ UNCHANGED <<now, businessActive, agentActive, tokens,
                 conversationVars, inboxVars, queueVars, workerVars, sendVars>>

\* The database drops the reserved session that holds the advisory lock; the
\* manager is not told and goes on with its token.
LoseAdvisoryLock(p) ==
  /\ "lostLock" \in Faults
  /\ advisoryLock = p
  /\ advisoryLock' = NULL
  /\ UNCHANGED <<now, businessActive, agentActive, connected, ownership, tokens, manager,
                 conversationVars, inboxVars, queueVars, workerVars, sendVars>>

\* Bound: a crash is explored only where the bounds leave room to recover from
\* it, by a takeover and a new claim of what the process was publishing.
RoomToRecover(p) ==
  /\ tokens < MaxTokens
  /\ \A q \in publishing : q.by = p =>
       outbox[q.message].attempts < MaxClaims /\ now + ClaimTtl <= MaxNow

\* A manager process dies: its memory (active map, dispatches, publications)
\* and its database sessions go, its rows stay.
ManagerCrash(p) ==
  /\ "managerCrash" \in Faults /\ RoomToRecover(p)
  /\ manager' = [manager EXCEPT ![p] = [token |-> 0, active |-> FALSE]]
  /\ advisoryLock' = IF advisoryLock = p THEN NULL ELSE advisoryLock
  /\ flight' = {f \in flight : f.by # p}
  /\ publishing' = {q \in publishing : q.by # p}
  /\ UNCHANGED <<now, businessActive, agentActive, connected, ownership, tokens,
                 conversationVars, inboxVars, outbox, job, workerVars, outbound, sends>>

-----------------------------------------------------------------------------
(* PostgresInboundHandler.handle: one transaction routes and classifies,   *)
(* another one ingests what was classified.                                *)

\* A reply is echoed by the provider once it was handed over.
Arrives(id) == id \in Customer \cup Manual \/ \E m \in Customer : id = Reply(m) /\ sends[m] > 0

Classify(id) ==
  IF id \notin Customer THEN "accepted_business"
  ELSE IF businessActive /\ agentActive THEN "accepted" ELSE "automation_inactive"

Route(id) ==
  /\ Arrives(id) /\ connected
  /\ routed[id] = "no" /\ Cardinality({x \in ProviderId : routed[x] # "no"}) < MaxRouting
  /\ routed' = [routed EXCEPT ![id] = Classify(id)]
  /\ UNCHANGED <<now, connectionVars, conversationVars, seen, queueVars, workerVars, sendVars>>

\* replyDeadline: a pending deadline is kept, whatever the burst does.
ReplyDeadline ==
  IF replyDueAt # NoTime THEN replyDueAt
  ELSE IF \/ lastReplyAt = NoTime \/ lastExchangeAt = NoTime
          \/ now - lastExchangeAt > InactivityReset
       THEN now + InitialDelay ELSE now + ActiveDelay

\* Mutants of Retire: it reaches rows that were claimed, or only spares `sent`.
RetireClaimed(o, code) ==
  IF o.state \in {"generated", "sending"} THEN [o EXCEPT !.state = "failed", !.code = code] ELSE o
RetireUnlessSent(o, code) ==
  IF o.state \in {"generated", "delivery_unknown"}
  THEN [o EXCEPT !.state = "failed", !.code = code] ELSE o

\* The outbound rows a new message retires: those not yet claimed.
Retire(o, code) == IF o.state = "generated" THEN [o EXCEPT !.state = "failed", !.code = code] ELSE o

\* Outbox rows of superseded messages are marked published.
Settle(newMessage) ==
  [m \in Customer |-> IF newMessage[m] = "superseded" /\ outbox[m].state = "unpublished"
                      THEN [outbox[m] EXCEPT !.state = "published"] ELSE outbox[m]]

\* Mutant of IsEcho: a reply is recognised by what finishOutbound recorded.
EchoOfAcknowledged(id) == \E m \in Customer : id = Reply(m) /\ outbound[m].state = "sent"

\* The id of an outbound row of ours (outbound_id or provider_message_id).
IsEcho(id) == \E m \in Customer : id = Reply(m) /\ outbound[m].state # "none"

\* An id already in inbox_events, a class that is not accepted, or the echo of
\* a reply of ours leaves the conversation alone.
IngestIgnored(id) ==
  /\ routed[id] # "no"
  /\ \/ id \in seen
     \/ routed[id] = "automation_inactive"
     \/ routed[id] = "accepted_business" /\ (IsEcho(id) \/ sequence[id] # 0) /\ conversationLock = NULL
  /\ seen' = seen \cup {id}
  /\ routed' = [routed EXCEPT ![id] = "no"]
  /\ UNCHANGED <<now, connectionVars, conversationVars, queueVars, workerVars, sendVars>>

\* ingestInbound of a customer text.
IngestCustomer(m) ==
  /\ routed[m] = "accepted" /\ m \notin seen
  /\ ReplyDeadline <= MaxNow                   \* bound
  /\ conversationLock = NULL
  /\ seen' = seen \cup {m}
  /\ routed' = [routed EXCEPT ![m] = "no"]
  /\ sequence' = [sequence EXCEPT ![m] = nextSequence]
  /\ nextSequence' = nextSequence + 1
  /\ latestInbound' = m
  /\ replyDueAt' = ReplyDeadline
  /\ lastExchangeAt' = now
  /\ message' = [x \in Customer |-> IF x = m THEN "pending"
                                    ELSE IF message[x] \in {"pending", "generated"} THEN "superseded"
                                    ELSE message[x]]
  /\ outbound' = [x \in Customer |-> Retire(outbound[x], "superseded")]
  /\ outbox' = [Settle(message') EXCEPT ![m] =
                  [NoOutbox EXCEPT !.state = "unpublished", !.nextAttemptAt = ReplyDeadline]]
  /\ UNCHANGED <<now, connectionVars, lastReplyAt, publishing, job, workerVars, flight, sends>>

\* Mutant of IngestManual: the text is stored, the automation does not yield.
IngestManualOnlyStores(id) ==
  /\ routed[id] = "accepted_business" /\ id \notin seen
  /\ conversationLock = NULL
  /\ ~IsEcho(id) /\ sequence[id] = 0
  /\ seen' = seen \cup {id}
  /\ routed' = [routed EXCEPT ![id] = "no"]
  /\ sequence' = [sequence EXCEPT ![id] = nextSequence]
  /\ nextSequence' = nextSequence + 1
  /\ UNCHANGED <<now, connectionVars, latestInbound, replyDueAt, lastReplyAt, lastExchangeAt,
                 message, queueVars, workerVars, sendVars>>

\* ingestInbound of a text the business typed itself: the automation yields,
\* except for a reply that was already handed to the sender.
IngestManual(id) ==
  /\ routed[id] = "accepted_business" /\ id \notin seen
  /\ conversationLock = NULL
  /\ ~IsEcho(id) /\ sequence[id] = 0
  /\ seen' = seen \cup {id}
  /\ routed' = [routed EXCEPT ![id] = "no"]
  /\ sequence' = [sequence EXCEPT ![id] = nextSequence]
  /\ nextSequence' = nextSequence + 1
  /\ latestInbound' = NULL
  /\ replyDueAt' = NoTime
  /\ lastReplyAt' = now
  /\ lastExchangeAt' = now
  /\ message' = [x \in Customer |->
                   IF /\ message[x] \in {"pending", "generated"}
                      /\ outbound[x].state \notin {"sending", "sent", "delivery_unknown"}
                   THEN "superseded" ELSE message[x]]
  /\ outbound' = [x \in Customer |-> Retire(outbound[x], "manual_reply")]
  /\ outbox' = Settle(message')
  /\ UNCHANGED <<now, connectionVars, publishing, job, workerVars, flight, sends>>

-----------------------------------------------------------------------------
(* AiOutboxDispatcher.dispatchBatch: the polling timer does not wait for   *)
(* the batch before, so dispatches of one manager overlap too.  A claim    *)
(* token is named by the attempt that drew it.                             *)

\* Mutant of ClaimExpired: only a released row can be claimed again.
ClaimReleased(o) == o.claim = 0

\* A claim lapses claimTtlMs after it was taken.
ClaimExpired(o) == o.claim = 0 \/ o.claimedAt + ClaimTtl <= now

ClaimAiOutbox(p, m) ==
  /\ outbox[m].state = "unpublished" /\ outbox[m].nextAttemptAt <= now
  /\ ClaimExpired(outbox[m])
  /\ outbox[m].attempts < MaxClaims
  /\ LET token == outbox[m].attempts + 1
     IN  /\ outbox' = [outbox EXCEPT ![m].claim = token, ![m].claimedAt = now,
                                     ![m].attempts = token]
         /\ publishing' = publishing \cup
                {[by |-> p, message |-> m, claim |-> token, stage |-> "claimed"]}
  /\ UNCHANGED <<now, connectionVars, conversationVars, inboxVars, job, workerVars, sendVars>>

\* publisher.send with id = row id: pg-boss keeps one job per id.
PublishJob(q) ==
  /\ q \in publishing /\ q.stage = "claimed"
  /\ publishing' = (publishing \ {q}) \cup {[q EXCEPT !.stage = "sent"]}
  /\ job' = IF job[q.message].state = "absent"
            THEN [job EXCEPT ![q.message].state = "ready"] ELSE job
  /\ UNCHANGED <<now, connectionVars, conversationVars, inboxVars, outbox, workerVars, sendVars>>

OwnsClaim(q) == outbox[q.message].claim = q.claim /\ outbox[q.message].state = "unpublished"

CompleteAiOutbox(q) ==
  /\ q \in publishing /\ q.stage = "sent"
  /\ publishing' = publishing \ {q}
  /\ outbox' = IF OwnsClaim(q)
               THEN [outbox EXCEPT ![q.message].state = "published", ![q.message].claim = 0,
                                   ![q.message].claimedAt = NoTime]
               ELSE outbox
  /\ UNCHANGED <<now, connectionVars, conversationVars, inboxVars, job, workerVars, sendVars>>

\* The catch around send and complete: after either one threw.
ReleaseAiOutbox(q) ==
  /\ "publishFailure" \in Faults
  /\ q \in publishing
  /\ now + RetryDelay <= MaxNow /\ outbox[q.message].attempts < MaxClaims
  /\ publishing' = publishing \ {q}
  /\ outbox' = IF OwnsClaim(q)
               THEN [outbox EXCEPT ![q.message].claim = 0, ![q.message].claimedAt = NoTime,
                                   ![q.message].nextAttemptAt = now + RetryDelay]
               ELSE outbox
  /\ UNCHANGED <<now, connectionVars, conversationVars, inboxVars, job, workerVars, sendVars>>

-----------------------------------------------------------------------------
(* The ai-generate job: pg-boss delivery and PostgresAiJobProcessor.       *)

\* loadAiMessage(id, requireDue): what a job needs to go on.
Loadable(m) ==
  /\ message[m] = "pending" /\ latestInbound = m
  /\ replyDueAt # NoTime /\ replyDueAt <= now
  /\ businessActive /\ agentActive /\ connected

\* pg-boss closes or retries the job a slot ran, if it still counts as active.
JobDone(m) == IF job[m].state = "active" THEN [job EXCEPT ![m].state = "completed"] ELSE job
JobFailed(m) ==
  IF job[m].state # "active" THEN job
  ELSE IF job[m].tries < RetryLimit
       THEN [job EXCEPT ![m] = [state |-> "ready", tries |-> job[m].tries + 1]]
       ELSE [job EXCEPT ![m].state = "failed"]

\* A slot fetches the job; process() loads the message outside any lock.
FetchJob(w, m) ==
  /\ worker[w] = Idle /\ job[m].state = "ready"
  /\ IF Loadable(m)
     THEN /\ job' = [job EXCEPT ![m].state = "active"]
          /\ worker' = [worker EXCEPT ![w] = [pc |-> "waiting", message |-> m]]
     ELSE /\ job' = [job EXCEPT ![m].state = "completed"]
          /\ UNCHANGED worker
  /\ UNCHANGED <<now, connectionVars, conversationVars, inboxVars, outbox, publishing,
                 aiLock, conversationLock, sendVars>>

\* reserveAdvisoryLock("ai:...", wait): a try that succeeded.
AcquireAiLock(w) ==
  /\ worker[w].pc = "waiting" /\ aiLock = NULL
  /\ aiLock' = w
  /\ worker' = [worker EXCEPT ![w].pc = "locked"]
  /\ UNCHANGED <<now, connectionVars, conversationVars, inboxVars, queueVars,
                 conversationLock, sendVars>>

\* withAgentSession opens its transaction: lockAgendaSource takes the
\* conversation row and reads the message again under it.  The transaction
\* stays open, and the row locked, for as long as the model converses.
BeginSession(w) ==
  /\ worker[w].pc = "locked" /\ conversationLock = NULL
  /\ IF Loadable(worker[w].message)
     THEN /\ conversationLock' = w
          /\ worker' = [worker EXCEPT ![w].pc = "session"]
     ELSE /\ UNCHANGED conversationLock
          /\ worker' = [worker EXCEPT ![w].pc = "done"]
  /\ UNCHANGED <<now, connectionVars, conversationVars, inboxVars, queueVars, aiLock, sendVars>>

\* The guard saveGenerated and saveSilentCompletion repeat in their UPDATE.
StillCurrent(m) == message[m] = "pending" /\ latestInbound = m
                   /\ replyDueAt # NoTime /\ replyDueAt <= now

\* saveGenerated, then commit: the conversation row is released.
CommitReply(w) ==
  LET m == worker[w].message
  IN  /\ worker[w].pc = "session"
      /\ StillCurrent(m)
      /\ outbound[m].state = "none"      \* on conflict(source_message_id) do nothing -> rollback
      /\ message' = [message EXCEPT ![m] = "generated"]
      /\ outbound' = [outbound EXCEPT ![m].state = "generated"]
      /\ conversationLock' = NULL
      /\ worker' = [worker EXCEPT ![w].pc = "done"]
      /\ UNCHANGED <<now, connectionVars, sequence, nextSequence, latestInbound, replyDueAt,
                     lastReplyAt, lastExchangeAt, inboxVars, queueVars, aiLock, flight, sends>>

\* Mutant of CommitSilent: reply_due_at is not cleared.
CommitSilentKeepsDeadline(w) ==
  /\ "silent" \in Faults
  /\ worker[w].pc = "session"
  /\ StillCurrent(worker[w].message)
  /\ message' = [message EXCEPT ![worker[w].message] = "silent_completed"]
  /\ conversationLock' = NULL
  /\ worker' = [worker EXCEPT ![w].pc = "done"]
  /\ UNCHANGED <<now, connectionVars, sequence, nextSequence, latestInbound, replyDueAt,
                 lastReplyAt, lastExchangeAt, inboxVars, queueVars, aiLock, sendVars>>

\* saveSilentCompletion, then commit.
CommitSilent(w) ==
  /\ "silent" \in Faults
  /\ worker[w].pc = "session"
  /\ StillCurrent(worker[w].message)
  /\ message' = [message EXCEPT ![worker[w].message] = "silent_completed"]
  /\ replyDueAt' = NoTime
  /\ conversationLock' = NULL
  /\ worker' = [worker EXCEPT ![w].pc = "done"]
  /\ UNCHANGED <<now, connectionVars, sequence, nextSequence, latestInbound, lastReplyAt,
                 lastExchangeAt, inboxVars, queueVars, aiLock, sendVars>>

\* The provider, a tool or the save failed: the transaction rolls back,
\* process() throws and pg-boss retries or gives up.  Nothing marks the
\* message.
FailSession(w) ==
  /\ "providerFailure" \in Faults
  /\ worker[w].pc = "session"
  /\ conversationLock' = NULL
  /\ aiLock' = NULL
  /\ job' = JobFailed(worker[w].message)
  /\ worker' = [worker EXCEPT ![w] = Idle]
  /\ UNCHANGED <<now, connectionVars, conversationVars, inboxVars, outbox, publishing, sendVars>>

\* process() returns: the session lock is released, pg-boss completes the job.
FinishJob(w) ==
  /\ worker[w].pc = "done"
  /\ aiLock' = NULL
  /\ job' = JobDone(worker[w].message)
  /\ worker' = [worker EXCEPT ![w] = Idle]
  /\ UNCHANGED <<now, connectionVars, conversationVars, inboxVars, outbox, publishing,
                 conversationLock, sendVars>>

\* The worker dies: its transaction rolls back and its sessions close, the job
\* stays active until it expires.
WorkerCrash(w) ==
  /\ "workerCrash" \in Faults
  /\ worker[w] # Idle
  /\ aiLock' = IF aiLock = w THEN NULL ELSE aiLock
  /\ conversationLock' = IF conversationLock = w THEN NULL ELSE conversationLock
  /\ worker' = [worker EXCEPT ![w] = Idle]
  /\ UNCHANGED <<now, connectionVars, conversationVars, inboxVars, queueVars, sendVars>>

\* pg-boss expires an active job, whether its slot died or is only slow.
ExpireJob(m) ==
  /\ job[m].state = "active"
  /\ "expire" \in Faults \/ \A w \in Workers : worker[w].message # m
  /\ job' = JobFailed(m)
  /\ UNCHANGED <<now, connectionVars, conversationVars, inboxVars, outbox, publishing,
                 workerVars, sendVars>>

-----------------------------------------------------------------------------
(* PostgresOutboundDispatcher.dispatchNext.                                *)

\* claim_owned_outbound: only for the owner of a CONNECTED connection, only a
\* conversation no other transaction holds.  A generated row whose source is
\* no longer the latest message is closed on the way.
CanClaim(p) ==
  /\ \E m \in Customer : outbound[m].state = "generated"
  /\ connected /\ businessActive
  /\ manager[p].active /\ ownership # 0 /\ manager[p].token = ownership
  /\ conversationLock = NULL

ClaimOutbound(p) ==
  LET due  == replyDueAt = NoTime \/ replyDueAt <= now
      mine == {m \in Customer : outbound[m].state = "generated" /\ m = latestInbound /\ due}
  IN  /\ CanClaim(p)
      /\ outbound' = [m \in Customer |->
             IF m \in mine THEN [outbound[m] EXCEPT !.state = "sending", !.token = ownership]
             ELSE IF m # latestInbound THEN Retire(outbound[m], "superseded")
             ELSE outbound[m]]
      /\ flight' = flight \cup {[by |-> p, message |-> m, token |-> ownership,
                                 stage |-> "claimed"] : m \in mine}
      /\ replyDueAt' = IF mine = {} THEN replyDueAt ELSE NoTime
      /\ UNCHANGED <<now, connectionVars, sequence, nextSequence, latestInbound, lastReplyAt,
                     lastExchangeAt, message, inboxVars, queueVars, workerVars, sends>>

\* admitBusinessSend and the call of the provider under the same FOR SHARE
\* lock.  A business that is not admitted ends the dispatch there: the row
\* keeps its state.
InvokeProvider(f) ==
  /\ f \in flight /\ f.stage = "claimed"
  /\ IF businessActive
     THEN /\ flight' = (flight \ {f}) \cup {[f EXCEPT !.stage = "invoked"]}
          /\ sends' = [sends EXCEPT ![f.message] = @ + 1]
     ELSE /\ flight' = flight \ {f}
          /\ UNCHANGED sends
  /\ UNCHANGED <<now, connectionVars, conversationVars, inboxVars, queueVars, workerVars, outbound>>

\* What the dispatch learnt: an ack, a rejection, or an exception (which the
\* admission itself can raise too).
Outcome(f) == {o \in {"sent", "failed", "delivery_unknown"} :
                 /\ f.stage = "claimed" => o = "delivery_unknown"
                 /\ o = "failed" => "rejected" \in Faults
                 /\ o = "delivery_unknown" => "unknown" \in Faults}

\* Mutant of Fenced: the row's own token is enough.
FencedByRow(f) == /\ outbound[f.message].state = "sending"
                  /\ outbound[f.message].token = f.token

\* finishOutbound locks conversation, connection and row; the caller must own
\* the connection and the row must be the one it claimed.
Fenced(f) == /\ ownership = f.token
             /\ outbound[f.message].state = "sending"
             /\ outbound[f.message].token = f.token

\* A delivered reply becomes a message of the conversation.
RecordReply(m) ==
  /\ sequence' = [sequence EXCEPT ![Reply(m)] = IF @ = 0 THEN nextSequence ELSE @]
  /\ nextSequence' = nextSequence + 1
  /\ lastReplyAt' = now /\ lastExchangeAt' = now

\* Mutant of FailureCode: it is the state, whatever it is.
StateAsCode(o) == o

FailureCode(o) == IF o = "sent" THEN "none" ELSE o

FinishOutbound(f) ==
  /\ f \in flight /\ conversationLock = NULL
  /\ flight' = flight \ {f}
  /\ \E o \in Outcome(f) :
       IF ~Fenced(f)
       THEN UNCHANGED <<outbound, sequence, nextSequence, lastReplyAt, lastExchangeAt>>
       ELSE /\ outbound' = [outbound EXCEPT ![f.message].state = o,
                                            ![f.message].code = FailureCode(o)]
            /\ IF o = "sent"
               THEN RecordReply(f.message)
               ELSE UNCHANGED <<sequence, nextSequence, lastReplyAt, lastExchangeAt>>
  /\ UNCHANGED <<now, connectionVars, latestInbound, replyDueAt, message, inboxVars,
                 queueVars, workerVars, sends>>

-----------------------------------------------------------------------------
Next ==
  \/ Tick \/ SetBusinessStatus \/ SetAgentActive
  \/ \E p \in Managers : TakeOver(p) \/ Attach(p) \/ CloseLease(p) \/ LoseAdvisoryLock(p)
                         \/ ManagerCrash(p) \/ ClaimOutbound(p)
  \/ \E id \in ProviderId : Route(id) \/ IngestIgnored(id) \/ IngestManual(id)
  \/ \E m \in Customer : IngestCustomer(m) \/ ExpireJob(m)
  \/ \E p \in Managers, m \in Customer : ClaimAiOutbox(p, m)
  \/ \E q \in publishing : PublishJob(q) \/ CompleteAiOutbox(q) \/ ReleaseAiOutbox(q)
  \/ \E w \in Workers, m \in Customer : FetchJob(w, m)
  \/ \E w \in Workers : AcquireAiLock(w) \/ BeginSession(w) \/ CommitReply(w) \/ CommitSilent(w)
                        \/ FailSession(w) \/ FinishJob(w) \/ WorkerCrash(w)
  \/ \E f \in flight : InvokeProvider(f) \/ FinishOutbound(f)

Spec == Init /\ [][Next]_vars

\* The manager polls on a timer (start, claims, dispatches), pg-boss delivers
\* and expires jobs, converseAgent bounds its rounds and time, and a slot that
\* waits for the advisory lock tries it every 25 ms.  Nothing is assumed of
\* customers, of the business or of the faults.
Fairness ==
  /\ WF_vars(Tick)
  /\ WF_vars(\E p \in Managers : TakeOver(p))
  /\ WF_vars(\E p \in Managers : Attach(p))
  /\ WF_vars(\E p \in Managers : ClaimOutbound(p))
  /\ \A m \in Customer :
       /\ WF_vars(\E p \in Managers : ClaimAiOutbox(p, m))
       /\ WF_vars(\E q \in publishing : q.message = m /\ (PublishJob(q) \/ CompleteAiOutbox(q)))
       /\ WF_vars(\E w \in Workers : FetchJob(w, m))
       /\ WF_vars(ExpireJob(m))
       /\ WF_vars(\E f \in flight : f.message = m /\ (InvokeProvider(f) \/ FinishOutbound(f)))
  /\ \A w \in Workers :
       /\ WF_vars(AcquireAiLock(w))
       /\ WF_vars(BeginSession(w) \/ CommitReply(w) \/ FinishJob(w))

FairSpec == Spec /\ Fairness

-----------------------------------------------------------------------------
(* Safety.                                                                 *)

\* The provider is called at most once for a reply, whatever managers crash,
\* lose their lock or take over between claim, admission and acknowledgement
\* (claim_owned_outbound, dispatchNext, takeOverWhatsApp).
AtMostOneSend == \A m \in Customer : sends[m] <= 1

\* Why it is: only a claimed row has a dispatch, it has a single one, and the
\* provider is called by that dispatch, so no path (a takeover, a lost lock, a
\* retry of the job) offers a row again after its call.
OneDispatchPerReply ==
  /\ \A m \in Customer : outbound[m].state \in {"none", "generated"} => sends[m] = 0
  /\ \A f \in flight : outbound[f.message].state \in {"sending", "delivery_unknown"}
  /\ \A f, g \in flight : f.message = g.message => f = g
  /\ \A f \in flight : f.stage = "claimed" => sends[f.message] = 0

\* A reply that a newer customer message or a text of the business retired
\* before it was claimed never reaches the provider (ingestInbound against
\* claim_owned_outbound).
RetiredNeverSent ==
  \A m \in Customer : outbound[m].code \in {"superseded", "manual_reply"} => sends[m] = 0

\* A row in `sending` belongs to the last ownership token drawn: a takeover
\* leaves none of its predecessors' behind, so no row can wait for an owner
\* that is already fenced off.
SendingBelongsToLastOwner ==
  \A m \in Customer : outbound[m].state = "sending" => outbound[m].token = tokens

\* A deadline always has something to wait for: the newest message is still
\* unanswered, or its reply is not yet claimed.  A deadline left behind would
\* make the next message be answered with no delay (replyDeadline keeps a
\* pending one) or hold back the claim of another reply.
DeadlineHasMessage ==
  replyDueAt # NoTime =>
    /\ latestInbound # NULL
    /\ message[latestInbound] = "pending" \/ outbound[latestInbound].state = "generated"

\* Rows of the conversation have distinct sequence numbers below
\* next_sequence, although ingestion and finishOutbound both draw them.
SequencesDistinct ==
  /\ \A a \in ProviderId : sequence[a] < nextSequence
  /\ \A a, b \in ProviderId : a # b /\ sequence[a] # 0 => sequence[a] # sequence[b]

\* The history holds a reply as a message exactly when its delivery was
\* acknowledged, and after the message it answers: an echo that arrives
\* before the acknowledgement is not taken for a text of the business.
ReplyRowMeansSent ==
  \A m \in Customer :
    /\ sequence[Reply(m)] # 0 <=> outbound[m].state = "sent"
    /\ sequence[Reply(m)] # 0 => sequence[Reply(m)] > sequence[m]

\* No job is left to be published for a superseded message: the row that would
\* wake the worker is settled by the transaction that supersedes it.
SupersededIsSettled ==
  \A m \in Customer : message[m] = "superseded" => outbox[m].state = "published"

\* A reply is only ever claimed while nothing newer was said: neither the
\* customer nor the business has a later row than the message it answers.
ReplyAnswersNewest ==
  [][\A m \in Customer :
       outbound[m].state = "generated" /\ outbound'[m].state = "sending" =>
         \A id \in Customer \cup Manual : sequence[id] <= sequence[m]]_vars

\* An acknowledgement or a rejection is recorded only by the manager that owns
\* the connection at that moment, under the token it claimed the row with.
OnlyOwnerCloses ==
  [][\A m \in Customer :
       outbound[m].state = "sending" /\ outbound'[m].state \in {"sent", "failed"} =>
         outbound[m].token = ownership]_vars

\* A burst never slides the deadline: once set it is only ever cleared.
DeadlineNeverSlides ==
  [][replyDueAt # NoTime => replyDueAt' \in {replyDueAt, NoTime}]_vars

-----------------------------------------------------------------------------
(* Liveness, while business, agent and connection stay up.                 *)

\* A message waiting for an answer is answered, completed silently or
\* superseded, or its job used up its retries (claim_ai_outbox, pg-boss,
\* PostgresAiJobProcessor.process).
PendingResolves ==
  \A m \in Customer : message[m] = "pending" ~> message[m] # "pending" \/ job[m].state = "failed"

\* A generated reply leaves `generated`, and a claimed one is closed even when
\* its manager dies: the next owner's takeover closes it.
ReplySettles ==
  \A m \in Customer : outbound[m].state \in {"generated", "sending"} ~>
                       outbound[m].state \in {"sent", "failed", "delivery_unknown"}

\* docs/ARCHITECTURE.md: "Un fallo del proveedor marca ai_failed".  Read with
\* provider failures as the only fault: a job that gave up leaves no message
\* pending (PostgresAiJobProcessor.process, failAi).
ProviderFailureMarked == \A m \in Customer : job[m].state = "failed" => message[m] # "pending"

\* docs/ARCHITECTURE.md: the manager closes what it claimed "en sent, failed o
\* delivery_unknown", also when the business is suspended for a while between
\* the claim and the admission (dispatchNext, admit_business_send).
ClaimedIsClosed ==
  \A m \in Customer : outbound[m].state = "sending" ~> outbound[m].state # "sending"

-----------------------------------------------------------------------------
(* Refinement of Delivery: a reply is pending until its message is         *)
(* ingested, and processing until it is generated.                         *)
DeliveryOf(m) ==
  IF message[m] = "none" THEN "pending"
  ELSE IF outbound[m].state = "none" THEN "processing" ELSE outbound[m].state

Abstract == INSTANCE Delivery WITH
              Command <- Customer,
              state   <- [m \in Customer |-> DeliveryOf(m)],
              sends   <- sends

\* Every behaviour of the pipeline is one of the delivery table, with at most
\* one provider call per reply.
ImplementsDelivery == Abstract!DeliverySpec
=============================================================================
