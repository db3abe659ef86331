----------------------------- MODULE Summaries -----------------------------
(***************************************************************************)
(* The summaries of one conversation and the context the agent is given.   *)
(* Before an answer the worker plans a summary when the conversation has   *)
(* grown past a budget; a second queue computes it, outside of any         *)
(* transaction, and stores it by a compare-and-swap on version and         *)
(* coverage (ai-job.ts, messaging.ts).  The context of an answer is the    *)
(* newest summary that stops before the messages being answered, the       *)
(* latest turns after it, and those messages (context.ts).                 *)
(*                                                                         *)
(* A turn is known by its sequence; a text counts as one unit of budget.   *)
(* What a summary tells is the set of turns its text was computed from.    *)
(***************************************************************************)
EXTENDS Integers, Sequences, FiniteSets

CONSTANTS
  Summarizers,     \* handlers of conversation-summary, in any process
  Budget,          \* turns a conversation may have without a summary
  HistoryTurns,    \* latest turns the context holds
  SummaryRetries,  \* retries pg-boss makes of a job
  MaxTurns,        \* bound: turns of the conversation
  MaxTrouble       \* bound: lost locks, dead workers and expired jobs

ASSUME SummariesAssumption == {Budget, HistoryTurns, SummaryRetries, MaxTurns, MaxTrouble} \subseteq Nat

VARIABLES
  turns,      \* by sequence, who wrote it: messages, all of them visible
  closes,     \* turns that end a group of messages
  latest,     \* the pending message the agent would answer, or 0
  sending,    \* messages whose reply was claimed and is not settled
  rows,       \* conversation_summaries
  jobs,       \* conversation-summary jobs in the queue
  handling,   \* what the workers are summarising
  lock,       \* the worker that has the session advisory lock, if any
  trouble     \* faults so far
conversation == <<turns, closes, latest, sending>>
summaries == <<conversation, rows, jobs, handling, lock, trouble>>

Who == {"customer", "agent", "business"}
Job == [through : 1..MaxTurns, tries : 0..SummaryRetries]
Row == [version : Nat \ {0}, through : 1..MaxTurns, tells : SUBSET (1..MaxTurns), bounded : BOOLEAN]
Handling == [worker : Summarizers, job : Job, version : Nat, tells : SUBSET (1..MaxTurns)]

SummariesTypeOK ==
  /\ turns \in Seq(Who) /\ Len(turns) <= MaxTurns
  /\ closes \subseteq 1..Len(turns) /\ latest \in 0..Len(turns) /\ sending \subseteq 1..Len(turns)
  /\ rows \subseteq Row /\ jobs \subseteq Job
  /\ handling \subseteq Handling /\ lock \subseteq Summarizers /\ trouble \in 0..MaxTrouble

SummariesInit ==
  /\ turns = <<>> /\ closes = {} /\ latest = 0 /\ sending = {}
  /\ rows = {} /\ jobs = {}
  /\ handling = {} /\ lock = {} /\ trouble = 0

-----------------------------------------------------------------------------
\* The newest of a set of rows, by coverage: order by covered_through desc, version desc.
None == [version |-> 0, through |-> 0, tells |-> {}, bounded |-> TRUE]
IsNewest(r, some) ==
  \A other \in some :
    other.through < r.through \/ (other.through = r.through /\ other.version <= r.version)
Newest(some) ==
  IF \E r \in some : IsNewest(r, some) THEN CHOOSE r \in some : IsNewest(r, some) ELSE None

-----------------------------------------------------------------------------
\* The conversation.  Whatever is said takes the next sequence under the conversation's lock.
Say(who) == Len(turns) < MaxTurns /\ turns' = Append(turns, who)

\* A message of the customer; what was pending before is superseded.
Inbound ==
  /\ Say("customer") /\ latest' = Len(turns) + 1
  /\ UNCHANGED <<closes, sending, rows, jobs, handling, lock, trouble>>

\* The business writes by hand: nothing is pending any more.
BusinessText ==
  /\ Say("business") /\ closes' = closes \cup {Len(turns) + 1} /\ latest' = 0
  /\ UNCHANGED <<sending, rows, jobs, handling, lock, trouble>>

\* The reply is claimed: its message is closed, whatever becomes of the delivery.
Claim ==
  /\ latest # 0 /\ closes' = closes \cup {latest} /\ sending' = sending \cup {latest} /\ latest' = 0
  /\ UNCHANGED <<turns, rows, jobs, handling, lock, trouble>>

\* The agent decides not to answer.
NoAnswer ==
  /\ latest # 0 /\ closes' = closes \cup {latest} /\ latest' = 0
  /\ UNCHANGED <<turns, sending, rows, jobs, handling, lock, trouble>>

\* The delivery is settled; only an acknowledged reply is a row of the history.
Acknowledge(m) ==
  /\ m \in sending /\ sending' = sending \ {m} /\ Say("agent")
  /\ UNCHANGED <<closes, latest, rows, jobs, handling, lock, trouble>>
Undelivered(m) ==
  /\ m \in sending /\ sending' = sending \ {m}
  /\ UNCHANGED <<turns, closes, latest, rows, jobs, handling, lock, trouble>>

-----------------------------------------------------------------------------
\* planSummary, before the answer to the pending message, and boss.send.
Plan ==
  /\ latest # 0 /\ Len(turns) > Budget /\ Len(turns) > Newest(rows).through
  /\ jobs' = jobs \cup {[through |-> Len(turns), tries |-> 0]}
  /\ UNCHANGED <<conversation, rows, handling, lock, trouble>>

\* loadSummarySource: the rows up to the coverage asked for; what is told is what they told and what came after.
Prior(job) == Newest({r \in rows : r.through <= job.through})
Source(w, job) ==
  [worker |-> w, job |-> job, version |-> Prior(job).version,
   tells |-> Prior(job).tells \cup (Prior(job).through + 1)..job.through]

Fetch(w, job) == job \in jobs /\ jobs' = jobs \ {job} /\ \A h \in handling : h.worker # w

\* A worker fetches a job, gets the lock and reads the source.
Take(w, job) ==
  /\ Fetch(w, job) /\ lock = {} /\ Prior(job).through < job.through
  /\ lock' = {w} /\ handling' = handling \cup {Source(w, job)}
  /\ UNCHANGED <<conversation, rows, trouble>>

\* Another handler has the lock, or there is nothing new to tell: the job is stale, and over.
Stale(w, job) ==
  /\ Fetch(w, job) /\ (lock # {} \/ Prior(job).through >= job.through)
  /\ UNCHANGED <<conversation, rows, handling, lock, trouble>>

\* saveConversationSummary: the row is inserted if it is the next version and covers more than any.
(* Mutant: the row takes the next version, whatever was stored meanwhile. *)
StoredAnyway(h, bounded) ==
  rows \cup {[version |-> Cardinality(rows) + 1, through |-> h.job.through, tells |-> h.tells, bounded |-> bounded]}
Stored(h, bounded) ==
  IF /\ \A r \in rows : r.through < h.job.through /\ r.version <= h.version
     /\ h.version = 0 \/ \E r \in rows : r.version = h.version
  THEN rows \cup {[version |-> h.version + 1, through |-> h.job.through, tells |-> h.tells, bounded |-> bounded]}
  ELSE rows

Finish(h) == handling' = handling \ {h} /\ lock' = lock \ {h.worker}

\* The summarizer answered, in bounds of the context or not.
Save(h, bounded) ==
  /\ h \in handling /\ Finish(h) /\ rows' = Stored(h, bounded)
  /\ UNCHANGED <<conversation, jobs, trouble>>

\* The queue takes a job up again, a limited number of times.
Retry(job) ==
  jobs' = IF job.tries < SummaryRetries THEN jobs \cup {[job EXCEPT !.tries = @ + 1]} ELSE jobs

\* The summarizer failed, or its answer has not the five lists.
Fail(h) ==
  /\ h \in handling /\ Finish(h) /\ Retry(h.job)
  /\ UNCHANGED <<conversation, rows, trouble>>

Trouble == trouble < MaxTrouble /\ trouble' = trouble + 1

\* The process dies: its session too, and the job expires.
Die(h) ==
  /\ Trouble /\ h \in handling /\ Finish(h) /\ Retry(h.job)
  /\ UNCHANGED <<conversation, rows>>

\* The job expires while its handler goes on: the queue gives it to another.
Expire(h) ==
  /\ Trouble /\ h \in handling /\ Retry(h.job)
  /\ UNCHANGED <<conversation, rows, handling, lock>>

\* The session of the lock breaks; its handler does not notice.
LoseLock ==
  /\ Trouble /\ lock # {} /\ lock' = {}
  /\ UNCHANGED <<conversation, rows, jobs, handling>>

SummariesNext ==
  \/ Inbound \/ BusinessText \/ Claim \/ NoAnswer \/ Plan \/ LoseLock
  \/ \E m \in sending : Acknowledge(m) \/ Undelivered(m)
  \/ \E w \in Summarizers, job \in jobs : Take(w, job) \/ Stale(w, job)
  \/ \E h \in handling, bounded \in BOOLEAN : Save(h, bounded)
  \/ \E h \in handling : Fail(h) \/ Expire(h) \/ Die(h)

SummariesSpec == SummariesInit /\ [][SummariesNext]_summaries

-----------------------------------------------------------------------------
\* The context of the answer to the pending message, as loadAiMessage and buildAgentMessages compose it.

\* currentGroup: the customer's messages since the last turn that closed a group.
CurrentGroup ==
  {s \in 1..latest : turns[s] = "customer" /\ \A c \in closes : c < latest => c < s}

\* The newest row in bounds that stops before the group; s is before the group.
Before(s) == s \in 1..latest /\ \A g \in CurrentGroup : s < g
(* Mutant: the newest row in bounds. *)
ChosenAnyway == Newest({r \in rows : r.bounded})
Chosen == Newest({r \in rows : r.bounded /\ Before(r.through)})

\* The latest turns before the group that the summary does not tell.
Untold == {s \in 1..latest : Before(s) /\ s > Chosen.through}
History == {s \in Untold : Cardinality({t \in Untold : t > s}) < HistoryTurns}

-----------------------------------------------------------------------------
(* A stored summary was computed from every turn of the conversation up to  *)
(* its coverage and from no other, whichever summary its worker started     *)
(* from; and versions and coverage grow together: of two summaries computed *)
(* at the same time by workers that lost the lock, or retried, or planned   *)
(* for less than was covered meanwhile, one is stored (ai-job.ts, process,  *)
(* and saveConversationSummary).                                            *)
TellsAll == \A r \in rows : r.tells = 1..r.through
CoverageGrows ==
  \A r, other \in rows : r # other =>
    r.version # other.version /\ (r.version < other.version <=> r.through < other.through)
SummariesAgree == TellsAll /\ CoverageGrows

(* The agent is told everything once: what it is answering is neither in    *)
(* the summary nor in the history, no turn is in both, and a turn before    *)
(* the group that is in neither is older than a full history.  It is so     *)
(* although the summary was planned with the messages that were pending     *)
(* then and may be pending still (buildAgentMessages).                      *)
ToldOnce ==
  latest # 0 =>
    /\ (Chosen.tells \cup History) \cap CurrentGroup = {} /\ Chosen.tells \cap History = {}
    /\ \A s \in 1..latest : Before(s) =>
         s \in Chosen.tells \cup History \/ Cardinality({t \in History : t > s}) >= HistoryTurns
=============================================================================
