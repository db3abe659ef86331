-------------------------- MODULE MessagingProofs ---------------------------
(***************************************************************************)
(* Theorems about the message pipeline, for every set of customers' texts, *)
(* managers and workers and every value of the delays and bounds; before   *)
(* them, about the summaries of its conversations, for any number of       *)
(* summarisers, turns, retries and faults.                                 *)
(*                                                                         *)
(* Each invariant is proved from its initial state and its step; the step  *)
(* has one case per action that can disturb it, and a lemma disposes of    *)
(* the actions that cannot (SenderSteps, ConversationSteps).               *)
(***************************************************************************)
EXTENDS Messaging, Summaries, FiniteSetTheorems, WellFoundedInduction, TLAPS

-----------------------------------------------------------------------------
(* The summaries of a conversation. What a worker tells is what its source *)
(* told up to the coverage of its job, and a row is stored only above all  *)
(* others: the advisory lock is not needed for either.                     *)

WorkersTellAll == \A h \in handling : h.tells = 1..h.job.through
SummariesInv == SummariesTypeOK /\ SummariesAgree /\ WorkersTellAll

(* The newest of some rows is one of them, or the empty summary. *)
LEMMA NewestIsOneOfThem ==
  ASSUME NEW some PROVE Newest(some) \in some \cup {None}
  BY DEF Newest

LEMMA RowsTellAll ==
  ASSUME SummariesInv, NEW r \in rows \cup {None}
  PROVE  r.tells = 1..r.through /\ r.through \in 0..MaxTurns /\ r.version \in Nat
  <1>1. CASE r = None
    <2>1. 1..0 = {} OBVIOUS
    <2>2. QED BY <1>1, <2>1, SummariesAssumption DEF None
  <1>2. CASE r \in rows
    <2>1. r \in Row BY <1>2 DEF SummariesInv, SummariesTypeOK
    <2>2. r.through \in 1..MaxTurns /\ r.version \in Nat BY <2>1 DEF Row
    <2>3. QED BY <1>2, <2>2 DEF SummariesInv, SummariesAgree, TellsAll
  <1>3. QED BY <1>1, <1>2

LEMMA PriorTellsAll ==
  ASSUME SummariesInv, NEW due \in Job
  PROVE  /\ Prior(due).tells = 1..Prior(due).through
         /\ Prior(due).through \in 0..due.through /\ Prior(due).version \in Nat
  <1>1. Prior(due) \in {r \in rows : r.through <= due.through} \cup {None}
    BY NewestIsOneOfThem DEF Prior
  <1>2. QED
    BY <1>1, RowsTellAll DEF None, Job

LEMMA SummariesInvInit == SummariesInit => SummariesInv
  BY SummariesAssumption
  DEF SummariesInit, SummariesInv, SummariesTypeOK, SummariesAgree, TellsAll, CoverageGrows, WorkersTellAll

(* What is said changes neither the summaries nor the work on them. *)
LEMMA TurnSaid ==
  ASSUME SummariesTypeOK, NEW who \in Who, Say(who)
  PROVE  /\ turns' \in Seq(Who) /\ Len(turns') = Len(turns) + 1 /\ Len(turns') <= MaxTurns
  BY SummariesAssumption DEF SummariesTypeOK, Say

LEMMA SummariesTypeStep == SummariesTypeOK /\ SummariesInv /\ [SummariesNext]_summaries => SummariesTypeOK'
  <1> SUFFICES ASSUME SummariesTypeOK, SummariesInv, [SummariesNext]_summaries PROVE SummariesTypeOK'
    OBVIOUS
  <1> USE SummariesAssumption
  <1>0. Len(turns) \in Nat
    BY DEF SummariesTypeOK
  <1>1. CASE Inbound \/ BusinessText
    <2>1. turns' \in Seq(Who) /\ Len(turns') = Len(turns) + 1 /\ Len(turns') <= MaxTurns
      BY <1>1, TurnSaid DEF Inbound, BusinessText, Who
    <2>2. 1..Len(turns) \cup {Len(turns) + 1} = 1..Len(turns')
      BY <1>0, <2>1
    <2>3. CASE Inbound
      <3>1. latest' \in 0..Len(turns') BY <1>0, <2>1, <2>3 DEF Inbound
      <3>2. QED BY <2>1, <2>2, <2>3, <3>1 DEF Inbound, SummariesTypeOK
    <2>4. CASE BusinessText
      <3>1. latest' \in 0..Len(turns') BY <1>0, <2>1, <2>4 DEF BusinessText
      <3>2. QED BY <2>1, <2>2, <2>4, <3>1 DEF BusinessText, SummariesTypeOK
    <2>5. QED BY <1>1, <2>3, <2>4
  <1>2. CASE Claim \/ NoAnswer
    <2>1. latest \in 1..Len(turns) /\ UNCHANGED turns
      BY <1>0, <1>2 DEF Claim, NoAnswer, SummariesTypeOK
    <2>2. latest' \in 0..Len(turns)
      BY <1>0, <1>2 DEF Claim, NoAnswer
    <2>3. CASE Claim BY <2>1, <2>2, <2>3 DEF Claim, SummariesTypeOK
    <2>4. CASE NoAnswer BY <2>1, <2>2, <2>4 DEF NoAnswer, SummariesTypeOK
    <2>5. QED BY <1>2, <2>3, <2>4
  <1>3. ASSUME NEW m \in sending, Acknowledge(m) PROVE SummariesTypeOK'
    <2>1. turns' \in Seq(Who) /\ Len(turns') = Len(turns) + 1 /\ Len(turns') <= MaxTurns
      BY <1>3, TurnSaid DEF Acknowledge, Who
    <2>2. closes' \subseteq 1..Len(turns') /\ latest' \in 0..Len(turns') /\ sending' \subseteq 1..Len(turns')
      BY <1>0, <1>3, <2>1 DEF Acknowledge, SummariesTypeOK
    <2>3. QED BY <1>3, <2>1, <2>2 DEF Acknowledge, SummariesTypeOK
  <1>4. ASSUME NEW m \in sending, Undelivered(m) PROVE SummariesTypeOK'
    BY <1>4 DEF Undelivered, SummariesTypeOK
  <1>5. CASE Plan
    <2>1. [through |-> Len(turns), tries |-> 0] \in Job
      BY <1>5 DEF Plan, SummariesTypeOK, Job
    <2>2. QED BY <1>5, <2>1 DEF Plan, SummariesTypeOK, conversation
  <1>6. ASSUME NEW w \in Summarizers, NEW due \in jobs, Take(w, due) PROVE SummariesTypeOK'
    <2>1. due \in Job BY DEF SummariesTypeOK
    <2>2. Source(w, due) \in Handling
      BY <2>1, PriorTellsAll DEF Source, Handling, Job
    <2>3. QED BY <1>6, <2>2 DEF Take, Fetch, SummariesTypeOK, conversation
  <1>7. ASSUME NEW w \in Summarizers, NEW due \in jobs, Stale(w, due) PROVE SummariesTypeOK'
    BY <1>7 DEF Stale, Fetch, SummariesTypeOK, conversation
  <1>8. ASSUME NEW h \in handling, NEW bounded \in BOOLEAN, Save(h, bounded) PROVE SummariesTypeOK'
    <2>1. h \in Handling BY DEF SummariesTypeOK
    <2>2. [version |-> h.version + 1, through |-> h.job.through, tells |-> h.tells, bounded |-> bounded] \in Row
      BY <2>1 DEF Row, Handling, Job
    <2>3. Stored(h, bounded) \subseteq Row
      BY <2>2 DEF Stored, SummariesTypeOK
    <2>4. QED BY <1>8, <2>3 DEF Save, Finish, SummariesTypeOK, conversation
  <1>9. ASSUME NEW h \in handling, Retry(h.job) PROVE jobs' \subseteq Job
    <2>1. h.job \in Job BY DEF SummariesTypeOK, Handling
    <2>2. h.job.tries < SummaryRetries => [h.job EXCEPT !.tries = @ + 1] \in Job
      BY <2>1 DEF Job
    <2>3. QED BY <1>9, <2>2 DEF Retry, SummariesTypeOK
  <1>10. ASSUME NEW h \in handling, Fail(h) \/ Expire(h) \/ Die(h) PROVE SummariesTypeOK'
    <2>1. jobs' \subseteq Job BY <1>9, <1>10 DEF Fail, Expire, Die
    <2>2. CASE Fail(h) BY <2>1, <2>2 DEF Fail, Finish, SummariesTypeOK, conversation
    <2>3. CASE Expire(h) BY <2>1, <2>3 DEF Expire, Trouble, SummariesTypeOK, conversation
    <2>4. CASE Die(h) BY <2>1, <2>4 DEF Die, Finish, Trouble, SummariesTypeOK, conversation
    <2>5. QED BY <1>10, <2>2, <2>3, <2>4
  <1>11. CASE LoseLock
    BY <1>11 DEF LoseLock, Trouble, SummariesTypeOK, conversation
  <1>12. CASE UNCHANGED summaries
    BY <1>12 DEF summaries, conversation, SummariesTypeOK
  <1>13. QED
    BY <1>1, <1>2, <1>3, <1>4, <1>5, <1>6, <1>7, <1>8, <1>10, <1>11, <1>12 DEF SummariesNext

(* Only Take brings work and only Save brings rows. *)
LEMMA SummariesAgreeStep == SummariesInv /\ [SummariesNext]_summaries => SummariesAgree' /\ WorkersTellAll'
  <1> SUFFICES ASSUME SummariesInv, [SummariesNext]_summaries PROVE SummariesAgree' /\ WorkersTellAll'
    OBVIOUS
  <1> USE SummariesAssumption
  <1>1. ASSUME NEW w \in Summarizers, NEW due \in jobs, Take(w, due) PROVE SummariesAgree' /\ WorkersTellAll'
    <2>1. due \in Job BY DEF SummariesInv, SummariesTypeOK
    <2>2. Prior(due).tells \cup (Prior(due).through + 1)..due.through = 1..due.through
      BY <2>1, PriorTellsAll DEF Job
    <2>3. Source(w, due).tells = 1..Source(w, due).job.through
      BY <2>2 DEF Source
    <2>4. UNCHANGED rows /\ handling' = handling \cup {Source(w, due)}
      BY <1>1 DEF Take
    <2>5. QED BY <2>3, <2>4 DEF SummariesInv, SummariesAgree, TellsAll, CoverageGrows, WorkersTellAll
  <1>2. ASSUME NEW h \in handling, NEW bounded \in BOOLEAN, Save(h, bounded)
        PROVE  SummariesAgree' /\ WorkersTellAll'
    <2> DEFINE row == [version |-> h.version + 1, through |-> h.job.through, tells |-> h.tells, bounded |-> bounded]
    <2>1. h \in Handling /\ h.tells = 1..h.job.through /\ handling' \subseteq handling
      BY <1>2 DEF SummariesInv, SummariesTypeOK, WorkersTellAll, Save, Finish
    <2>2. \/ UNCHANGED rows
          \/ rows' = rows \cup {row} /\ \A r \in rows : r.through < row.through /\ r.version < row.version
      BY <1>2, <2>1 DEF Save, Stored, SummariesInv, SummariesTypeOK, Row, Handling, Job
    <2>3. TellsAll'
      BY <2>1, <2>2 DEF SummariesInv, SummariesAgree, TellsAll
    <2>4. CASE UNCHANGED rows
      BY <2>1, <2>3, <2>4 DEF SummariesInv, SummariesAgree, TellsAll, CoverageGrows, WorkersTellAll
    <2>5. CASE rows' = rows \cup {row} /\ \A r \in rows : r.through < row.through /\ r.version < row.version
      <3>1. \A r \in rows : r.through \in Nat /\ r.version \in Nat
        BY DEF SummariesInv, SummariesTypeOK, Row
      <3>2. row.through \in Nat /\ row.version \in Nat
        BY <2>1 DEF Handling, Job
      <3>3. CoverageGrows'
        BY <2>5, <3>1, <3>2 DEF SummariesInv, SummariesAgree, CoverageGrows
      <3>4. QED BY <2>1, <2>3, <3>3 DEF SummariesInv, SummariesAgree, WorkersTellAll
    <2>6. QED BY <2>2, <2>4, <2>5
  <1>3. CASE UNCHANGED rows /\ handling' \subseteq handling
    BY <1>3 DEF SummariesInv, SummariesAgree, TellsAll, CoverageGrows, WorkersTellAll
  <1>4. ASSUME NEW w \in Summarizers, NEW due \in jobs, Stale(w, due)
        PROVE  UNCHANGED rows /\ handling' \subseteq handling
    BY <1>4 DEF Stale
  <1>5. ASSUME NEW h \in handling, Fail(h) \/ Expire(h) \/ Die(h)
        PROVE  UNCHANGED rows /\ handling' \subseteq handling
    BY <1>5 DEF Fail, Expire, Die, Finish
  <1>6. ASSUME NEW m \in sending, Acknowledge(m) \/ Undelivered(m)
        PROVE  UNCHANGED rows /\ handling' \subseteq handling
    BY <1>6 DEF Acknowledge, Undelivered
  <1>7. CASE Inbound \/ BusinessText \/ Claim \/ NoAnswer \/ Plan \/ LoseLock \/ UNCHANGED summaries
    BY <1>7, <1>3 DEF Inbound, BusinessText, Claim, NoAnswer, Plan, LoseLock, summaries
  <1>8. QED
    BY <1>1, <1>2, <1>3, <1>4, <1>5, <1>6, <1>7 DEF SummariesNext

LEMMA SummariesInvariant == SummariesSpec => []SummariesInv
  <1>1. SummariesInv /\ [SummariesNext]_summaries => SummariesInv'
    BY SummariesTypeStep, SummariesAgreeStep DEF SummariesInv
  <1>2. QED BY <1>1, SummariesInvInit, PTL DEF SummariesSpec

(* The conversation, its summaries and the work on them keep their types. *)
THEOREM SummariesTypes == SummariesSpec => []SummariesTypeOK
  BY SummariesInvariant, PTL DEF SummariesInv

(* A summary tells every turn up to its coverage and no other, and versions *)
(* and coverage grow together, with or without the advisory lock            *)
(* (saveConversationSummary).                                               *)
THEOREM SummariesTellAll == SummariesSpec => []SummariesAgree
  BY SummariesInvariant, PTL DEF SummariesInv

(* Nothing of what the agent is answering is in its summary or its history, *)
(* and no turn is in both.                                                  *)
NothingTwice ==
  (Chosen.tells \cup History) \cap CurrentGroup = {} /\ Chosen.tells \cap History = {}

LEMMA ToldTwiceNothing == SummariesInv => NothingTwice
  <1> SUFFICES ASSUME SummariesInv PROVE NothingTwice OBVIOUS
  <1> USE SummariesAssumption
  <1> DEFINE usable == {r \in rows : r.bounded /\ Before(r.through)}
  <1>1. Chosen \in usable \cup {None}
    BY NewestIsOneOfThem DEF Chosen
  <1>2. Chosen.tells = 1..Chosen.through /\ Chosen.through \in Nat
    BY <1>1, RowsTellAll
  <1>3. CurrentGroup \subseteq 1..latest /\ latest \in Nat
    BY DEF CurrentGroup, SummariesInv, SummariesTypeOK
  <1>4. \A g \in CurrentGroup : Chosen.through < g
    BY <1>1, <1>3 DEF Before, None
  <1>5. \A s \in History : s \in Nat /\ s > Chosen.through /\ Before(s)
    BY <1>3 DEF History, Untold
  <1>6. QED BY <1>2, <1>3, <1>4, <1>5 DEF NothingTwice, Before

(* Of some turns one is the last. *)
LEMMA LastOfSome ==
  ASSUME NEW n \in Nat, NEW S \in SUBSET (1..n), S # {}
  PROVE  \E t \in S : \A s \in S : s <= t
  <1> DEFINE back == {m \in Nat : n - m \in S}
  <1>1. back \subseteq Nat OBVIOUS
  <1>2. \A s \in S : n - s \in back /\ s \in Int
    <2>1. \A s \in S : n - s \in Nat /\ n - (n - s) = s /\ s \in Int OBVIOUS
    <2>2. QED BY <2>1
  <1>3. back # {} BY <1>2
  <1>4. PICK m \in back : \A x \in back : ~(<<x, m>> \in OpToRel(<, Nat))
    BY <1>1, <1>3, WFMin, NatLessThanWellFounded
  <1>5. \A x \in back : ~(x < m) BY <1>1, <1>4 DEF OpToRel
  <1>6. \A s \in S : ~(n - s < m) BY <1>2, <1>5
  <1>7. n - m \in S /\ m \in Nat OBVIOUS
  <1>8. \A s \in S : s <= n - m BY <1>2, <1>6, <1>7
  <1>9. QED BY <1>7, <1>8

(* A turn that is neither told nor in the history has a full history after  *)
(* it: all that is after the last such turn is in the history.              *)
LEMMA LeftOutIsOld ==
  ASSUME SummariesInv, NEW s \in Untold \ History
  PROVE  Cardinality({t \in History : t > s}) >= HistoryTurns
  <1> DEFINE left == Untold \ History
             later(x) == {t \in Untold : t > x}
             after == {t \in History : t > s}
  <1>1. latest \in Nat /\ Untold \subseteq 1..latest /\ HistoryTurns \in Nat
    BY SummariesAssumption DEF Untold, SummariesInv, SummariesTypeOK
  <1>2. PICK x \in left : \A y \in left : y <= x
    BY <1>1, LastOfSome
  <1>3. IsFiniteSet(1..latest) BY <1>1, FS_Interval
  <1>4. IsFiniteSet(after) BY <1>1, <1>3, FS_Subset DEF History
  <1>5. \A y \in Untold : Cardinality(later(y)) \in Nat
    BY <1>1, <1>3, FS_Subset, FS_CardinalityType
  <1>6. Cardinality(later(x)) >= HistoryTurns
    BY <1>1, <1>5 DEF History
  <1>7. later(x) \subseteq after
    <2>1. \A t \in Untold : t \in Int
      BY <1>1
    <2>2. s <= x /\ s \in Int /\ x \in Int
      BY <1>2, <2>1
    <2>3. \A t \in later(x) : t \in History /\ t > s
      BY <1>2, <2>1, <2>2
    <2>4. QED BY <2>3
  <1>8. Cardinality(later(x)) <= Cardinality(after) /\ Cardinality(after) \in Nat
    BY <1>4, <1>7, FS_Subset, FS_CardinalityType
  <1>9. Cardinality(later(x)) \in Nat BY <1>5
  <1>10. QED BY <1>1, <1>6, <1>8, <1>9

(* The agent is told everything once: nothing twice, and a turn before what *)
(* it is answering is left out only when a full history came after it       *)
(* (loadAiMessage and buildAgentMessages).                                  *)
THEOREM AgentIsToldOnce == SummariesSpec => []ToldOnce
  <1>1. SummariesInv => ToldOnce
    <2> SUFFICES ASSUME SummariesInv, NEW s \in 1..latest, Before(s), s \notin Chosen.tells \cup History
                 PROVE  Cardinality({t \in History : t > s}) >= HistoryTurns
      BY ToldTwiceNothing DEF ToldOnce, NothingTwice
    <2>1. Chosen \in rows \cup {None}
      BY NewestIsOneOfThem DEF Chosen
    <2>2. Chosen.tells = 1..Chosen.through /\ Chosen.through \in Nat
      BY <2>1, RowsTellAll, SummariesAssumption
    <2>3. s \in Untold
      BY <2>2 DEF Untold, SummariesInv, SummariesTypeOK
    <2>4. QED BY <2>3, LeftOutIsOld
  <1>2. QED BY <1>1, SummariesInvariant, PTL

-----------------------------------------------------------------------------
(* The message pipeline *)

\* An action that leaves a group of variables alone keeps the group's type.
LEMMA TypeUnchanged ==
  ASSUME TypeOK
  PROVE  /\ UNCHANGED connectionVars => ConnectionType'
         /\ UNCHANGED conversationVars => ConversationType'
         /\ UNCHANGED inboxVars => InboxType'
         /\ UNCHANGED queueVars => QueueType'
         /\ UNCHANGED workerVars => WorkerType'
         /\ UNCHANGED sendVars => SendType'
  BY DEF TypeOK, ConnectionType, ConversationType, InboxType, QueueType, WorkerType, SendType,
         connectionVars, conversationVars, inboxVars, queueVars, workerVars, sendVars

-----------------------------------------------------------------------------
(* Type correctness.  One step per action; under it, one per part of the   *)
(* state the action writes.                                                *)

USE DEF Time, NoTime, ProviderId, Replies, MessageState, OutboundState,
        OutboxRow, Publication, JobRow, Slot, OutboundRow, Dispatch, Idle

\* pg-boss completing, retrying or failing a job keeps every job a job.
LEMMA JobsTyped ==
  ASSUME TypeOK, NEW m \in Customer
  PROVE  JobFailed(m) \in [Customer -> JobRow] /\ JobDone(m) \in [Customer -> JobRow]
<1> DEFINE retried == [state |-> "ready", tries |-> job[m].tries + 1]
<1>1. job \in [Customer -> JobRow]  BY DEF TypeOK, QueueType
<1>2. retried \in JobRow  BY <1>1
<1>3. [job[m] EXCEPT !.state = "failed"] \in JobRow
      /\ [job[m] EXCEPT !.state = "completed"] \in JobRow  BY <1>1
<1>4. /\ [job EXCEPT ![m] = retried] \in [Customer -> JobRow]
      /\ [job EXCEPT ![m].state = "failed"] \in [Customer -> JobRow]
      /\ [job EXCEPT ![m].state = "completed"] \in [Customer -> JobRow]
  <2> HIDE DEF retried, JobRow
  <2> QED BY <1>1, <1>2, <1>3
<1> HIDE DEF JobRow
<1> QED BY <1>1, <1>4 DEF JobFailed, JobDone, retried

\* ingestInbound's retirement of an outbound row gives a row.
LEMMA RetireTyped ==
  ASSUME NEW o \in OutboundRow, NEW code \in {"superseded", "manual_reply"}
  PROVE  Retire(o, code) \in OutboundRow
  BY DEF Retire

\* Settling the outbox rows of superseded messages gives outbox rows.
LEMMA SettleTyped ==
  ASSUME TypeOK, NEW after
  PROVE  Settle(after) \in [Customer -> OutboxRow]
<1>1. \A m \in Customer : [outbox[m] EXCEPT !.state = "published"] \in OutboxRow
  BY DEF TypeOK, QueueType
<1> HIDE DEF OutboxRow
<1> QED BY <1>1 DEF Settle, TypeOK, QueueType

\* replyDeadline returns a time.
LEMMA ReplyDeadlineTyped == TypeOK => ReplyDeadline \in Nat
  BY MessagingAssumption DEF ReplyDeadline, TypeOK, ConversationType

\* Every step of the pipeline keeps its state well typed: states, tokens and
\* failure codes are those the tables' CHECK constraints allow.
THEOREM TypeCorrect == Spec => []TypeOK
<1>1. Init => TypeOK
  <2> SUFFICES ASSUME Init PROVE TypeOK OBVIOUS
  <2> USE MessagingAssumption DEF Init
  <2>1. ConnectionType
    <3>1. manager \in [Managers -> [token : Nat, active : BOOLEAN]] OBVIOUS
    <3>2. ownership \in Nat /\ tokens \in Nat /\ ownership <= tokens OBVIOUS
    <3>3. businessActive \in BOOLEAN /\ agentActive \in BOOLEAN /\ connected \in BOOLEAN OBVIOUS
    <3> QED BY <3>1, <3>2, <3>3 DEF ConnectionType
  <2>2. ConversationType BY DEF ConversationType
  <2>3. InboxType BY DEF InboxType
  <2>4. QueueType BY DEF QueueType, NoOutbox
  <2>5. WorkerType BY DEF WorkerType
  <2>6. SendType BY DEF SendType, NoOutbound
  <2> QED BY <2>1, <2>2, <2>3, <2>4, <2>5, <2>6 DEF TypeOK
<1>2. TypeOK /\ [Next]_vars => TypeOK'
  <2> SUFFICES ASSUME TypeOK, [Next]_vars PROVE TypeOK' OBVIOUS
  <2> USE TypeUnchanged
  <2>1. ASSUME Tick PROVE TypeOK'
    BY <2>1 DEF Tick, TypeOK
  <2>2. ASSUME SetBusinessStatus PROVE TypeOK'
    <3>1. ConnectionType' BY <2>2, MessagingAssumption DEF SetBusinessStatus, TypeOK, ConnectionType
    <3> QED BY <2>2, <3>1 DEF SetBusinessStatus, TypeOK
  <2>3. ASSUME SetAgentActive PROVE TypeOK'
    <3>1. ConnectionType' BY <2>3, MessagingAssumption DEF SetAgentActive, TypeOK, ConnectionType
    <3> QED BY <2>3, <3>1 DEF SetAgentActive, TypeOK
  <2>4. ASSUME NEW p \in Managers, TakeOver(p) PROVE TypeOK'
    <3>1. ConnectionType'
      <4>1. manager' \in [Managers -> [token : Nat, active : BOOLEAN]]
        BY <2>4 DEF TakeOver, TypeOK, ConnectionType
      <4>2. ownership' \in Nat /\ tokens' \in Nat /\ ownership' <= tokens'
        BY <2>4 DEF TakeOver, TypeOK, ConnectionType
      <4> QED BY <2>4, <4>1, <4>2 DEF TakeOver, TypeOK, ConnectionType
    <3>2. SendType' BY <2>4, MessagingAssumption DEF TakeOver, TypeOK, SendType, Abandon
    <3> QED BY <2>4, <3>1, <3>2 DEF TakeOver, TypeOK
  <2>5. ASSUME NEW p \in Managers, Attach(p) PROVE TypeOK'
    <3>1. ConnectionType' BY <2>5, MessagingAssumption DEF Attach, TypeOK, ConnectionType
    <3> QED BY <2>5, <3>1 DEF Attach, TypeOK
  <2>6. ASSUME NEW p \in Managers, CloseLease(p) PROVE TypeOK'
    <3>1. ConnectionType' BY <2>6, MessagingAssumption DEF CloseLease, TypeOK, ConnectionType
    <3> QED BY <2>6, <3>1 DEF CloseLease, TypeOK
  <2>7. ASSUME NEW p \in Managers, LoseAdvisoryLock(p) PROVE TypeOK'
    <3>1. ConnectionType' BY <2>7, MessagingAssumption DEF LoseAdvisoryLock, TypeOK, ConnectionType
    <3> QED BY <2>7, <3>1 DEF LoseAdvisoryLock, TypeOK
  <2>8. ASSUME NEW p \in Managers, ManagerCrash(p) PROVE TypeOK'
    <3>1. ConnectionType' BY <2>8, MessagingAssumption DEF ManagerCrash, TypeOK, ConnectionType
    <3>2. SendType' BY <2>8, MessagingAssumption DEF ManagerCrash, TypeOK, SendType
    <3>3. QueueType' BY <2>8, MessagingAssumption DEF ManagerCrash, TypeOK, QueueType
    <3> QED BY <2>8, <3>1, <3>2, <3>3 DEF ManagerCrash, TypeOK
  <2>9. ASSUME NEW p \in Managers, ClaimOutbound(p) PROVE TypeOK'
    <3>1. ConversationType' BY <2>9, MessagingAssumption DEF ClaimOutbound, TypeOK, ConversationType, CanClaim, Retire
    <3>2. SendType'
      <4> DEFINE due  == replyDueAt = NoTime \/ replyDueAt <= now
                 mine == {m \in Customer : outbound[m].state = "generated"
                                           /\ m = latestInbound /\ due}
                 claimed(m) == [by |-> p, message |-> m, token |-> ownership, stage |-> "claimed"]
                 claiming(m) == [outbound[m] EXCEPT !.state = "sending", !.token = ownership]
      <4>0. \A m \in Customer : outbound[m] \in OutboundRow  BY DEF TypeOK, SendType
      <4>1. \A m \in Customer : claiming(m) \in OutboundRow /\ claimed(m) \in Dispatch
        BY <4>0 DEF TypeOK, ConnectionType
      <4>2. \A m \in Customer : Retire(outbound[m], "superseded") \in OutboundRow
        BY <4>0, RetireTyped
      <4>3. /\ outbound' = [m \in Customer |->
                 IF m \in mine THEN claiming(m)
                 ELSE IF m # latestInbound THEN Retire(outbound[m], "superseded")
                 ELSE outbound[m]]
            /\ flight' = flight \cup {claimed(m) : m \in mine}
            /\ sends' = sends
        BY <2>9 DEF ClaimOutbound
      <4>4. mine \subseteq Customer OBVIOUS
      <4> HIDE DEF mine, claimed, claiming, OutboundRow, Dispatch
      <4>5. outbound' \in [Customer -> OutboundRow] BY <4>0, <4>1, <4>2, <4>3
      <4>6. flight' \subseteq Dispatch BY <4>1, <4>3, <4>4 DEF TypeOK, SendType
      <4> QED BY <4>3, <4>5, <4>6 DEF TypeOK, SendType
    <3> QED BY <2>9, <3>1, <3>2 DEF ClaimOutbound, TypeOK
  <2>10. ASSUME NEW id \in ProviderId, Route(id) PROVE TypeOK'
    <3>1. InboxType' BY <2>10, MessagingAssumption DEF Route, TypeOK, InboxType, Classify
    <3> QED BY <2>10, <3>1 DEF Route, TypeOK
  <2>11. ASSUME NEW id \in ProviderId, IngestIgnored(id) PROVE TypeOK'
    <3>1. InboxType' BY <2>11, MessagingAssumption DEF IngestIgnored, TypeOK, InboxType
    <3> QED BY <2>11, <3>1 DEF IngestIgnored, TypeOK
  <2>12. ASSUME NEW id \in ProviderId, IngestManual(id) PROVE TypeOK'
    <3>1. ConversationType'
      <4>1. message' \in [Customer -> MessageState]
        BY <2>12 DEF IngestManual, TypeOK, ConversationType
      <4>2. sequence' \in [ProviderId -> Nat] /\ nextSequence' \in Nat \ {0}
        BY <2>12 DEF IngestManual, TypeOK, ConversationType
      <4>3. replyDueAt' \in Time /\ lastReplyAt' \in Time /\ lastExchangeAt' \in Time
            /\ latestInbound' \in Customer \cup {NULL}
        BY <2>12 DEF IngestManual, TypeOK, ConversationType
      <4> QED BY <4>1, <4>2, <4>3 DEF ConversationType
    <3>2. InboxType' BY <2>12, MessagingAssumption DEF IngestManual, TypeOK, InboxType, Settle, Retire
    <3>3. QueueType'
      <4>1. Settle(message') \in [Customer -> OutboxRow] BY SettleTyped
      <4> HIDE DEF OutboxRow
      <4> QED BY <2>12, <4>1 DEF IngestManual, TypeOK, QueueType
    <3>4. SendType' BY <2>12, MessagingAssumption DEF IngestManual, TypeOK, SendType, Settle, Retire
    <3> QED BY <2>12, <3>1, <3>2, <3>3, <3>4 DEF IngestManual, TypeOK
  <2>13. ASSUME NEW m \in Customer, IngestCustomer(m) PROVE TypeOK'
    <3>1. ConversationType'
      <4>1. message' \in [Customer -> MessageState]
        BY <2>13 DEF IngestCustomer, TypeOK, ConversationType
      <4>2. sequence' \in [ProviderId -> Nat] /\ nextSequence' \in Nat \ {0}
        BY <2>13 DEF IngestCustomer, TypeOK, ConversationType
      <4>3. replyDueAt' \in Time /\ lastReplyAt' \in Time /\ lastExchangeAt' \in Time
            /\ latestInbound' \in Customer \cup {NULL}
        BY <2>13, ReplyDeadlineTyped DEF IngestCustomer, TypeOK, ConversationType
      <4> QED BY <4>1, <4>2, <4>3 DEF ConversationType
    <3>2. InboxType' BY <2>13, MessagingAssumption DEF IngestCustomer, TypeOK, InboxType, Settle, Retire, NoOutbox, ReplyDeadline
    <3>3. QueueType'
      <4> DEFINE opened == [NoOutbox EXCEPT !.state = "unpublished",
                                            !.nextAttemptAt = ReplyDeadline]
      <4>1. opened \in OutboxRow BY ReplyDeadlineTyped DEF NoOutbox
      <4>2. Settle(message') \in [Customer -> OutboxRow] BY SettleTyped
      <4>3. outbox' = [Settle(message') EXCEPT ![m] = opened] BY <2>13 DEF IngestCustomer
      <4> HIDE DEF opened, OutboxRow
      <4>4. outbox' \in [Customer -> OutboxRow] BY <4>1, <4>2, <4>3
      <4> QED BY <2>13, <4>4 DEF IngestCustomer, TypeOK, QueueType
    <3>4. SendType' BY <2>13, MessagingAssumption DEF IngestCustomer, TypeOK, SendType, Settle, Retire, NoOutbox, ReplyDeadline
    <3> QED BY <2>13, <3>1, <3>2, <3>3, <3>4 DEF IngestCustomer, TypeOK
  <2>14. ASSUME NEW m \in Customer, ExpireJob(m) PROVE TypeOK'
    <3>1. QueueType' BY <2>14, MessagingAssumption DEF ExpireJob, TypeOK, QueueType, JobFailed
    <3> QED BY <2>14, <3>1 DEF ExpireJob, TypeOK
  <2>15. ASSUME NEW p \in Managers, NEW m \in Customer, ClaimAiOutbox(p, m) PROVE TypeOK'
    <3>1. QueueType' BY <2>15, MessagingAssumption DEF ClaimAiOutbox, TypeOK, QueueType
    <3> QED BY <2>15, <3>1 DEF ClaimAiOutbox, TypeOK
  <2>16. ASSUME NEW q \in publishing, PublishJob(q) PROVE TypeOK'
    <3>1. QueueType'
      <4>1. [q EXCEPT !.stage = "sent"] \in Publication /\ q.message \in Customer
        BY <2>16 DEF TypeOK, QueueType
      <4>2. publishing' \subseteq Publication BY <2>16, <4>1 DEF PublishJob, TypeOK, QueueType
      <4>3. job' \in [Customer -> JobRow] BY <2>16, <4>1 DEF PublishJob, TypeOK, QueueType
      <4> QED BY <2>16, <4>2, <4>3 DEF PublishJob, TypeOK, QueueType
    <3> QED BY <2>16, <3>1 DEF PublishJob, TypeOK
  <2>17. ASSUME NEW q \in publishing, CompleteAiOutbox(q) PROVE TypeOK'
    <3>1. QueueType' BY <2>17, MessagingAssumption DEF CompleteAiOutbox, TypeOK, QueueType
    <3> QED BY <2>17, <3>1 DEF CompleteAiOutbox, TypeOK
  <2>18. ASSUME NEW q \in publishing, ReleaseAiOutbox(q) PROVE TypeOK'
    <3>1. QueueType' BY <2>18, MessagingAssumption DEF ReleaseAiOutbox, TypeOK, QueueType
    <3> QED BY <2>18, <3>1 DEF ReleaseAiOutbox, TypeOK
  <2>19. ASSUME NEW w \in Workers, NEW m \in Customer, FetchJob(w, m) PROVE TypeOK'
    <3>1. QueueType' BY <2>19, MessagingAssumption DEF FetchJob, TypeOK, QueueType, Loadable
    <3>2. WorkerType' BY <2>19, MessagingAssumption DEF FetchJob, TypeOK, WorkerType, Loadable
    <3> QED BY <2>19, <3>1, <3>2 DEF FetchJob, TypeOK
  <2>20. ASSUME NEW w \in Workers, AcquireAiLock(w) PROVE TypeOK'
    <3>1. WorkerType' BY <2>20, MessagingAssumption DEF AcquireAiLock, TypeOK, WorkerType
    <3> QED BY <2>20, <3>1 DEF AcquireAiLock, TypeOK
  <2>21. ASSUME NEW w \in Workers, BeginSession(w) PROVE TypeOK'
    <3>1. WorkerType' BY <2>21, MessagingAssumption DEF BeginSession, TypeOK, WorkerType
    <3> QED BY <2>21, <3>1 DEF BeginSession, TypeOK
  <2>22. ASSUME NEW w \in Workers, CommitReply(w) PROVE TypeOK'
    <3>1. ConversationType' BY <2>22, MessagingAssumption DEF CommitReply, TypeOK, ConversationType, StillCurrent
    <3>2. WorkerType' BY <2>22, MessagingAssumption DEF CommitReply, TypeOK, WorkerType, StillCurrent
    <3>3. SendType'
      <4>1. outbound' \in [Customer -> OutboundRow] BY <2>22 DEF CommitReply, TypeOK, SendType
      <4> QED BY <2>22, <4>1 DEF CommitReply, TypeOK, SendType
    <3> QED BY <2>22, <3>1, <3>2, <3>3 DEF CommitReply, TypeOK
  <2>23. ASSUME NEW w \in Workers, CommitSilent(w) PROVE TypeOK'
    <3>1. ConversationType' BY <2>23, MessagingAssumption DEF CommitSilent, TypeOK, ConversationType
    <3>2. WorkerType' BY <2>23, MessagingAssumption DEF CommitSilent, TypeOK, WorkerType
    <3> QED BY <2>23, <3>1, <3>2 DEF CommitSilent, TypeOK
  <2>24. ASSUME NEW w \in Workers, FailSession(w) PROVE TypeOK'
    <3>1. QueueType'
      <4>1. worker[w].message \in Customer BY <2>24 DEF FailSession, TypeOK, WorkerType
      <4> QED BY <2>24, <4>1, JobsTyped DEF FailSession, TypeOK, QueueType
    <3>2. WorkerType' BY <2>24, MessagingAssumption DEF FailSession, TypeOK, WorkerType, JobFailed, Idle
    <3> QED BY <2>24, <3>1, <3>2 DEF FailSession, TypeOK
  <2>25. ASSUME NEW w \in Workers, FinishJob(w) PROVE TypeOK'
    <3>1. QueueType'
      <4>1. worker[w].message \in Customer BY <2>25 DEF FinishJob, TypeOK, WorkerType
      <4> QED BY <2>25, <4>1, JobsTyped DEF FinishJob, TypeOK, QueueType
    <3>2. WorkerType' BY <2>25, MessagingAssumption DEF FinishJob, TypeOK, WorkerType, JobDone, Idle
    <3> QED BY <2>25, <3>1, <3>2 DEF FinishJob, TypeOK
  <2>26. ASSUME NEW w \in Workers, WorkerCrash(w) PROVE TypeOK'
    <3>1. WorkerType' BY <2>26, MessagingAssumption DEF WorkerCrash, TypeOK, WorkerType, Idle
    <3> QED BY <2>26, <3>1 DEF WorkerCrash, TypeOK
  <2>27. ASSUME NEW f \in flight, InvokeProvider(f) PROVE TypeOK'
    <3>1. SendType' BY <2>27, MessagingAssumption DEF InvokeProvider, TypeOK, SendType
    <3> QED BY <2>27, <3>1 DEF InvokeProvider, TypeOK
  <2>28. ASSUME NEW f \in flight, FinishOutbound(f) PROVE TypeOK'
    <3>1. ConversationType' BY <2>28, MessagingAssumption DEF FinishOutbound, TypeOK, ConversationType, RecordReply, FailureCode, Outcome, Fenced
    <3>2. SendType' BY <2>28, MessagingAssumption DEF FinishOutbound, TypeOK, SendType, RecordReply, FailureCode, Outcome, Fenced
    <3> QED BY <2>28, <3>1, <3>2 DEF FinishOutbound, TypeOK
  <2>29. CASE UNCHANGED vars BY <2>29 DEF vars, TypeOK
  <2> QED BY <2>1, <2>2, <2>3, <2>4, <2>5, <2>6, <2>7, <2>8, <2>9, <2>10, <2>11, <2>12, <2>13, <2>14, <2>15, <2>16, <2>17, <2>18, <2>19, <2>20, <2>21, <2>22, <2>23, <2>24, <2>25, <2>26, <2>27, <2>28, <2>29 DEF Next
<1> QED BY <1>1, <1>2, PTL DEF Spec

-----------------------------------------------------------------------------
(* Sending.  The steps that write the outbound rows, the dispatches or the *)
(* ownership, and the invariant they keep.                                 *)

\* The only actions that touch the outbound rows, the dispatches, the history
\* of provider calls or the ownership token.
LEMMA SenderSteps ==
  ASSUME [Next]_vars
  PROVE  \/ UNCHANGED <<sendVars, ownership, tokens>>
         \/ \E p \in Managers : TakeOver(p) \/ CloseLease(p) \/ ManagerCrash(p) \/ ClaimOutbound(p)
         \/ \E id \in ProviderId : IngestManual(id)
         \/ \E m \in Customer : IngestCustomer(m)
         \/ \E w \in Workers : CommitReply(w)
         \/ \E f \in flight : InvokeProvider(f) \/ FinishOutbound(f)
  BY DEF Next, vars, connectionVars, sendVars, Tick, SetBusinessStatus, SetAgentActive, Attach,
         LoseAdvisoryLock, Route, IngestIgnored, ExpireJob, ClaimAiOutbox, PublishJob,
         CompleteAiOutbox, ReleaseAiOutbox, FetchJob, AcquireAiLock, BeginSession, CommitSilent,
         FailSession, FinishJob, WorkerCrash

RetiredIsFailed ==
  \A m \in Customer : outbound[m].code \in {"superseded", "manual_reply"} =>
                         outbound[m].state = "failed" /\ sends[m] = 0

SendInv == OneDispatchPerReply /\ AtMostOneSend /\ RetiredIsFailed

\* Retiring a row moves it only from `generated` to `failed`.
LEMMA RetireMoves ==
  ASSUME NEW o \in OutboundRow, NEW code \in {"superseded", "manual_reply"}
  PROVE  /\ o.state = "generated" => Retire(o, code).state = "failed"
         /\ o.state # "generated" => Retire(o, code) = o
  BY DEF Retire

\* A takeover moves a row only from `sending` to `delivery_unknown`, and keeps
\* the token it was claimed with.
LEMMA AbandonMoves ==
  ASSUME NEW o \in OutboundRow
  PROVE  /\ o.state # "sending" => Abandon(o) = o
         /\ o.state = "sending" => /\ Abandon(o).state = "delivery_unknown"
                                   /\ Abandon(o).code = "delivery_unknown"
  BY DEF Abandon

\* No reply exists at the start, so none was sent.
LEMMA SendInvInit == Init => SendInv
  BY DEF Init, SendInv, OneDispatchPerReply, AtMostOneSend, RetiredIsFailed, NoOutbound

\* Retiring rows that are still `generated` cannot touch a reply in flight.
LEMMA SendInvRetire ==
  ASSUME TypeOK, SendInv, NEW code \in {"superseded", "manual_reply"},
         outbound' \in [Customer -> OutboundRow],
         \A m \in Customer : outbound'[m] \in {outbound[m], Retire(outbound[m], code)},
         UNCHANGED <<flight, sends>>
  PROVE  SendInv'
<1>1. \A m \in Customer : outbound[m] \in OutboundRow  BY DEF TypeOK, SendType
<1>2. \A m \in Customer :
        \/ outbound'[m] = outbound[m]
        \/ outbound[m].state = "generated" /\ outbound'[m].state = "failed"
  <2> HIDE DEF OutboundRow
  <2> TAKE m \in Customer
  <2>1. /\ outbound[m].state = "generated" => Retire(outbound[m], code).state = "failed"
        /\ outbound[m].state # "generated" => Retire(outbound[m], code) = outbound[m]
    BY <1>1, RetireMoves
  <2> QED BY <2>1
<1>3. \A f \in flight : f.message \in Customer  BY DEF TypeOK, SendType
<1> HIDE DEF OutboundRow, Dispatch
<1> QED BY <1>2, <1>3 DEF SendInv, OneDispatchPerReply, AtMostOneSend, RetiredIsFailed

\* No step offers a claimed reply again or calls the provider twice for it.
LEMMA SendInvStep == TypeOK /\ TypeOK' /\ SendInv /\ [Next]_vars => SendInv'
<1> SUFFICES ASSUME TypeOK, TypeOK', SendInv, [Next]_vars PROVE SendInv'
  OBVIOUS
<1> USE DEF SendInv, OneDispatchPerReply, AtMostOneSend, RetiredIsFailed
<1>t. /\ outbound \in [Customer -> OutboundRow] /\ outbound' \in [Customer -> OutboundRow]
      /\ flight \subseteq Dispatch /\ sends \in [Customer -> Nat]
  BY DEF TypeOK, SendType
<1>1. ASSUME UNCHANGED sendVars PROVE SendInv'
  BY <1>1 DEF sendVars
<1>2. ASSUME NEW p \in Managers, TakeOver(p) PROVE SendInv'
  <2>1. \A m \in Customer :
          \/ outbound'[m] = outbound[m]
          \/ /\ outbound[m].state = "sending" /\ outbound'[m].state = "delivery_unknown"
             /\ outbound'[m].code = "delivery_unknown"
    <3>1. outbound' = [m \in Customer |-> Abandon(outbound[m])]  BY <1>2 DEF TakeOver
    <3>2. \A m \in Customer : outbound[m] \in OutboundRow  BY <1>t
    <3> HIDE DEF OutboundRow
    <3> TAKE m \in Customer
    <3>3. outbound'[m] = Abandon(outbound[m])  BY <3>1
    <3> QED BY <3>2, <3>3, AbandonMoves
  <2>2. flight' = flight /\ sends' = sends  BY <1>2 DEF TakeOver
  <2> QED BY <1>t, <2>1, <2>2
<1>3. ASSUME NEW p \in Managers, ManagerCrash(p) PROVE SendInv'
  BY <1>3, <1>t DEF ManagerCrash
<1>4. ASSUME NEW p \in Managers, ClaimOutbound(p) PROVE SendInv'
  <2> DEFINE mine == {m \in Customer : outbound[m].state = "generated"
                        /\ m = latestInbound /\ (replyDueAt = NoTime \/ replyDueAt <= now)}
             claimed(m) == [by |-> p, message |-> m, token |-> ownership, stage |-> "claimed"]
  <2>1. \A m \in Customer :
          \/ /\ m \in mine /\ outbound[m].state = "generated"
             /\ outbound'[m].state = "sending" /\ outbound'[m].code = outbound[m].code
          \/ m \notin mine /\ outbound'[m] = outbound[m]
          \/ m \notin mine /\ outbound[m].state = "generated" /\ outbound'[m].state = "failed"
    <3> DEFINE claim(o) == [o EXCEPT !.state = "sending", !.token = ownership]
    <3>1. outbound' = [m \in Customer |->
                          IF m \in mine THEN claim(outbound[m])
                          ELSE IF m # latestInbound THEN Retire(outbound[m], "superseded")
                          ELSE outbound[m]]
      BY <1>4 DEF ClaimOutbound
    <3>2. \A o \in OutboundRow : claim(o).state = "sending" /\ claim(o).code = o.code
      OBVIOUS
    <3>3. \A m \in Customer : outbound[m] \in OutboundRow  BY <1>t
    <3> TAKE m \in Customer
    <3>4. m \in mine => outbound[m].state = "generated"  OBVIOUS
    <3> HIDE DEF OutboundRow, mine, claim
    <3>5. outbound'[m] = IF m \in mine THEN claim(outbound[m])
                         ELSE IF m # latestInbound THEN Retire(outbound[m], "superseded")
                         ELSE outbound[m]
      BY <3>1
    <3> QED BY <3>2, <3>3, <3>4, <3>5, RetireMoves
  <2>2. flight' = flight \cup {claimed(m) : m \in mine} /\ sends' = sends
    BY <1>4 DEF ClaimOutbound
  <2>3. \A f \in flight' :
          \/ f \in flight
          \/ f.message \in mine /\ f = claimed(f.message)
    BY <2>2
  <2>4. \A m \in mine : m \in Customer /\ ~\E f \in flight : f.message = m
    BY <2>1, <1>t
  <2> HIDE DEF mine
  <2>5. OneDispatchPerReply'
    <3>1. \A m \in Customer : outbound'[m].state \in {"none", "generated"} => sends'[m] = 0
      BY <2>1, <2>2
    <3>2. \A f \in flight' : outbound'[f.message].state \in {"sending", "delivery_unknown"}
      BY <1>t, <2>1, <2>3, <2>4
    <3>3. \A f, g \in flight' : f.message = g.message => f = g
      BY <2>3, <2>4
    <3>4. \A f \in flight' : f.stage = "claimed" => sends'[f.message] = 0
      BY <1>t, <2>1, <2>2, <2>3, <2>4
    <3> QED BY <3>1, <3>2, <3>3, <3>4
  <2>6. AtMostOneSend'  BY <2>2
  <2>7. RetiredIsFailed'  BY <2>1, <2>2
  <2> QED BY <2>5, <2>6, <2>7
<1>5. ASSUME NEW id \in ProviderId, IngestManual(id) PROVE SendInv'
  BY <1>5, <1>t, SendInvRetire DEF IngestManual
<1>6. ASSUME NEW m \in Customer, IngestCustomer(m) PROVE SendInv'
  BY <1>6, <1>t, SendInvRetire DEF IngestCustomer
<1>7. ASSUME NEW w \in Workers, CommitReply(w) PROVE SendInv'
  BY <1>7, <1>t DEF CommitReply
<1>8. ASSUME NEW f \in flight, InvokeProvider(f) PROVE SendInv'
  BY <1>8, <1>t DEF InvokeProvider
<1>9. ASSUME NEW f \in flight, FinishOutbound(f) PROVE SendInv'
  BY <1>9, <1>t DEF FinishOutbound, Outcome, Fenced, FailureCode
<1>10. ASSUME NEW p \in Managers, CloseLease(p) PROVE SendInv'
  BY <1>10, <1>1 DEF CloseLease
<1> QED
  BY <1>1, <1>2, <1>3, <1>4, <1>5, <1>6, <1>7, <1>8, <1>9, <1>10, SenderSteps DEF sendVars

\* The provider is called at most once per reply, and never for one that was
\* retired before it was claimed (claim_owned_outbound, dispatchNext,
\* takeOverWhatsApp, ingestInbound).
THEOREM SendsCorrect == Spec => [](AtMostOneSend /\ OneDispatchPerReply /\ RetiredNeverSent)
<1>1. SendInv => AtMostOneSend /\ OneDispatchPerReply /\ RetiredNeverSent
  BY DEF SendInv, RetiredIsFailed, RetiredNeverSent
<1> QED BY <1>1, TypeCorrect, SendInvInit, SendInvStep, PTL DEF Spec

\* A row has one dispatch at most, and none before it is claimed: no path offers
\* it again after the provider was called (claim_owned_outbound, dispatchNext).
THEOREM DispatchedOnce == Spec => []OneDispatchPerReply
<1> QED BY SendsCorrect, PTL

\* A reply that was retired before its claim is never handed to the provider
\* (ingestInbound against claim_owned_outbound).
THEOREM RetiredStaysUnsent == Spec => []RetiredNeverSent
<1> QED BY SendsCorrect, PTL

-----------------------------------------------------------------------------
(* Ownership.  The token that owns the connection is the last one drawn,   *)
(* or none, and a row being sent carries it.                               *)

OwnerIsLast == ownership \in {0, tokens}

OwnershipInv == OwnerIsLast /\ SendingBelongsToLastOwner

\* A new owner closes every `sending` row when it draws its token, and only
\* the owner can claim one.
LEMMA OwnershipInvStep == TypeOK /\ OwnershipInv /\ [Next]_vars => OwnershipInv'
<1> SUFFICES ASSUME TypeOK, OwnershipInv, [Next]_vars PROVE OwnershipInv'
  OBVIOUS
<1> USE DEF OwnershipInv, OwnerIsLast, SendingBelongsToLastOwner
<1>t. /\ outbound \in [Customer -> OutboundRow]
      /\ flight \subseteq Dispatch
      /\ \A m \in Customer : outbound[m] \in OutboundRow
      /\ tokens \in Nat /\ ownership \in Nat
  BY DEF TypeOK, SendType, ConnectionType
<1>r. ASSUME NEW code \in {"superseded", "manual_reply"}, UNCHANGED <<ownership, tokens>>,
             outbound' = [m \in Customer |-> Retire(outbound[m], code)]
      PROVE  OwnershipInv'
  <2>1. \A m \in Customer : outbound'[m] = Retire(outbound[m], code)  BY <1>r
  <2> HIDE DEF OutboundRow
  <2> QED BY <1>r, <1>t, <2>1, RetireMoves
<1>1. ASSUME UNCHANGED <<sendVars, ownership, tokens>> PROVE OwnershipInv'
  BY <1>1 DEF sendVars
<1>2. ASSUME NEW p \in Managers, TakeOver(p) PROVE OwnershipInv'
  <2>1. \A m \in Customer : outbound'[m] = Abandon(outbound[m])  BY <1>2 DEF TakeOver
  <2>2. \A m \in Customer : outbound'[m].state # "sending"
    <3> HIDE DEF OutboundRow
    <3> QED BY <1>t, <2>1, AbandonMoves
  <2> QED BY <1>2, <1>t, <2>2 DEF TakeOver
<1>3. ASSUME NEW p \in Managers, ManagerCrash(p) PROVE OwnershipInv'
  BY <1>3 DEF ManagerCrash
<1>4. ASSUME NEW p \in Managers, CloseLease(p) PROVE OwnershipInv'
  BY <1>4 DEF CloseLease, sendVars
<1>5. ASSUME NEW p \in Managers, ClaimOutbound(p) PROVE OwnershipInv'
  <2> DEFINE claim(o) == [o EXCEPT !.state = "sending", !.token = ownership]
  <2>1. \A o \in OutboundRow : claim(o).token = ownership  OBVIOUS
  <2>2. \A m \in Customer : outbound'[m] \in {outbound[m], claim(outbound[m]),
                                              Retire(outbound[m], "superseded")}
    BY <1>5 DEF ClaimOutbound
  <2>3. ownership = tokens /\ UNCHANGED <<ownership, tokens>>
    BY <1>5 DEF ClaimOutbound, CanClaim, connectionVars
  <2> HIDE DEF claim, OutboundRow
  <2> QED BY <1>t, <2>1, <2>2, <2>3, RetireMoves
<1>6. ASSUME NEW id \in ProviderId, IngestManual(id) PROVE OwnershipInv'
  BY <1>6, <1>r DEF IngestManual, connectionVars
<1>7. ASSUME NEW m \in Customer, IngestCustomer(m) PROVE OwnershipInv'
  BY <1>7, <1>r DEF IngestCustomer, connectionVars
<1>8. ASSUME NEW w \in Workers, CommitReply(w) PROVE OwnershipInv'
  BY <1>8, <1>t DEF CommitReply, connectionVars
<1>9. ASSUME NEW f \in flight, InvokeProvider(f) PROVE OwnershipInv'
  BY <1>9 DEF InvokeProvider, connectionVars
<1>10. ASSUME NEW f \in flight, FinishOutbound(f) PROVE OwnershipInv'
  BY <1>10, <1>t DEF FinishOutbound, Outcome, Fenced, FailureCode, connectionVars
<1> QED
  BY <1>1, <1>2, <1>3, <1>4, <1>5, <1>6, <1>7, <1>8, <1>9, <1>10, SenderSteps

\* No row is left `sending` for an owner that was replaced: takeOverWhatsApp
\* closes every one of them in the transaction that draws the new token.
THEOREM NoOrphanSending == Spec => []SendingBelongsToLastOwner
<1>1. Init => OwnershipInv
  BY DEF Init, OwnershipInv, OwnerIsLast, SendingBelongsToLastOwner, NoOutbound
<1>2. OwnershipInv => SendingBelongsToLastOwner  BY DEF OwnershipInv
<1> QED BY <1>1, <1>2, TypeCorrect, OwnershipInvStep, PTL DEF Spec

\* An ack or a rejection is only recorded by the owner of the connection, with
\* the token the row was claimed with (finishOutbound).
THEOREM ClosedByOwner == Spec => OnlyOwnerCloses
<1> DEFINE Closes == \A m \in Customer :
                       outbound[m].state = "sending" /\ outbound'[m].state \in {"sent", "failed"} =>
                         outbound[m].token = ownership
<1>1. TypeOK /\ [Next]_vars => [Closes]_vars
  <2> SUFFICES ASSUME TypeOK, [Next]_vars PROVE Closes
    OBVIOUS
  <2>t. /\ outbound \in [Customer -> OutboundRow]
        /\ \A m \in Customer : outbound[m] \in OutboundRow
    BY DEF TypeOK, SendType
  <2>1. ASSUME UNCHANGED outbound PROVE Closes
    BY <2>1
  <2>2. ASSUME NEW p \in Managers, TakeOver(p) PROVE Closes
    <3>1. \A m \in Customer : outbound'[m] = Abandon(outbound[m])  BY <2>2 DEF TakeOver
    <3> HIDE DEF OutboundRow
    <3> QED BY <2>t, <3>1, AbandonMoves
  <2>3. ASSUME NEW code \in {"superseded", "manual_reply"},
               outbound' = [m \in Customer |-> Retire(outbound[m], code)]
        PROVE  Closes
    <3>1. \A m \in Customer : outbound'[m] = Retire(outbound[m], code)  BY <2>3
    <3> HIDE DEF OutboundRow
    <3> QED BY <2>t, <3>1, RetireMoves
  <2>4. ASSUME NEW p \in Managers, ClaimOutbound(p) PROVE Closes
    <3>1. \A m \in Customer :
            \/ outbound'[m] \in {outbound[m], Retire(outbound[m], "superseded")}
            \/ outbound[m].state = "generated"
      BY <2>4 DEF ClaimOutbound
    <3> HIDE DEF OutboundRow
    <3> QED BY <2>t, <3>1, RetireMoves
  <2>5. ASSUME NEW w \in Workers, CommitReply(w) PROVE Closes
    BY <2>5, <2>t DEF CommitReply
  <2>6. ASSUME NEW f \in flight, FinishOutbound(f) PROVE Closes
    BY <2>6, <2>t DEF FinishOutbound, Fenced
  <2>7. \/ UNCHANGED outbound
        \/ \E p \in Managers : TakeOver(p) \/ ClaimOutbound(p)
        \/ \E code \in {"superseded", "manual_reply"} :
             outbound' = [m \in Customer |-> Retire(outbound[m], code)]
        \/ \E w \in Workers : CommitReply(w)
        \/ \E f \in flight : FinishOutbound(f)
    BY SenderSteps DEF sendVars, CloseLease, ManagerCrash, IngestManual, IngestCustomer,
                       InvokeProvider
  <2> QED BY <2>1, <2>2, <2>3, <2>4, <2>5, <2>6, <2>7
<1> QED BY <1>1, TypeCorrect, PTL DEF Spec, OnlyOwnerCloses

-----------------------------------------------------------------------------
(* The conversation: its deadline and the order of its messages.           *)

\* The actions that leave the conversation, its messages and replies alone.
LEMMA ConversationSteps ==
  ASSUME [Next]_vars
  PROVE  \/ UNCHANGED <<conversationVars, outbound>>
         \/ \E p \in Managers : TakeOver(p) \/ ClaimOutbound(p)
         \/ \E id \in ProviderId : IngestManual(id)
         \/ \E m \in Customer : IngestCustomer(m)
         \/ \E w \in Workers : CommitReply(w) \/ CommitSilent(w)
         \/ \E f \in flight : FinishOutbound(f)
  BY DEF Next, vars, sendVars, Tick, SetBusinessStatus, SetAgentActive, Attach,
         CloseLease, LoseAdvisoryLock, ManagerCrash, Route, IngestIgnored, ExpireJob,
         ClaimAiOutbox, PublishJob, CompleteAiOutbox, ReleaseAiOutbox, FetchJob, AcquireAiLock,
         BeginSession, FailSession, FinishJob, WorkerCrash, InvokeProvider

\* Each step keeps the deadline together with what it delays.
LEMMA DeadlineStep == TypeOK /\ DeadlineHasMessage /\ [Next]_vars => DeadlineHasMessage'
<1> SUFFICES ASSUME TypeOK, DeadlineHasMessage, [Next]_vars PROVE DeadlineHasMessage'
  OBVIOUS
<1> USE DEF DeadlineHasMessage
<1>t. /\ outbound \in [Customer -> OutboundRow]
      /\ \A m \in Customer : outbound[m] \in OutboundRow
      /\ message \in [Customer -> MessageState] /\ latestInbound \in Customer \cup {NULL}
      /\ \A m \in Customer : m # NULL
  BY MessagingAssumption DEF TypeOK, SendType, ConversationType
<1>1. ASSUME UNCHANGED <<conversationVars, outbound>> PROVE DeadlineHasMessage'
  BY <1>1 DEF conversationVars
<1>2. ASSUME NEW p \in Managers, TakeOver(p) PROVE DeadlineHasMessage'
  <2>1. \A m \in Customer : outbound'[m] = Abandon(outbound[m])  BY <1>2 DEF TakeOver
  <2>2. UNCHANGED conversationVars  BY <1>2 DEF TakeOver
  <2> HIDE DEF OutboundRow
  <2> QED BY <1>t, <2>1, <2>2, AbandonMoves DEF conversationVars
<1>3. ASSUME NEW p \in Managers, ClaimOutbound(p) PROVE DeadlineHasMessage'
  <2> SUFFICES ASSUME replyDueAt' # NoTime
               PROVE  \/ message[latestInbound] = "pending"
                      \/ outbound'[latestInbound].state = "generated"
    BY <1>3, <1>t DEF ClaimOutbound
  <2>1. replyDueAt' = replyDueAt
        /\ ~\E m \in Customer : outbound[m].state = "generated" /\ m = latestInbound
                                /\ (replyDueAt = NoTime \/ replyDueAt <= now)
    BY <1>3 DEF ClaimOutbound
  <2>2. latestInbound \in Customer  BY <1>t, <2>1
  <2>3. outbound'[latestInbound] = outbound[latestInbound]
    BY <1>3, <2>1, <2>2 DEF ClaimOutbound
  <2> QED BY <2>1, <2>3
<1>4. ASSUME NEW id \in ProviderId, IngestManual(id) PROVE DeadlineHasMessage'
  BY <1>4 DEF IngestManual
<1>5. ASSUME NEW m \in Customer, IngestCustomer(m) PROVE DeadlineHasMessage'
  BY <1>5, <1>t DEF IngestCustomer
<1>6. ASSUME NEW w \in Workers, CommitReply(w) PROVE DeadlineHasMessage'
  BY <1>6, <1>t DEF CommitReply, StillCurrent
<1>7. ASSUME NEW w \in Workers, CommitSilent(w) PROVE DeadlineHasMessage'
  BY <1>7 DEF CommitSilent
<1>8. ASSUME NEW f \in flight, FinishOutbound(f) PROVE DeadlineHasMessage'
  <2>1. \A m \in Customer : outbound'[m] = outbound[m] \/ outbound[m].state = "sending"
    BY <1>8, <1>t DEF FinishOutbound, Fenced
  <2>2. UNCHANGED <<latestInbound, replyDueAt, message>>  BY <1>8 DEF FinishOutbound
  <2> QED BY <1>t, <2>1, <2>2
<1> QED BY <1>1, <1>2, <1>3, <1>4, <1>5, <1>6, <1>7, <1>8, ConversationSteps

\* A deadline never outlives what it delays (ingestInbound, saveGenerated,
\* saveSilentCompletion and claim_owned_outbound keep both in step).
THEOREM DeadlineCorrect == Spec => []DeadlineHasMessage
<1>1. Init => DeadlineHasMessage  BY DEF Init, DeadlineHasMessage
<1> QED BY <1>1, TypeCorrect, DeadlineStep, PTL DEF Spec

\* replyDeadline: a burst of messages does not postpone the answer.
THEOREM DeadlineIsFixed == Spec => DeadlineNeverSlides
<1> DEFINE Fixed == replyDueAt # NoTime => replyDueAt' \in {replyDueAt, NoTime}
<1>1. [Next]_vars => [Fixed]_vars
  BY ConversationSteps DEF conversationVars, TakeOver, ClaimOutbound, IngestManual, IngestCustomer,
       ReplyDeadline, CommitReply, CommitSilent, FinishOutbound
<1> QED BY <1>1, PTL DEF Spec, DeadlineNeverSlides

\* Each step that stores a message gives it a fresh sequence number.
LEMMA SequencesStep == TypeOK /\ SequencesDistinct /\ [Next]_vars => SequencesDistinct'
<1> SUFFICES ASSUME TypeOK, SequencesDistinct, [Next]_vars PROVE SequencesDistinct'
  OBVIOUS
<1>t. /\ sequence \in [ProviderId -> Nat] /\ nextSequence \in Nat \ {0}
      /\ \A m \in Customer : m \in ProviderId /\ Reply(m) \in ProviderId
  BY DEF TypeOK, ConversationType
<1>1. ASSUME UNCHANGED <<sequence, nextSequence>> PROVE SequencesDistinct'
  BY <1>1 DEF SequencesDistinct
<1>2. ASSUME NEW id \in ProviderId, NEW value \in {nextSequence, sequence[id]},
             sequence' = [sequence EXCEPT ![id] = value], nextSequence' = nextSequence + 1
      PROVE  SequencesDistinct'
  <2> HIDE DEF ProviderId
  <2> QED BY <1>2, <1>t DEF SequencesDistinct
<1>3. \/ UNCHANGED <<sequence, nextSequence>>
      \/ \E id \in ProviderId, value \in Nat :
           /\ value \in {nextSequence, sequence[id]}
           /\ sequence' = [sequence EXCEPT ![id] = value] /\ nextSequence' = nextSequence + 1
  <2>1. ASSUME NEW f \in flight, FinishOutbound(f)
        PROVE  \/ UNCHANGED <<sequence, nextSequence>>
               \/ \E id \in ProviderId, value \in Nat :
                    /\ value \in {nextSequence, sequence[id]}
                    /\ sequence' = [sequence EXCEPT ![id] = value]
                    /\ nextSequence' = nextSequence + 1
    <3>1. f.message \in Customer  BY DEF TypeOK, SendType
    <3> DEFINE value == IF sequence[Reply(f.message)] = 0 THEN nextSequence
                        ELSE sequence[Reply(f.message)]
    <3>2. \/ UNCHANGED <<sequence, nextSequence>>
          \/ /\ sequence' = [sequence EXCEPT ![Reply(f.message)] = value]
             /\ nextSequence' = nextSequence + 1
      BY <2>1 DEF FinishOutbound, RecordReply
    <3>3. value \in Nat /\ value \in {nextSequence, sequence[Reply(f.message)]}
      BY <1>t, <3>1
    <3> HIDE DEF value, ProviderId
    <3> QED BY <1>t, <3>1, <3>2, <3>3
  <2>2. ASSUME NEW id \in ProviderId, IngestManual(id)
        PROVE  sequence' = [sequence EXCEPT ![id] = nextSequence] /\ nextSequence' = nextSequence + 1
    BY <2>2 DEF IngestManual
  <2>3. ASSUME NEW m \in Customer, IngestCustomer(m)
        PROVE  sequence' = [sequence EXCEPT ![m] = nextSequence] /\ nextSequence' = nextSequence + 1
    BY <2>3 DEF IngestCustomer
  <2>4. \/ UNCHANGED <<sequence, nextSequence>>
        \/ \E id \in ProviderId : IngestManual(id)
        \/ \E m \in Customer : IngestCustomer(m)
        \/ \E f \in flight : FinishOutbound(f)
    BY ConversationSteps DEF conversationVars, TakeOver, ClaimOutbound, CommitReply, CommitSilent
  <2> HIDE DEF ProviderId
  <2> QED BY <1>t, <2>1, <2>2, <2>3, <2>4
<1> HIDE DEF ProviderId
<1> QED BY <1>1, <1>2, <1>3, <1>t

\* Ingestion and delivery draw sequence numbers from one counter under the
\* conversation lock (ingestInbound, finishOutbound).
THEOREM SequencesCorrect == Spec => []SequencesDistinct
<1>1. Init => SequencesDistinct  BY DEF Init, SequencesDistinct
<1> QED BY <1>1, TypeCorrect, SequencesStep, PTL DEF Spec

-----------------------------------------------------------------------------
(* Refinement: the pipeline implements the delivery table of the domain    *)
(* package.                                                                *)

\* A message that is not ingested has no outbound row, and is not ingested
\* twice.
IngestedOnce ==
  \A m \in Customer : /\ m \notin seen => message[m] = "none"
                      /\ message[m] = "none" => outbound[m].state = "none"

\* inbox_events is append-only.
LEMMA SeenGrows == [Next]_vars => seen \subseteq seen'
  BY DEF Next, vars, inboxVars, Tick, SetBusinessStatus, SetAgentActive, TakeOver, Attach,
         CloseLease, LoseAdvisoryLock, ManagerCrash, Route, IngestIgnored, IngestCustomer,
         IngestManual, ExpireJob, ClaimAiOutbox, PublishJob, CompleteAiOutbox, ReleaseAiOutbox,
         FetchJob, AcquireAiLock, BeginSession, CommitReply, CommitSilent, FailSession, FinishJob,
         WorkerCrash, ClaimOutbound, InvokeProvider, FinishOutbound

\* How one step moves the row and the message of a reply.
Moves(m) ==
  \/ message'[m] = message[m] /\ outbound'[m].state = outbound[m].state
  \/ message[m] = "none" /\ m \notin seen /\ m \in seen' /\ message'[m] = "pending"
     /\ outbound'[m].state = outbound[m].state
  \/ message[m] \in {"pending", "generated"} /\ message'[m] \in {"superseded", "silent_completed"}
     /\ (\/ outbound'[m].state = outbound[m].state
         \/ outbound[m].state = "generated" /\ outbound'[m].state = "failed")
  \/ message[m] = "pending" /\ message'[m] = "generated"
     /\ outbound[m].state = "none" /\ outbound'[m].state = "generated"
  \/ message'[m] = message[m]
     /\ \/ outbound[m].state = "generated" /\ outbound'[m].state \in {"sending", "failed"}
        \/ outbound[m].state = "sending"
           /\ outbound'[m].state \in {"sent", "failed", "delivery_unknown"}

\* What any step may do to a message and to its reply.
LEMMA StepMoves ==
  ASSUME TypeOK, IngestedOnce, [Next]_vars
  PROVE  \A m \in Customer : Moves(m)
<1> USE DEF Moves
<1>t. /\ outbound \in [Customer -> OutboundRow]
      /\ \A m \in Customer : outbound[m] \in OutboundRow
      /\ message \in [Customer -> MessageState]
      /\ \A w \in Workers : worker[w].pc = "session" => worker[w].message \in Customer
  BY DEF TypeOK, SendType, ConversationType, WorkerType
<1>1. ASSUME UNCHANGED <<conversationVars, outbound>> PROVE \A m \in Customer : Moves(m)
  BY <1>1 DEF conversationVars
<1>2. ASSUME NEW p \in Managers, TakeOver(p) PROVE \A m \in Customer : Moves(m)
  <2>1. \A m \in Customer : outbound'[m] = Abandon(outbound[m])  BY <1>2 DEF TakeOver
  <2>2. message' = message  BY <1>2 DEF TakeOver, conversationVars
  <2> HIDE DEF OutboundRow
  <2> QED BY <1>t, <2>1, <2>2, AbandonMoves
<1>3. ASSUME NEW p \in Managers, ClaimOutbound(p) PROVE \A m \in Customer : Moves(m)
  <2> DEFINE claim(o) == [o EXCEPT !.state = "sending", !.token = ownership]
  <2>1. \A o \in OutboundRow : claim(o).state = "sending"  OBVIOUS
  <2>2. \A m \in Customer :
          \/ outbound[m].state = "generated" /\ outbound'[m] = claim(outbound[m])
          \/ outbound'[m] \in {outbound[m], Retire(outbound[m], "superseded")}
    BY <1>3 DEF ClaimOutbound
  <2>3. message' = message  BY <1>3 DEF ClaimOutbound
  <2> HIDE DEF claim, OutboundRow
  <2> QED BY <1>t, <2>1, <2>2, <2>3, RetireMoves
<1>4. ASSUME NEW id \in ProviderId, IngestManual(id) PROVE \A m \in Customer : Moves(m)
  <2>1. \A m \in Customer : outbound'[m] = Retire(outbound[m], "manual_reply")
    BY <1>4 DEF IngestManual
  <2>2. \A m \in Customer :
          \/ message'[m] = message[m]
             /\ (message[m] \notin {"pending", "generated"} \/ outbound[m].state # "generated")
          \/ message[m] \in {"pending", "generated"} /\ message'[m] = "superseded"
    BY <1>4, <1>t DEF IngestManual
  <2>3. \A m \in Customer : Retire(outbound[m], "manual_reply").state =
                               IF outbound[m].state = "generated" THEN "failed" ELSE outbound[m].state
    <3> HIDE DEF OutboundRow
    <3> QED BY <1>t, RetireMoves
  <2> QED BY <1>t, <2>1, <2>2, <2>3
<1>5. ASSUME NEW x \in Customer, IngestCustomer(x) PROVE \A m \in Customer : Moves(m)
  <2>1. \A m \in Customer : outbound'[m] = Retire(outbound[m], "superseded")
    BY <1>5 DEF IngestCustomer
  <2>2. \A m \in Customer :
          message'[m] = IF m = x THEN "pending"
                        ELSE IF message[m] \in {"pending", "generated"} THEN "superseded"
                        ELSE message[m]
    BY <1>5, <1>t DEF IngestCustomer
  <2>3. message[x] = "none" /\ outbound[x].state = "none" /\ x \notin seen /\ x \in seen'
    BY <1>5 DEF IngestCustomer, IngestedOnce
  <2>4. \A m \in Customer : Retire(outbound[m], "superseded").state =
                               IF outbound[m].state = "generated" THEN "failed" ELSE outbound[m].state
    <3> HIDE DEF OutboundRow
    <3> QED BY <1>t, RetireMoves
  <2> QED BY <1>t, <2>1, <2>2, <2>3, <2>4
<1>6. ASSUME NEW w \in Workers, CommitReply(w) PROVE \A m \in Customer : Moves(m)
  BY <1>6, <1>t DEF CommitReply, StillCurrent
<1>7. ASSUME NEW w \in Workers, CommitSilent(w) PROVE \A m \in Customer : Moves(m)
  BY <1>7, <1>t DEF CommitSilent, StillCurrent, sendVars
<1>8. ASSUME NEW f \in flight, FinishOutbound(f) PROVE \A m \in Customer : Moves(m)
  BY <1>8, <1>t DEF FinishOutbound, Fenced, Outcome
<1> QED BY <1>1, <1>2, <1>3, <1>4, <1>5, <1>6, <1>7, <1>8, ConversationSteps

\* A message enters the conversation once, and a reply exists only for one.
LEMMA IngestedOnceStep == TypeOK /\ IngestedOnce /\ [Next]_vars => IngestedOnce'
  BY StepMoves, SeenGrows DEF IngestedOnce, Moves

\* Each such move is an entry of the delivery table, or none.
LEMMA DeliveryMoves ==
  ASSUME TypeOK, IngestedOnce, [Next]_vars, NEW m \in Customer
  PROVE  /\ DeliveryOf(m)' \in Abstract!DeliveryState
         /\ \/ DeliveryOf(m)' = DeliveryOf(m)
            \/ Abstract!CanTransitionDelivery(DeliveryOf(m), DeliveryOf(m)')
<1>t. /\ outbound[m].state \in OutboundState /\ message[m] \in MessageState
  BY DEF TypeOK, SendType, ConversationType
<1>1. Moves(m)  BY StepMoves
<1>2. message[m] = "none" => outbound[m].state = "none"  BY DEF IngestedOnce
<1> DEFINE from == DeliveryOf(m)
           to == DeliveryOf(m)'
<1>3. \/ to = from
      \/ from = "pending" /\ to = "processing"
      \/ from = "processing" /\ to = "generated"
      \/ from = "generated" /\ to \in {"sending", "failed"}
      \/ from = "sending" /\ to \in {"sent", "failed", "delivery_unknown"}
  BY <1>t, <1>1, <1>2 DEF DeliveryOf, Moves
<1>4. from \in Abstract!DeliveryState
  BY <1>t DEF DeliveryOf, Abstract!DeliveryState
<1> HIDE DEF from, to
<1>5. /\ to \in Abstract!DeliveryState
      /\ to = from \/ to \in Abstract!DeliveryTransitions[from]
  BY <1>3, <1>4 DEF Abstract!DeliveryState, Abstract!DeliveryTransitions
<1> QED BY <1>5 DEF from, to, Abstract!CanTransitionDelivery

\* A step calls the provider at most once, for a claimed reply that was not
\* handed over before, and then moves nothing else.
LEMMA ProviderCalls ==
  ASSUME TypeOK, SendInv, IngestedOnce, [Next]_vars
  PROVE  \/ sends' = sends
         \/ \E m \in Customer :
              /\ DeliveryOf(m) \in {"sending", "delivery_unknown"} /\ sends[m] = 0
              /\ sends' = [sends EXCEPT ![m] = 1]
              /\ UNCHANGED <<message, outbound>>
<1>1. ASSUME NEW f \in flight, InvokeProvider(f), sends' # sends
      PROVE  \E m \in Customer :
               /\ DeliveryOf(m) \in {"sending", "delivery_unknown"} /\ sends[m] = 0
               /\ sends' = [sends EXCEPT ![m] = 1]
               /\ UNCHANGED <<message, outbound>>
  <2>1. f.message \in Customer  BY DEF TypeOK, SendType
  <2>2. sends[f.message] = 0 /\ outbound[f.message].state \in {"sending", "delivery_unknown"}
    BY <1>1, <2>1 DEF InvokeProvider, SendInv, OneDispatchPerReply
  <2>3. DeliveryOf(f.message) \in {"sending", "delivery_unknown"}
    BY <2>1, <2>2 DEF DeliveryOf, IngestedOnce
  <2>4. sends' = [sends EXCEPT ![f.message] = 1] /\ UNCHANGED <<message, outbound>>
    BY <1>1, <2>1, <2>2 DEF InvokeProvider, conversationVars
  <2> QED BY <2>1, <2>2, <2>3, <2>4
<1>2. sends' = sends \/ \E f \in flight : InvokeProvider(f)
  BY SenderSteps DEF sendVars, TakeOver, CloseLease, ManagerCrash, ClaimOutbound, IngestManual,
       IngestCustomer, CommitReply, FinishOutbound
<1> QED BY <1>1, <1>2

\* Every behaviour of the pipeline is one of the delivery table with at most
\* one provider call per reply: no terminal state is ever left, and the
\* provider is only called for a row that was claimed.
THEOREM DeliveryImplemented == Spec => ImplementsDelivery
<1>1. Init => Abstract!DeliveryInit
  BY DEF Init, Abstract!DeliveryInit, DeliveryOf
<1>2. TypeOK /\ SendInv /\ IngestedOnce /\ [Next]_vars => [Abstract!DeliveryNext]_(Abstract!deliveryVars)
  <2> SUFFICES ASSUME TypeOK, SendInv, IngestedOnce, [Next]_vars
               PROVE  [Abstract!DeliveryNext]_(Abstract!deliveryVars)
    OBVIOUS
  <2>1. CASE sends' = sends
    <3>1. [m \in Customer |-> DeliveryOf(m)]' \in [Customer -> Abstract!DeliveryState]
      BY DeliveryMoves
    <3>2. \A m \in Customer :
            \/ [x \in Customer |-> DeliveryOf(x)]'[m] = [x \in Customer |-> DeliveryOf(x)][m]
            \/ Abstract!CanTransitionDelivery([x \in Customer |-> DeliveryOf(x)][m],
                                              [x \in Customer |-> DeliveryOf(x)]'[m])
      BY DeliveryMoves
    <3>3. Abstract!Advance  BY <2>1, <3>1, <3>2 DEF Abstract!Advance
    <3> QED BY <3>3 DEF Abstract!DeliveryNext
  <2>2. ASSUME NEW m \in Customer,
               DeliveryOf(m) \in {"sending", "delivery_unknown"}, sends[m] = 0,
               sends' = [sends EXCEPT ![m] = 1], UNCHANGED <<message, outbound>>
        PROVE  Abstract!CallProvider(m)
    BY <2>2 DEF Abstract!CallProvider, DeliveryOf
  <2> QED BY <2>1, <2>2, ProviderCalls DEF Abstract!DeliveryNext
<1>3. Init => IngestedOnce  BY DEF Init, IngestedOnce, NoOutbound
<1> QED
  BY <1>1, <1>2, <1>3, TypeCorrect, SendInvInit, SendInvStep, IngestedOnceStep, PTL
  DEF Spec, ImplementsDelivery, Abstract!DeliverySpec

-----------------------------------------------------------------------------
(* The messages against their jobs and the history.                        *)

\* A message that was ingested has its row in the outbox.
HasOutbox == \A m \in Customer : message[m] # "none" => outbox[m].state # "none"

SettledInv == SupersededIsSettled /\ HasOutbox

\* The rows that a transaction settles were to be published, or already were.
LEMMA SettledByIngestion ==
  ASSUME TypeOK, SettledInv, NEW after \in [Customer -> MessageState], NEW m \in Customer,
         after[m] = "superseded" => message[m] # "none", after[m] # "none" => message[m] # "none"
  PROVE  /\ after[m] = "superseded" => Settle(after)[m].state = "published"
         /\ after[m] # "none" => Settle(after)[m].state # "none"
<1>1. outbox[m] \in OutboxRow  BY DEF TypeOK, QueueType
<1>2. Settle(after)[m] = IF after[m] = "superseded" /\ outbox[m].state = "unpublished"
                         THEN [outbox[m] EXCEPT !.state = "published"] ELSE outbox[m]
  BY DEF Settle
<1> QED BY <1>1, <1>2 DEF SettledInv, HasOutbox

\* Each step that supersedes a message settles its row, and no step makes a
\* settled row one to be published.
LEMMA SettledStep == TypeOK /\ TypeOK' /\ SettledInv /\ [Next]_vars => SettledInv'
<1> SUFFICES ASSUME TypeOK, TypeOK', SettledInv, [Next]_vars PROVE SettledInv'
  OBVIOUS
<1>t. /\ outbox \in [Customer -> OutboxRow] /\ \A m \in Customer : outbox[m] \in OutboxRow
      /\ message \in [Customer -> MessageState] /\ message' \in [Customer -> MessageState]
      /\ \A w \in Workers : worker[w].pc = "session" => worker[w].message \in Customer
      /\ \A q \in publishing : q.message \in Customer
  BY DEF TypeOK, QueueType, ConversationType, WorkerType
<1> DEFINE Keeps(m) == /\ outbox'[m].state \in {outbox[m].state, "published"}
                       /\ \/ message'[m] = message[m]
                          \/ message[m] = "pending" /\ message'[m] # "superseded"
<1>1. ASSUME \A m \in Customer : Keeps(m) PROVE SettledInv'
  BY <1>1 DEF SettledInv, SupersededIsSettled, HasOutbox
<1>2. ASSUME NEW p \in Managers, NEW x \in Customer, ClaimAiOutbox(p, x) PROVE SettledInv'
  <2>1. \A m \in Customer : outbox'[m].state = outbox[m].state
    BY <1>2, <1>t DEF ClaimAiOutbox
  <2>2. message' = message  BY <1>2 DEF ClaimAiOutbox, conversationVars
  <2>3. \A m \in Customer : Keeps(m)  BY <2>1, <2>2
  <2> HIDE DEF Keeps
  <2> QED BY <1>1, <2>3
<1>3. ASSUME NEW q \in publishing, CompleteAiOutbox(q) \/ ReleaseAiOutbox(q) PROVE SettledInv'
  <2>1. \A m \in Customer : outbox'[m].state \in {outbox[m].state, "published"}
    BY <1>3, <1>t DEF CompleteAiOutbox, ReleaseAiOutbox
  <2>2. message' = message  BY <1>3 DEF CompleteAiOutbox, ReleaseAiOutbox, conversationVars
  <2>3. \A m \in Customer : Keeps(m)  BY <2>1, <2>2
  <2> HIDE DEF Keeps
  <2> QED BY <1>1, <2>3
<1>4. ASSUME NEW w \in Workers, CommitReply(w) \/ CommitSilent(w) PROVE SettledInv'
  <2>1. outbox' = outbox  BY <1>4 DEF CommitReply, CommitSilent, queueVars
  <2>2. \A m \in Customer : \/ message'[m] = message[m]
                            \/ message[m] = "pending" /\ message'[m] # "superseded"
    BY <1>4, <1>t DEF CommitReply, CommitSilent, StillCurrent
  <2>3. \A m \in Customer : Keeps(m)  BY <2>1, <2>2
  <2> HIDE DEF Keeps
  <2> QED BY <1>1, <2>3
<1>5. ASSUME NEW id \in ProviderId, IngestManual(id) PROVE SettledInv'
  <2>1. outbox' = Settle(message')  BY <1>5 DEF IngestManual
  <2>2. \A m \in Customer : message'[m] # "none" => message[m] # "none"
    BY <1>5, <1>t DEF IngestManual
  <2>3. \A m \in Customer : /\ message'[m] = "superseded" => outbox'[m].state = "published"
                            /\ message'[m] # "none" => outbox'[m].state # "none"
    BY <1>t, <2>1, <2>2, SettledByIngestion
  <2> QED BY <2>3 DEF SettledInv, SupersededIsSettled, HasOutbox
<1>6. ASSUME NEW x \in Customer, IngestCustomer(x) PROVE SettledInv'
  <2> DEFINE row == [NoOutbox EXCEPT !.state = "unpublished", !.nextAttemptAt = ReplyDeadline]
  <2>1. row.state = "unpublished"  BY DEF NoOutbox
  <2>2. outbox' = [Settle(message') EXCEPT ![x] = row]  BY <1>6 DEF IngestCustomer
  <2> HIDE DEF row
  <2>3. /\ outbox'[x] = row /\ message'[x] = "pending"
        /\ \A m \in Customer \ {x} : outbox'[m] = Settle(message')[m]
    BY <1>6, <1>t, <2>2, SettleTyped DEF IngestCustomer
  <2>4. \A m \in Customer \ {x} : message'[m] # "none" => message[m] # "none"
    BY <1>6, <1>t DEF IngestCustomer
  <2>5. \A m \in Customer \ {x} : /\ message'[m] = "superseded" => outbox'[m].state = "published"
                                  /\ message'[m] # "none" => outbox'[m].state # "none"
    BY <1>t, <2>3, <2>4, SettledByIngestion
  <2> QED BY <2>1, <2>3, <2>5 DEF SettledInv, SupersededIsSettled, HasOutbox
<1>7. \/ UNCHANGED <<message, outbox>>
      \/ \E p \in Managers, m \in Customer : ClaimAiOutbox(p, m)
      \/ \E q \in publishing : CompleteAiOutbox(q) \/ ReleaseAiOutbox(q)
      \/ \E w \in Workers : CommitReply(w) \/ CommitSilent(w)
      \/ \E id \in ProviderId : IngestManual(id)
      \/ \E m \in Customer : IngestCustomer(m)
  BY DEF Next, vars, conversationVars, queueVars, Tick, SetBusinessStatus, SetAgentActive, TakeOver, Attach,
         CloseLease, LoseAdvisoryLock, ManagerCrash, Route, IngestIgnored, ExpireJob, PublishJob, FetchJob,
         AcquireAiLock, BeginSession, FailSession, FinishJob, WorkerCrash, ClaimOutbound, InvokeProvider,
         FinishOutbound
<1>8. CASE UNCHANGED <<message, outbox>>
  <2>1. \A m \in Customer : Keeps(m)  BY <1>8
  <2> HIDE DEF Keeps
  <2> QED BY <1>1, <2>1
<1> QED BY <1>2, <1>3, <1>4, <1>5, <1>6, <1>7, <1>8

\* The transaction that supersedes a message settles the row that would wake a
\* worker for it (ingestInbound).
THEOREM SupersededHasNoJob == Spec => []SupersededIsSettled
<1>1. Init => SettledInv  BY DEF Init, SettledInv, SupersededIsSettled, HasOutbox
<1>2. SettledInv => SupersededIsSettled  BY DEF SettledInv
<1> QED BY <1>1, <1>2, TypeCorrect, SettledStep, PTL DEF Spec

\* What was routed and not yet ingested: texts the business typed are not the
\* customer's, and a reply is echoed only once it was handed over.
RoutedTruly ==
  /\ \A id \in ProviderId : routed[id] = "accepted_business" => id \notin Customer
  /\ \A m \in Customer : routed[Reply(m)] # "no" => sends[m] > 0

\* The newest row the customer or the business wrote is the latest message.
LatestIsNewest ==
  latestInbound # NULL =>
    \A id \in Customer \cup Manual : sequence[id] <= sequence[latestInbound]

HistoryInv == RoutedTruly /\ ReplyRowMeansSent /\ LatestIsNewest

\* Replies are messages apart.
LEMMA RepliesApart ==
  /\ \A m \in Customer : m \in ProviderId /\ Reply(m) \in ProviderId /\ Reply(m) \notin Customer \cup Manual
  /\ \A m, x \in Customer : Reply(m) = Reply(x) => m = x
  BY MessagingAssumption DEF Reply

\* Each step keeps what is routed true.
LEMMA RoutedStep == TypeOK /\ RoutedTruly /\ [Next]_vars => RoutedTruly'
<1> SUFFICES ASSUME TypeOK, RoutedTruly, [Next]_vars PROVE RoutedTruly'
  OBVIOUS
<1>t. /\ routed \in [ProviderId -> {"no", "accepted", "accepted_business", "automation_inactive"}]
      /\ sends \in [Customer -> Nat] /\ \A f \in flight : f.message \in Customer
  BY DEF TypeOK, InboxType, SendType
<1>1. \A m \in Customer : sends'[m] \in Nat /\ sends[m] <= sends'[m]
  <2>1. ASSUME NEW f \in flight, InvokeProvider(f)
        PROVE  \A m \in Customer : sends'[m] \in Nat /\ sends[m] <= sends'[m]
    BY <2>1, <1>t DEF InvokeProvider
  <2>2. UNCHANGED sends \/ \E f \in flight : InvokeProvider(f)
    BY SenderSteps DEF sendVars, TakeOver, CloseLease, ManagerCrash, ClaimOutbound, IngestManual,
                       IngestCustomer, CommitReply, FinishOutbound
  <2> QED BY <2>1, <2>2, <1>t
<1>2. CASE \A id \in ProviderId : routed'[id] \in {routed[id], "no"}
  <2> HIDE DEF ProviderId
  <2> QED BY <1>t, <1>1, <1>2, RepliesApart DEF RoutedTruly
<1>3. ASSUME NEW id \in ProviderId, Route(id) PROVE RoutedTruly'
  <2>1. routed'[id] = Classify(id) /\ \A x \in ProviderId \ {id} : routed'[x] = routed[x]
    <3> HIDE DEF ProviderId
    <3> QED BY <1>3, <1>t DEF Route
  <2>2. routed'[id] = "accepted_business" => id \notin Customer  BY <2>1 DEF Classify
  <2>3. \A m \in Customer : id = Reply(m) => sends[m] > 0
    BY <1>3, RepliesApart DEF Route, Arrives
  <2>4. sends' = sends  BY <1>3 DEF Route, sendVars
  <2> HIDE DEF ProviderId
  <2> QED BY <2>1, <2>2, <2>3, <2>4, RepliesApart DEF RoutedTruly
<1>4. \/ \E id \in ProviderId : Route(id)
      \/ \A id \in ProviderId : routed'[id] \in {routed[id], "no"}
  <2>1. \/ UNCHANGED routed
        \/ \E id \in ProviderId : Route(id) \/ routed' = [routed EXCEPT ![id] = "no"]
    BY RepliesApart
    DEF Next, vars, inboxVars, Tick, SetBusinessStatus, SetAgentActive, TakeOver, Attach, CloseLease,
        LoseAdvisoryLock, ManagerCrash, IngestIgnored, IngestManual, IngestCustomer, ExpireJob,
        ClaimAiOutbox, PublishJob, CompleteAiOutbox, ReleaseAiOutbox, FetchJob, AcquireAiLock,
        BeginSession, CommitReply, CommitSilent, FailSession, FinishJob, WorkerCrash, ClaimOutbound,
        InvokeProvider, FinishOutbound
  <2> HIDE DEF ProviderId
  <2> QED BY <2>1, <1>t
<1> QED BY <1>2, <1>3, <1>4

\* A row of the history is a delivered reply or a text of a person, and a text
\* of a person is the newest one unless the business took over.
LEMMA HistoryStep ==
  TypeOK /\ TypeOK' /\ SendInv /\ IngestedOnce /\ SequencesDistinct /\ HistoryInv /\ [Next]_vars => HistoryInv'
<1> SUFFICES ASSUME TypeOK, TypeOK', SendInv, IngestedOnce, SequencesDistinct, HistoryInv, [Next]_vars
             PROVE  ReplyRowMeansSent' /\ LatestIsNewest'
  BY RoutedStep DEF HistoryInv
<1>t. /\ sequence \in [ProviderId -> Nat] /\ nextSequence \in Nat \ {0}
      /\ latestInbound \in Customer \cup {NULL} /\ \A m \in Customer : m # NULL
      /\ \A a \in ProviderId : sequence[a] < nextSequence
      /\ \A m \in Customer : m \in ProviderId
      /\ \A m \in Manual : m \in ProviderId
      /\ \A m \in Customer : outbound[m] \in OutboundRow
      /\ \A f \in flight : f.message \in Customer
      /\ outbound \in [Customer -> OutboundRow]
  BY MessagingAssumption DEF TypeOK, ConversationType, SendType, SequencesDistinct
<1> DEFINE SentAsBefore == \A m \in Customer : outbound'[m].state = "sent" <=> outbound[m].state = "sent"
<1>1. ASSUME UNCHANGED sequence, latestInbound' \in {latestInbound, NULL}, SentAsBefore
      PROVE  ReplyRowMeansSent' /\ LatestIsNewest'
  BY <1>1 DEF HistoryInv, ReplyRowMeansSent, LatestIsNewest
<1>2. ASSUME NEW p \in Managers, TakeOver(p) PROVE ReplyRowMeansSent' /\ LatestIsNewest'
  <2>1. \A m \in Customer : outbound'[m] = Abandon(outbound[m])  BY <1>2 DEF TakeOver
  <2>2. UNCHANGED <<sequence, latestInbound>>  BY <1>2 DEF TakeOver, conversationVars
  <2>3. SentAsBefore
    <3> HIDE DEF OutboundRow
    <3> QED BY <1>t, <2>1, AbandonMoves
  <2> QED BY <1>1, <2>2, <2>3
<1>3. ASSUME NEW p \in Managers, ClaimOutbound(p) PROVE ReplyRowMeansSent' /\ LatestIsNewest'
  <2> DEFINE claim(o) == [o EXCEPT !.state = "sending", !.token = ownership]
  <2>1. \A o \in OutboundRow : claim(o).state = "sending"  OBVIOUS
  <2>2. \A m \in Customer :
          \/ outbound[m].state = "generated" /\ outbound'[m] = claim(outbound[m])
          \/ outbound'[m] \in {outbound[m], Retire(outbound[m], "superseded")}
    BY <1>3 DEF ClaimOutbound
  <2>3. UNCHANGED <<sequence, latestInbound>>  BY <1>3 DEF ClaimOutbound
  <2>4. SentAsBefore
    <3> HIDE DEF claim, OutboundRow
    <3> QED BY <1>t, <2>1, <2>2, RetireMoves
  <2> QED BY <1>1, <2>3, <2>4
<1>4. ASSUME NEW code \in {"superseded", "manual_reply"},
             \A m \in Customer : outbound'[m] = Retire(outbound[m], code)
      PROVE  SentAsBefore
  <2> HIDE DEF OutboundRow
  <2> QED BY <1>t, <1>4, RetireMoves
<1>5. ASSUME NEW id \in ProviderId, IngestManual(id) PROVE ReplyRowMeansSent' /\ LatestIsNewest'
  <2>1. id \notin Customer /\ ~IsEcho(id) /\ routed[id] = "accepted_business"
    BY <1>5 DEF IngestManual, HistoryInv, RoutedTruly
  <2>2. \A m \in Customer : id # Reply(m)
    <3> SUFFICES ASSUME NEW m \in Customer, id = Reply(m) PROVE FALSE  OBVIOUS
    <3>1. sends[m] > 0  BY <2>1 DEF HistoryInv, RoutedTruly
    <3>2. outbound[m].state # "none"  BY <3>1 DEF SendInv, OneDispatchPerReply
    <3> QED BY <2>1, <3>2 DEF IsEcho
  <2>3. /\ \A m \in Customer : sequence'[m] = sequence[m] /\ sequence'[Reply(m)] = sequence[Reply(m)]
        /\ latestInbound' = NULL
    <3>1. sequence' = [sequence EXCEPT ![id] = nextSequence] /\ latestInbound' = NULL
      BY <1>5 DEF IngestManual
    <3> HIDE DEF ProviderId
    <3> QED BY <1>t, <2>1, <2>2, <3>1, RepliesApart
  <2>4. SentAsBefore  BY <1>4, <1>5 DEF IngestManual
  <2> QED BY <2>3, <2>4 DEF HistoryInv, ReplyRowMeansSent, LatestIsNewest
<1>6. ASSUME NEW x \in Customer, IngestCustomer(x) PROVE ReplyRowMeansSent' /\ LatestIsNewest'
  <2>1. outbound[x].state = "none"  BY <1>6 DEF IngestCustomer, IngestedOnce
  <2>2. /\ sequence'[x] = nextSequence /\ \A a \in ProviderId \ {x} : sequence'[a] = sequence[a]
        /\ latestInbound' = x
    <3>1. sequence' = [sequence EXCEPT ![x] = nextSequence] /\ latestInbound' = x
      BY <1>6 DEF IngestCustomer
    <3> HIDE DEF ProviderId
    <3> QED BY <1>t, <3>1
  <2>3. SentAsBefore  BY <1>4, <1>6 DEF IngestCustomer
  <2> HIDE DEF ProviderId
  <2>4. ReplyRowMeansSent'
    BY <1>t, <2>1, <2>2, <2>3, RepliesApart DEF HistoryInv, ReplyRowMeansSent
  <2>5. LatestIsNewest'  BY <1>t, <2>2 DEF LatestIsNewest
  <2> QED BY <2>4, <2>5
<1>7. ASSUME NEW w \in Workers, CommitReply(w) \/ CommitSilent(w)
      PROVE  ReplyRowMeansSent' /\ LatestIsNewest'
  <2>1. SentAsBefore  BY <1>7, <1>t DEF CommitReply, CommitSilent, sendVars
  <2>2. UNCHANGED <<sequence, latestInbound>>  BY <1>7 DEF CommitReply, CommitSilent
  <2> QED BY <1>1, <2>1, <2>2
<1>8. ASSUME NEW f \in flight, FinishOutbound(f) PROVE ReplyRowMeansSent' /\ LatestIsNewest'
  <2> DEFINE m == f.message
  <2>1. CASE \A x \in Customer : UNCHANGED sequence /\ SentAsBefore
    <3>1. latestInbound' = latestInbound  BY <1>8 DEF FinishOutbound
    <3>2. CASE Customer = {}  BY <3>2, <1>t
    <3> QED BY <1>1, <2>1, <3>1, <3>2
  <2>2. CASE /\ outbound[m].state = "sending" /\ outbound'[m].state = "sent"
             /\ \A x \in Customer \ {m} : outbound'[x] = outbound[x]
             /\ RecordReply(m)
    <3>1. sequence[Reply(m)] = 0  BY <1>t, <2>2 DEF HistoryInv, ReplyRowMeansSent
    <3>2. /\ sequence'[Reply(m)] = nextSequence
          /\ \A a \in ProviderId \ {Reply(m)} : sequence'[a] = sequence[a]
      <4>1. sequence' = [sequence EXCEPT ![Reply(m)] = nextSequence]  BY <2>2, <3>1 DEF RecordReply
      <4> HIDE DEF ProviderId
      <4> QED BY <1>t, <4>1, RepliesApart
    <3>3. latestInbound' = latestInbound  BY <1>8 DEF FinishOutbound
    <3> HIDE DEF ProviderId
    <3>4. ReplyRowMeansSent'
      BY <1>t, <2>2, <3>2, RepliesApart DEF HistoryInv, ReplyRowMeansSent
    <3>5. LatestIsNewest'  BY <1>t, <3>2, <3>3, RepliesApart DEF HistoryInv, LatestIsNewest
    <3> QED BY <3>4, <3>5
  <2>3. \/ UNCHANGED sequence /\ SentAsBefore
        \/ /\ outbound[m].state = "sending" /\ outbound'[m].state = "sent"
           /\ \A x \in Customer \ {m} : outbound'[x] = outbound[x]
           /\ RecordReply(m)
    BY <1>8, <1>t DEF FinishOutbound, Fenced, Outcome
  <2> QED BY <1>t, <2>1, <2>2, <2>3
<1>9. CASE UNCHANGED <<conversationVars, outbound>>
  BY <1>1, <1>9 DEF conversationVars
<1> QED BY <1>2, <1>3, <1>5, <1>6, <1>7, <1>8, <1>9, ConversationSteps

LEMMA HistoryInvariant == Spec => [](TypeOK /\ SendInv /\ IngestedOnce /\ SequencesDistinct /\ HistoryInv)
<1>1. Init => SequencesDistinct /\ IngestedOnce  BY DEF Init, SequencesDistinct, IngestedOnce, NoOutbound
<1>2. Init => HistoryInv
  BY RepliesApart DEF Init, HistoryInv, RoutedTruly, ReplyRowMeansSent, LatestIsNewest, NoOutbound
<1> QED BY <1>1, <1>2, TypeCorrect, SendInvInit, SendInvStep, IngestedOnceStep, SequencesStep, HistoryStep,
           PTL DEF Spec

\* A reply is in the history exactly when its delivery was acknowledged, and
\* after the message it answers (finishOutbound against an early echo).
THEOREM HistoryIsDelivered == Spec => []ReplyRowMeansSent
<1>1. HistoryInv => ReplyRowMeansSent  BY DEF HistoryInv
<1> QED BY <1>1, HistoryInvariant, PTL

\* A reply is claimed only while it answers the newest text of the conversation
\* (claim_owned_outbound).
THEOREM AnswersTheNewest == Spec => ReplyAnswersNewest
<1> DEFINE ToNewest == \A m \in Customer :
                       outbound[m].state = "generated" /\ outbound'[m].state = "sending" =>
                         \A id \in Customer \cup Manual : sequence[id] <= sequence[m]
<1>1. ASSUME TypeOK, HistoryInv, [Next]_vars PROVE ToNewest
  <2> SUFFICES ASSUME NEW m \in Customer, outbound[m].state = "generated", outbound'[m].state = "sending"
               PROVE  m = latestInbound
    BY MessagingAssumption, <1>1 DEF HistoryInv, LatestIsNewest
  <2>t. /\ outbound \in [Customer -> OutboundRow] /\ outbound[m] \in OutboundRow
        /\ \A f \in flight : f.message \in Customer
    BY <1>1 DEF TypeOK, SendType
  <2>1. ASSUME NEW code \in {"superseded", "manual_reply"}, outbound'[m] = Retire(outbound[m], code) PROVE FALSE
    <3> HIDE DEF OutboundRow
    <3> QED BY <2>t, <2>1, RetireMoves
  <2>2. ASSUME NEW p \in Managers, TakeOver(p) PROVE FALSE
    <3>1. outbound'[m] = Abandon(outbound[m])  BY <2>2 DEF TakeOver
    <3> HIDE DEF OutboundRow
    <3> QED BY <2>t, <3>1, AbandonMoves
  <2>3. ASSUME NEW p \in Managers, ClaimOutbound(p) PROVE m = latestInbound
    <3> SUFFICES ASSUME m # latestInbound PROVE FALSE  OBVIOUS
    <3>1. outbound'[m] = Retire(outbound[m], "superseded")  BY <2>3 DEF ClaimOutbound
    <3> QED BY <2>1, <3>1
  <2>4. ASSUME NEW w \in Workers, CommitReply(w) \/ CommitSilent(w) PROVE FALSE
    BY <2>4, <2>t DEF CommitReply, CommitSilent, sendVars
  <2>5. ASSUME NEW f \in flight, FinishOutbound(f) PROVE FALSE
    BY <2>5, <2>t DEF FinishOutbound, Fenced
  <2>6. ASSUME NEW id \in ProviderId, IngestManual(id) PROVE FALSE  BY <2>1, <2>6 DEF IngestManual
  <2>7. ASSUME NEW x \in Customer, IngestCustomer(x) PROVE FALSE  BY <2>1, <2>7 DEF IngestCustomer
  <2> QED BY <1>1, <2>2, <2>3, <2>4, <2>5, <2>6, <2>7, ConversationSteps
<1> QED BY <1>1, HistoryInvariant, PTL DEF Spec, ReplyAnswersNewest
=============================================================================
