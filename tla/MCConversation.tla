--------------------------- MODULE MCConversation ---------------------------
(***************************************************************************)
(* Model-checking instance of Messaging and of Summaries: the two queues a *)
(* conversation feeds.  A summary changes nothing but what the agent is    *)
(* told, and a behaviour is one of either queue.                           *)
(***************************************************************************)
EXTENDS Messaging, Summaries, TLC

VARIABLE queue

ConversationInit == queue \in {"ai-generate", "conversation-summary"} /\ Init /\ SummariesInit
Answer == queue = "ai-generate" /\ Next /\ UNCHANGED <<queue, summaries>>
Summarise == queue = "conversation-summary" /\ SummariesNext /\ UNCHANGED <<queue, vars>>
ConversationSpec == ConversationInit /\ [][Answer \/ Summarise]_<<queue, vars, summaries>>

SummarizerSymmetry == Permutations(Summarizers)
=============================================================================
