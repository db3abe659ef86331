SPECIFICATION ConversationSpec
CONSTANTS
  Customer = {c1, c2}
  Manual = {b1}
  Managers = {p1}
  Workers = {w1}
  NULL = NULL
  InitialDelay = 1
  ActiveDelay = 1
  InactivityReset = 1
  ClaimTtl = 1
  RetryDelay = 1
  RetryLimit = 1
  MaxNow = 2
  MaxTokens = 1
  MaxClaims = 1
  MaxRouting = 1
  Faults = {"silent", "providerFailure"}
  Summarizers = {s1, s2}
  Budget = 2
  HistoryTurns = 1
  SummaryRetries = 1
  MaxTurns = 4
  MaxTrouble = 1
INVARIANTS RetiredNeverSent DeadlineHasMessage ReplyRowMeansSent SummariesAgree ToldOnce
PROPERTIES ReplyAnswersNewest
SYMMETRY SummarizerSymmetry
CHECK_DEADLOCK FALSE
