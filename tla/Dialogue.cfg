SPECIFICATION Spec
CONSTANTS
  NULL = NULL
  Names = {n1}
  MaxMessage = 3
  MaxSlot = 2
  MaxEdits = 1
  MaxCalls = 2
  Texts = {"yes", n1}
INVARIANTS DeliveredIsPresented SavedAsPresented AcceptanceIsForThisQuote OneSavePerQuote
CHECK_DEADLOCK FALSE
