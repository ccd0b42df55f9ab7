SPECIFICATION ReadingSpec
CONSTANTS
  r1 = r1 r2 = r2 a1 = a1 a2 = a2 k1 = k1
  Server = Server
  Run = {r1, r2}
  Agent = {a1}
  AgentOf <- OneAgent
  Conversation = {k1}
  ConversationOf <- SameConversation
  Slots <- NarrowAgent
  MaxEvents = 1
  Buffer = 1
  Trailer <- EndFrame
  CommitsHistory = TRUE
INVARIANTS
  SlotsAreConserved
PROPERTIES
  HistoryGrows
  RunsEnd
  CancelIsReported
\* Every request of the instance may have been answered.
CHECK_DEADLOCK FALSE
