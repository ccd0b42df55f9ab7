SPECIFICATION FairSpec
CONSTANTS
  r1 = r1 r2 = r2 r3 = r3 c1 = c1 a1 = a1 k1 = k1
  Server = Server Reader = Reader Nobody = Nobody
  Run = {r1, r2}
  Command = {c1}
  Agent = {a1}
  AgentOf <- OneAgent
  Conversation = {k1}
  ConversationOf <- SameConversation
  Slots <- TwoSlots
  MaxEvents = 1
  Buffer = 0
  Trailer <- NoTrailer
  CommitsHistory = TRUE
INVARIANTS
  TypeOK
  ExecutesInOrder
  FramesAreWrittenInTurn
PROPERTIES
  OutcomeSpec
  HistoryGrows
  RequestsEnd
\* Every run and command of the instance may have ended.
CHECK_DEADLOCK FALSE
