SPECIFICATION ImpatientSpec
CONSTANTS
  r1 = r1 r2 = r2 r3 = r3 c1 = c1 a1 = a1 k1 = k1
  Server = Server Reader = Reader Nobody = Nobody
  Run = {r1}
  Command = {}
  Agent = {a1}
  AgentOf <- OneAgent
  Conversation = {k1}
  ConversationOf <- SameConversation
  Slots <- TwoSlots
  MaxEvents = 1
  Buffer = 0
  Trailer <- NoTrailer
  CommitsHistory = FALSE
INVARIANTS
  FramesAreWrittenInTurn
\* Every request of the instance may have been answered.
CHECK_DEADLOCK FALSE
