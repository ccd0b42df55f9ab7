SPECIFICATION FairSpec
CONSTANTS
  alice = alice bob = bob ca = ca cb = cb cc = cc
  m1 = m1 m2 = m2 m3 = m3 w1 = w1 w2 = w2
  None = None
  AddressOf <- MCAddressOf
  Address = {bob}
  Conn = {cb}
  Message = {m1, m2}
  Wait = {w1, w2}
  Filter <- Replies
  ReplyTo <- ReplyToM1
  Capacity = 2
  Disposition = {"acknowledge"}
INVARIANTS
  WaitersAreServed
PROPERTIES
  StoredMessagesAreDelivered
  DeliveryTasksEnd
\* Every message of the instance may have been consumed.
CHECK_DEADLOCK FALSE
