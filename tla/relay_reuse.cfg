SPECIFICATION Spec
CONSTANTS
  alice = alice bob = bob ca = ca cb = cb cc = cc
  m1 = m1 m2 = m2 m3 = m3 w1 = w1 w2 = w2
  None = None
  AddressOf <- MCAddressOf
  Address = {bob}
  Conn = {cb, cc}
  Message = {m1, m2}
  Wait = {w1, w2}
  Filter <- AnySender
  ReplyTo <- NoReply
  Capacity = 1
  Disposition = {"acknowledge", "defer", "cancelled"}
SYMMETRY Symmetry
INVARIANTS
  TypeOK
  RegistryMatchesConnections
  MessageInOnePlace
  DeliveryIsSound
  WaitersAreTheBlockedCalls
PROPERTIES
  LifecycleSpec
\* Callers may stop calling: every call of the instance has been made.
CHECK_DEADLOCK FALSE
