--------------------------- MODULE RelayLifecycle ---------------------------
(***************************************************************************)
(* What a relay promises about one message, whatever the implementation:   *)
(* it is issued once; accepted, it waits in a bounded mailbox or goes      *)
(* straight to a waiting caller; a delivery handler may own it for a while *)
(* and give it back; and one reader, at most, consumes it.  The one way an *)
(* accepted message is dropped is that the waiting caller it was handed to *)
(* is interrupted.                                                         *)
(***************************************************************************)
EXTENDS Naturals, FiniteSets

CONSTANTS Message, Conn, Capacity

VARIABLES
  issued,    \* messages that were sent, accepted or not
  pending,   \* per mailbox: unread messages
  owned,     \* per mailbox: messages a delivery handler is responsible for
  handed,    \* messages given to a waiting caller that has not returned
  consumed,  \* messages some reader obtained
  dropped    \* accepted messages nobody will obtain

vars == <<issued, pending, owned, handed, consumed, dropped>>

Init ==
  /\ issued = {} /\ handed = {} /\ consumed = {} /\ dropped = {}
  /\ pending = [c \in Conn |-> {}]
  /\ owned = [c \in Conn |-> {}]

Issue(m) == m \notin issued /\ issued' = issued \cup {m}

Refuse(m) == Issue(m) /\ UNCHANGED <<pending, owned, handed, consumed, dropped>>

Store(m, c) ==
  /\ Issue(m)
  /\ Cardinality(pending[c] \cup owned[c]) < Capacity
  /\ pending' = [pending EXCEPT ![c] = @ \cup {m}]
  /\ UNCHANGED <<owned, handed, consumed, dropped>>

Hand(m) ==
  /\ Issue(m)
  /\ handed' = handed \cup {m}
  /\ UNCHANGED <<pending, owned, consumed, dropped>>

\* The waiting caller returns with the message, or was interrupted.
Return(m) ==
  /\ m \in handed
  /\ handed' = handed \ {m}
  /\ \/ consumed' = consumed \cup {m} /\ UNCHANGED dropped
     \/ dropped' = dropped \cup {m} /\ UNCHANGED consumed
  /\ UNCHANGED <<issued, pending, owned>>

Read(c, S) ==
  /\ S \subseteq pending[c]
  /\ pending' = [pending EXCEPT ![c] = @ \ S]
  /\ consumed' = consumed \cup S
  /\ UNCHANGED <<issued, owned, handed, dropped>>

Own(m, c) ==
  /\ m \in pending[c]
  /\ pending' = [pending EXCEPT ![c] = @ \ {m}]
  /\ owned' = [owned EXCEPT ![c] = @ \cup {m}]
  /\ UNCHANGED <<issued, handed, consumed, dropped>>

Release(m, c) ==
  /\ m \in owned[c]
  /\ owned' = [owned EXCEPT ![c] = @ \ {m}]
  /\ \/ pending' = [pending EXCEPT ![c] = @ \cup {m}] /\ UNCHANGED consumed
     \/ consumed' = consumed \cup {m} /\ UNCHANGED pending
  /\ UNCHANGED <<issued, handed, dropped>>

Next ==
  \/ \E m \in Message : Refuse(m) \/ Hand(m) \/ Return(m)
  \/ \E m \in Message, c \in Conn : Store(m, c) \/ Own(m, c) \/ Release(m, c)
  \/ \E c \in Conn, S \in SUBSET Message : Read(c, S)

Spec == Init /\ [][Next]_vars

=============================================================================
