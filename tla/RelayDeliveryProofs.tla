------------------------ MODULE RelayDeliveryProofs ------------------------
(***************************************************************************)
(* What the relay network promises of deliveries, and that it implements   *)
(* RelayLifecycle: consequences of the invariant of RelayProofs.           *)
(***************************************************************************)
EXTENDS RelayProofs, FiniteSetTheorems

\* A mailbox is finite and within its bound.
BoundInv ==
  \A c \in Conn : IsFiniteSet(inbox[c]) /\ Cardinality(inbox[c]) <= Capacity

\* If no handler is cancelled, nothing is reserved or scheduled without a task.
SettledInv ==
  "cancelled" \notin Disposition =>
    \A c \in Conn : /\ reserved[c] \subseteq {delivering[c]}
                    /\ scheduled[c] \subseteq Queued(c) \cup {delivering[c]}

\* One more message in a mailbox that is not full.
LEMMA StoredWithinBound ==
  ASSUME NEW S, IsFiniteSet(S), ~(Cardinality(S) >= Capacity), NEW m
  PROVE  IsFiniteSet(S \cup {m}) /\ Cardinality(S \cup {m}) <= Capacity
<1>1. Cardinality(S) \in Nat
  BY FS_CardinalityType
<1>2. IsFiniteSet(S \cup {m}) /\ Cardinality(S \cup {m}) \in {Cardinality(S), Cardinality(S) + 1}
  BY FS_AddElement
<1> QED BY <1>1, <1>2, RelayAssumption

\* Fewer messages in a mailbox.
LEMMA RemovedWithinBound ==
  ASSUME NEW S, IsFiniteSet(S), Cardinality(S) <= Capacity, NEW T
  PROVE  IsFiniteSet(S \ T) /\ Cardinality(S \ T) <= Capacity
<1>1. S \ T \in SUBSET S
  OBVIOUS
<1>2. IsFiniteSet(S \ T) /\ Cardinality(S \ T) <= Cardinality(S)
  BY <1>1, FS_Subset
<1>3. Cardinality(S) \in Nat /\ Cardinality(S \ T) \in Nat
  BY <1>2, FS_CardinalityType
<1> QED BY <1>2, <1>3, RelayAssumption

\* The inbox of one mailbox changes at a time: it loses messages, or gains one
\* while it is not full.
LEMMA InboxSteps ==
  ASSUME TypeOK, [Next]_vars
  PROVE  \/ UNCHANGED inbox
         \/ \E c \in Conn : \E T : inbox' = [inbox EXCEPT ![c] = @ \ T]
         \/ \E c \in Conn, m \in Message : ~Full(c) /\ inbox' = [inbox EXCEPT ![c] = @ \cup {m}]
<1>1. ASSUME NEW c \in Conn, TakePending(c) PROVE \E T : inbox' = [inbox EXCEPT ![c] = @ \ T]
  BY <1>1 DEF TakePending
<1>2. ASSUME NEW w \in Wait, NEW c \in Conn, NEW f \in Filter, WaitTake(w, c, f)
      PROVE \E T : inbox' = [inbox EXCEPT ![c] = @ \ T]
  BY <1>2 DEF WaitTake
<1>3. ASSUME NEW c \in Conn, NEW d \in Disposition, Finish(c, d)
      PROVE UNCHANGED inbox \/ \E T : inbox' = [inbox EXCEPT ![c] = @ \ T]
  BY <1>3 DEF Finish
<1>4. ASSUME NEW c \in Conn, NEW a \in Address, NEW m \in Message, NEW r \in ReplyTo, Send(c, a, m, r)
      PROVE  \/ UNCHANGED inbox
             \/ \E d \in Conn, n \in Message : ~Full(d) /\ inbox' = [inbox EXCEPT ![d] = @ \cup {n}]
  <2>1. CASE SendToMailbox(c, a, m, r)
    <3>1. mailboxes[a] \in Conn
      BY <2>1 DEF SendToMailbox, TypeOK
    <3> QED BY <2>1, <3>1 DEF SendToMailbox
  <2> QED BY <1>4, <2>1 DEF Send, SendToWaiter, SendRefused, box
<1>5. ASSUME NEW c \in Conn, (\E h \in BOOLEAN : Connect(c, h) \/ SetHandler(c, h)) \/ Close(c) \/ Prepare(c)
      PROVE UNCHANGED inbox
  BY <1>5 DEF Connect, SetHandler, Close, Prepare, box
<1>6. ASSUME NEW w \in Wait, \/ \E c \in Conn, f \in Filter : WaitRegister(w, c, f)
                             \/ \E kind \in {"timeout", "cancel"} : Interrupt(w, kind)
                             \/ WaitResume(w)
      PROVE UNCHANGED inbox
  BY <1>6 DEF WaitRegister, Interrupt, WaitResume, box
<1>7. CASE UNCHANGED vars
  BY <1>7 DEF vars, box
<1> QED
  BY <1>1, <1>2, <1>3, <1>4, <1>5, <1>6, <1>7 DEF Next

LEMMA BoundStep ==
  ASSUME TypeOK, BoundInv, [Next]_vars
  PROVE  BoundInv'
<1>1. inbox \in [Conn -> SUBSET Message]
  BY DEF TypeOK
<1>2. CASE UNCHANGED inbox
  BY <1>2 DEF BoundInv
<1>3. ASSUME NEW c \in Conn, NEW T, inbox' = [inbox EXCEPT ![c] = @ \ T] PROVE BoundInv'
  <2>1. IsFiniteSet(inbox[c] \ T) /\ Cardinality(inbox[c] \ T) <= Capacity
    BY RemovedWithinBound DEF BoundInv
  <2> QED BY <1>1, <1>3, <2>1 DEF BoundInv
<1>4. ASSUME NEW c \in Conn, NEW m \in Message, ~Full(c), inbox' = [inbox EXCEPT ![c] = @ \cup {m}] PROVE BoundInv'
  <2>1. IsFiniteSet(inbox[c] \cup {m}) /\ Cardinality(inbox[c] \cup {m}) <= Capacity
    BY <1>4, StoredWithinBound DEF BoundInv, Full
  <2> QED BY <1>1, <1>4, <2>1 DEF BoundInv
<1> QED BY <1>2, <1>3, <1>4, InboxSteps

-----------------------------------------------------------------------------
LEMMA QueuedAfterSchedule ==
  ASSUME TypeOK, NEW c \in Conn, NEW q \in Seq(Message), Schedule(c, q)
  PROVE  /\ Queued(c)' = Queued(c) \cup {q[i] : i \in DOMAIN q}
         /\ scheduled'[c] = scheduled[c] \cup {q[i] : i \in DOMAIN q}
         /\ \A d \in Conn : d # c => Queued(d)' = Queued(d) /\ scheduled'[d] = scheduled[d]
<1>1. tasks[c] \in Seq(Message) /\ tasks'[c] = tasks[c] \o q
      /\ scheduled'[c] = scheduled[c] \cup {q[i] : i \in DOMAIN q}
  BY DEF TypeOK, Schedule
<1>2. Queued(c)' = Queued(c) \cup {q[i] : i \in DOMAIN q}
  <2>1. {(tasks[c] \o q)[i] : i \in DOMAIN (tasks[c] \o q)}
          = {tasks[c][i] : i \in DOMAIN tasks[c]} \cup {q[i] : i \in DOMAIN q}
    BY <1>1, ConcatOfQueues
  <2>2. Queued(c)' = {(tasks[c] \o q)[i] : i \in DOMAIN (tasks[c] \o q)}
    BY <1>1 DEF Queued
  <2> QED BY <2>1, <2>2 DEF Queued
<1>3. \A d \in Conn : d # c => tasks'[d] = tasks[d] /\ scheduled'[d] = scheduled[d]
  BY DEF TypeOK, Schedule
<1> QED BY <1>1, <1>2, <1>3 DEF Queued

LEMMA ScheduleSettled ==
  ASSUME TypeOK, SettledInv, NEW c \in Conn, NEW q \in Seq(Message), Schedule(c, q),
         UNCHANGED <<reserved, delivering>>
  PROVE  SettledInv'
BY QueuedAfterSchedule DEF SettledInv

LEMMA SettledStep ==
  ASSUME Inv, SettledInv, [Next]_vars
  PROVE  SettledInv'
<1>t. /\ TypeOK /\ OwnerInv
      /\ reserved \in [Conn -> SUBSET Message] /\ scheduled \in [Conn -> SUBSET Message]
      /\ tasks \in [Conn -> Seq(Message)] /\ delivering \in [Conn -> Message \cup {None}]
      /\ None \notin Message
  BY RelayAssumption DEF Inv, TypeOK
<1>0. CASE UNCHANGED <<reserved, scheduled, tasks, delivering>>
  BY <1>0 DEF SettledInv, Queued
<1>1. ASSUME NEW c \in Conn, NEW h \in BOOLEAN, SetHandler(c, h) PROVE SettledInv'
  <2>1. CASE h
    <3>1. PICK q \in InOrder(accepted, Unscheduled(c)) : Schedule(c, q)
      BY <1>1, <2>1 DEF SetHandler
    <3>2. accepted \in Seq(Message) /\ Unscheduled(c) \in SUBSET Message
      BY <1>t DEF Unscheduled, TypeOK
    <3>3. q \in Seq(Message)
      BY <3>1, <3>2, InOrderIsSequence
    <3> QED BY <1>1, <1>t, <3>1, <3>3, ScheduleSettled DEF SetHandler
  <2> QED BY <1>0, <1>1, <2>1 DEF SetHandler
<1>2. ASSUME NEW c \in Conn, NEW a \in Address, NEW m \in Message, NEW r \in ReplyTo, Send(c, a, m, r)
      PROVE SettledInv'
  <2>1. CASE SendToMailbox(c, a, m, r)
    <3>1. mailboxes[a] \in Conn /\ UNCHANGED <<reserved, delivering>>
          /\ (Schedule(mailboxes[a], <<m>>) \/ UNCHANGED <<tasks, scheduled>>)
      BY <1>t, <2>1 DEF SendToMailbox, TypeOK
    <3>2. <<m>> \in Seq(Message)
      OBVIOUS
    <3> QED BY <1>0, <1>t, <3>1, <3>2, ScheduleSettled
  <2> QED BY <1>0, <1>2, <2>1 DEF Send, SendToWaiter, SendRefused, box
<1>3. ASSUME NEW c \in Conn, Prepare(c) PROVE SettledInv'
  <2>1. /\ tasks[c] # <<>> /\ tasks[c] \in Seq(Message) /\ delivering[c] = None
        /\ \A i, j \in DOMAIN tasks[c] : tasks[c][i] = tasks[c][j] => i = j
        /\ tasks' = [tasks EXCEPT ![c] = Tail(@)]
    BY <1>3, <1>t DEF Prepare, OwnerInv
  <2> DEFINE m == Head(tasks[c])
  <2>2. Queued(c)' = Queued(c) \ {m} /\ m \in Message
    <3>1. {Tail(tasks[c])[i] : i \in DOMAIN Tail(tasks[c])} = Queued(c) \ {m}
      BY <2>1, TailOfQueue DEF Queued
    <3>2. tasks'[c] = Tail(tasks[c]) /\ m \in Message
      BY <1>t, <2>1
    <3> QED BY <3>1, <3>2 DEF Queued
  <2>3. \A d \in Conn : d # c => Queued(d)' = Queued(d)
    BY <1>t, <2>1 DEF Queued
  <2>4. \/ reserved' = [reserved EXCEPT ![c] = @ \cup {m}] /\ delivering' = [delivering EXCEPT ![c] = m]
           /\ UNCHANGED scheduled
        \/ scheduled' = [scheduled EXCEPT ![c] = @ \ {m}] /\ UNCHANGED <<reserved, delivering>>
    BY <1>3 DEF Prepare
  <2> HIDE DEF m
  <2>5. ASSUME "cancelled" \notin Disposition, NEW d \in Conn
        PROVE  reserved'[d] \subseteq {delivering'[d]} /\ scheduled'[d] \subseteq Queued(d)' \cup {delivering'[d]}
    <3>1. reserved[d] \subseteq {delivering[d]} /\ scheduled[d] \subseteq Queued(d) \cup {delivering[d]}
      BY <2>5 DEF SettledInv
    <3>2. CASE d = c
      <4>1. reserved[c] = {} /\ scheduled[c] \subseteq Queued(c)
        BY <1>t, <2>1, <3>1, <3>2
      <4> QED BY <1>t, <2>2, <2>4, <3>2, <4>1
    <3> QED BY <1>t, <2>3, <2>4, <3>1, <3>2
  <2> QED BY <2>5 DEF SettledInv
<1>4. ASSUME NEW c \in Conn, NEW disposition \in Disposition, Finish(c, disposition) PROVE SettledInv'
  <2>1. ASSUME "cancelled" \notin Disposition
        PROVE  /\ delivering' = [delivering EXCEPT ![c] = None] /\ UNCHANGED tasks
               /\ reserved' = [reserved EXCEPT ![c] = @ \ {delivering[c]}]
               /\ scheduled' = [scheduled EXCEPT ![c] = @ \ {delivering[c]}]
    BY <1>4, <2>1, RelayAssumption DEF Finish, Settles
  <2>2. \A d \in Conn : UNCHANGED tasks => Queued(d)' = Queued(d)
    BY DEF Queued
  <2>3. ASSUME "cancelled" \notin Disposition, NEW d \in Conn
        PROVE  reserved'[d] \subseteq {delivering'[d]} /\ scheduled'[d] \subseteq Queued(d)' \cup {delivering'[d]}
    <3>1. reserved[d] \subseteq {delivering[d]} /\ scheduled[d] \subseteq Queued(d) \cup {delivering[d]}
      BY <2>3 DEF SettledInv
    <3>2. Queued(d)' = Queued(d)
      BY <2>1, <2>2, <2>3
    <3> HIDE <1>4
    <3>3. CASE d = c
      BY <1>t, <2>1, <2>3, <3>1, <3>2, <3>3
    <3>4. CASE d # c
      BY <1>t, <2>1, <2>3, <3>1, <3>2, <3>4
    <3> QED BY <3>3, <3>4
  <2> QED BY <2>3 DEF SettledInv
<1>5. ASSUME NEW c \in Conn, (\E h \in BOOLEAN : Connect(c, h)) \/ Close(c) \/ TakePending(c)
      PROVE UNCHANGED <<reserved, scheduled, tasks, delivering>>
  BY <1>5 DEF Connect, Close, TakePending, box
<1>6. ASSUME NEW w \in Wait, \/ \E c \in Conn, f \in Filter : WaitTake(w, c, f) \/ WaitRegister(w, c, f)
                             \/ \E kind \in {"timeout", "cancel"} : Interrupt(w, kind)
                             \/ WaitResume(w)
      PROVE UNCHANGED <<reserved, scheduled, tasks, delivering>>
  BY <1>6 DEF WaitTake, WaitRegister, Interrupt, WaitResume, box
<1>7. CASE UNCHANGED vars
  BY <1>0, <1>7 DEF vars, box
<1> QED
  BY <1>0, <1>1, <1>2, <1>3, <1>4, <1>5, <1>6, <1>7 DEF Next

\* _prepare_delivery, _finish_delivery, _accept_pending: with any number of
\* connections, messages and handlers, every delivery has one owner, every
\* message one task, and every mailbox stays within its capacity.
THEOREM DeliveriesAreSound == Spec => []DeliveryIsSound
<1>1. Init => BoundInv /\ SettledInv
  BY FS_EmptySet, RelayAssumption DEF Init, BoundInv, SettledInv, Queued
<1>2. Inv /\ BoundInv /\ SettledInv /\ [Next]_vars => BoundInv' /\ SettledInv'
  BY BoundStep, SettledStep DEF Inv
<1>3. Inv /\ BoundInv /\ SettledInv => DeliveryIsSound
  <2> SUFFICES ASSUME Inv, BoundInv, SettledInv PROVE DeliveryIsSound
    OBVIOUS
  <2>1. HandlerOwnsItsMessage
    BY DEF HandlerOwnsItsMessage, Inv, OwnerInv, SettledInv
  <2>2. OneTaskPerMessage
    <3>1. ASSUME NEW c \in Conn PROVE delivering[c] \notin Queued(c)
      <4>1. None \notin Queued(c)
        BY RelayAssumption DEF Inv, OwnerInv, TypeOK
      <4> QED BY <4>1 DEF Inv, OwnerInv
    <3> QED BY <3>1 DEF OneTaskPerMessage, Inv, OwnerInv, SettledInv, Queued
  <2>3. MailboxBounded
    BY DEF MailboxBounded, BoundInv
  <2> QED BY <2>1, <2>2, <2>3 DEF DeliveryIsSound
<1> QED
  BY <1>1, <1>2, <1>3, InvIsInvariant, PTL DEF Spec

-----------------------------------------------------------------------------
(* Waits and the messages they would accept *)

Active(w, c) == w \in waiters[c] /\ future[w] = Pending /\ conn[c] = "open"

\* No wait becomes active and no message visible.
LEMMA ServedStays ==
  ASSUME WaitersAreServed,
         \A c \in Conn, w \in Wait : Active(w, c)' => Active(w, c) /\ want'[w] = want[w],
         \A c \in Conn : \A m \in Visible(c)' : m \in Visible(c) /\ envelope'[m] = envelope[m]
  PROVE  WaitersAreServed'
<1>1. ASSUME NEW c \in Conn, NEW w \in Wait, Active(w, c)', "defer" \notin Disposition
      PROVE  Wanted(c, want[w].filter)' = {}
  <2>1. Active(w, c) /\ want'[w] = want[w]
    BY <1>1
  <2>2. Wanted(c, want[w].filter) = {}
    BY <1>1, <2>1 DEF WaitersAreServed, Active
  <2> QED BY <2>1, <2>2 DEF Wanted
<1> QED BY <1>1 DEF WaitersAreServed, Active

LEMMA ServedBySend ==
  ASSUME Inv, WaitersAreServed, NEW c \in Conn, NEW a \in Address, NEW m \in Message, NEW r \in ReplyTo,
         Send(c, a, m, r)
  PROVE  WaitersAreServed'
<1>t. TypeOK /\ PlaceInv /\ WaitInv
  BY DEF Inv
<1>1. /\ UNCHANGED <<conn, want, reserved>> /\ fate[m] = "unsent"
      /\ envelope' = [envelope EXCEPT ![m] = [sender |-> AddressOf[c], replyTo |-> r]]
  BY DEF Send, SendToWaiter, SendToMailbox, SendRefused, Post, call, box
<1>2. \A d \in Conn : m \notin inbox[d]
  BY <1>t, <1>1 DEF PlaceInv
<1>3. \A d \in Conn : \A n \in Visible(d) : envelope'[n] = envelope[n] /\ n # m /\ n \in Message
  BY <1>t, <1>1, <1>2 DEF Visible, TypeOK
<1>4. CASE SendRefused(c, a, m, r)
  <2>1. UNCHANGED <<waiters, future, inbox>>
    BY <1>4 DEF SendRefused, box, call
  <2>2. \A d \in Conn, w \in Wait : Active(w, d)' => Active(w, d)
    BY <1>1, <2>1 DEF Active
  <2>3. \A d \in Conn : Visible(d)' = Visible(d)
    BY <1>1, <2>1 DEF Visible
  <2> QED BY <1>1, <1>3, <2>2, <2>3, ServedStays
<1>5. CASE SendToWaiter(c, a, m, r)
  <2>1. UNCHANGED inbox /\ \A d \in Conn : waiters'[d] \subseteq waiters[d]
    BY <1>t, <1>5 DEF SendToWaiter, TypeOK
  <2>2. PICK w \in Takers(mailboxes[a], AddressOf[c], r) :
          future' = [future EXCEPT ![w] = "result"] \/ UNCHANGED future
    BY <1>5, OldestIsMember DEF SendToWaiter
  <2>3. \A v \in Wait : future'[v] = Pending => future[v] = Pending
    BY <1>t, <2>2 DEF TypeOK, Pending
  <2>4. \A d \in Conn, v \in Wait : Active(v, d)' => Active(v, d)
    BY <1>1, <2>1, <2>3 DEF Active
  <2>5. \A d \in Conn : Visible(d)' = Visible(d)
    BY <1>1, <2>1 DEF Visible
  <2> QED BY <1>1, <1>3, <2>4, <2>5, ServedStays
<1>6. CASE SendToMailbox(c, a, m, r)
  <2> DEFINE d == mailboxes[a]
  <2>1. /\ d \in Conn /\ Takers(d, AddressOf[c], r) = {}
        /\ inbox' = [inbox EXCEPT ![d] = @ \cup {m}] /\ UNCHANGED <<waiters, future>>
    BY <1>t, <1>6 DEF SendToMailbox, TypeOK, call
  <2> HIDE DEF d
  <2>2. ASSUME NEW e \in Conn, NEW w \in Wait, Active(w, e)', "defer" \notin Disposition,
               NEW n \in Wanted(e, want[w].filter)'
        PROVE  FALSE
    <3>1. Active(w, e) /\ Wanted(e, want[w].filter) = {}
      BY <1>1, <2>1, <2>2 DEF Active, WaitersAreServed
    <3>2. n \in Visible(e)' /\ Matches(want[w].filter, envelope'[n].sender, envelope'[n].replyTo)
      BY <1>1, <2>2 DEF Wanted
    <3>3. n \notin Visible(e)
      BY <1>3, <3>1, <3>2 DEF Wanted
    <3>4. n = m /\ e = d
      BY <1>t, <1>1, <2>1, <3>2, <3>3 DEF Visible, TypeOK
    <3>5. envelope'[m].sender = AddressOf[c] /\ envelope'[m].replyTo = r
      BY <1>t, <1>1 DEF TypeOK
    <3>6. w \in Takers(d, AddressOf[c], r)
      BY <3>1, <3>2, <3>4, <3>5 DEF Takers, Active
    <3> QED BY <2>1, <3>6
  <2> QED BY <2>2 DEF WaitersAreServed, Active
<1> QED BY <1>4, <1>5, <1>6 DEF Send

LEMMA ServedByRegister ==
  ASSUME Inv, WaitersAreServed, NEW v \in Wait, NEW c \in Conn, NEW f \in Filter, WaitRegister(v, c, f)
  PROVE  WaitersAreServed'
<1>1. /\ phase[v] = "idle" /\ Wanted(c, f) = {}
      /\ waiters' = [waiters EXCEPT ![c] = @ \cup {v}]
      /\ want' = [want EXCEPT ![v] = [on |-> c, filter |-> f]]
      /\ UNCHANGED <<conn, future, inbox, reserved, envelope>>
  BY DEF WaitRegister, post
<1>2. \A d \in Conn : \A filter : Wanted(d, filter)' = Wanted(d, filter)
  BY <1>1 DEF Wanted, Visible
<1>3. \A d \in Conn : Active(v, d) => FALSE
  BY <1>1 DEF Inv, WaitInv, Active
<1>4. ASSUME NEW d \in Conn, NEW w \in Wait, Active(w, d)', "defer" \notin Disposition
      PROVE  Wanted(d, want'[w].filter) = {}
  <2>1. CASE w = v
    <3>1. d = c
      BY <1>1, <1>3, <1>4, <2>1 DEF Active, Inv, TypeOK
    <3>2. want'[v].filter = f
      BY <1>1 DEF Inv, TypeOK
    <3> QED BY <1>1, <2>1, <3>1, <3>2
  <2>2. CASE w # v
    <3>1. Active(w, d) /\ want'[w] = want[w]
      BY <1>1, <1>4, <2>2 DEF Active, Inv, TypeOK
    <3> QED BY <1>4, <3>1 DEF WaitersAreServed, Active
  <2> QED BY <2>1, <2>2
<1> QED BY <1>2, <1>4 DEF WaitersAreServed, Active

LEMMA ServedByFinish ==
  ASSUME Inv, WaitersAreServed, NEW c \in Conn, NEW disposition \in Disposition, Finish(c, disposition)
  PROVE  WaitersAreServed'
<1>1. UNCHANGED <<conn, waiters, want, future, envelope>>
  BY DEF Finish, call
<1>2. CASE disposition = "acknowledge"
  <2> DEFINE m == delivering[c]
  <2>1. inbox' = [inbox EXCEPT ![c] = @ \ {m}] /\ reserved' = [reserved EXCEPT ![c] = @ \ {m}]
    BY <1>2 DEF Finish, Settles
  <2> HIDE DEF m
  <2>2. \A d \in Conn : Visible(d)' \subseteq Visible(d)
    BY <2>1 DEF Visible, Inv, TypeOK
  <2> QED BY <1>1, <2>2, ServedStays DEF Active
<1>3. CASE disposition = "cancelled"
  <2>1. \A d \in Conn : Visible(d)' = Visible(d)
    BY <1>3 DEF Finish, Settles, Visible
  <2> QED BY <1>1, <2>1, ServedStays DEF Active
<1>4. CASE disposition = "defer"
  BY <1>4 DEF WaitersAreServed
<1> QED BY <1>2, <1>3, <1>4, RelayAssumption

\* _accept_message, _take_or_register_waiter, _remove_waiter: if handlers do
\* not defer, no open mailbox holds a message that one of its active waits
\* would accept, whatever its other waits, tasks and senders do.
THEOREM WaitersGetTheirMessages == Spec => []WaitersAreServed
<1>1. Init => WaitersAreServed
  BY DEF Init, WaitersAreServed
<1>2. Inv /\ WaitersAreServed /\ [Next]_vars => WaitersAreServed'
  <2> SUFFICES ASSUME Inv, WaitersAreServed, [Next]_vars PROVE WaitersAreServed'
    OBVIOUS
  <2>1. ASSUME NEW c \in Conn, NEW h \in BOOLEAN, Connect(c, h) PROVE WaitersAreServed'
    <3>1. /\ conn[c] = "new" /\ conn' = [conn EXCEPT ![c] = "open"]
          /\ UNCHANGED <<waiters, want, future, inbox, reserved, envelope>>
      BY <2>1 DEF Connect, call, post
    <3>2. waiters[c] = {}
      BY <3>1 DEF Inv, WaitInv
    <3>3. \A d \in Conn, w \in Wait : Active(w, d)' => Active(w, d)
      BY <3>1, <3>2 DEF Active, Inv, TypeOK
    <3>4. \A d \in Conn : Visible(d)' = Visible(d)
      BY <3>1 DEF Visible
    <3> QED BY <3>1, <3>3, <3>4, ServedStays
  <2>2. ASSUME NEW c \in Conn, Close(c) PROVE WaitersAreServed'
    <3>1. UNCHANGED <<waiters, want, inbox, reserved, envelope>>
      BY <2>2 DEF Close, box, post
    <3>2. \A d \in Conn, w \in Wait : Active(w, d)' => Active(w, d)
      BY <2>2, <3>1 DEF Close, Active, Inv, TypeOK, Pending
    <3>3. \A d \in Conn : Visible(d)' = Visible(d)
      BY <3>1 DEF Visible
    <3> QED BY <3>1, <3>2, <3>3, ServedStays
  <2>3. ASSUME NEW c \in Conn, \/ \E h \in BOOLEAN : SetHandler(c, h)
                               \/ TakePending(c) \/ Prepare(c)
                               \/ \E w \in Wait, f \in Filter : WaitTake(w, c, f)
        PROVE WaitersAreServed'
    <3>1. UNCHANGED <<conn, waiters, want, future, envelope>>
      BY <2>3 DEF SetHandler, TakePending, Prepare, WaitTake, call, post
    <3>2. \A d \in Conn : inbox'[d] \subseteq inbox[d] /\ reserved[d] \subseteq reserved'[d]
      <4>1. UNCHANGED inbox \/ \E S : inbox' = [inbox EXCEPT ![c] = @ \ S]
        BY <2>3 DEF SetHandler, TakePending, Prepare, WaitTake
      <4>2. UNCHANGED reserved \/ \E S : reserved' = [reserved EXCEPT ![c] = @ \cup S]
        BY <2>3 DEF SetHandler, TakePending, Prepare, WaitTake
      <4> HIDE <2>3
      <4>3. inbox \in [Conn -> SUBSET Message] /\ reserved \in [Conn -> SUBSET Message]
        BY DEF Inv, TypeOK
      <4> QED BY <4>1, <4>2, <4>3
    <3> QED BY <3>1, <3>2, ServedStays DEF Active, Visible
  <2>4. ASSUME NEW w \in Wait, NEW kind \in {"timeout", "cancel"}, Interrupt(w, kind) PROVE WaitersAreServed'
    <3>1. UNCHANGED <<conn, waiters, want, inbox, reserved, envelope>>
      BY <2>4 DEF Interrupt, box, post
    <3>2. \A d \in Conn, v \in Wait : Active(v, d)' => Active(v, d)
      BY <2>4, <3>1 DEF Interrupt, Active, Inv, TypeOK, Pending
    <3> QED BY <3>1, <3>2, ServedStays DEF Visible
  <2>5. ASSUME NEW w \in Wait, WaitResume(w) PROVE WaitersAreServed'
    <3>1. UNCHANGED <<conn, want, future, inbox, reserved, envelope>>
      BY <2>5 DEF WaitResume
    <3>2. \A d \in Conn : waiters'[d] \subseteq waiters[d]
      BY <2>5 DEF WaitResume, RemoveWaiter, Inv, TypeOK
    <3> QED BY <3>1, <3>2, ServedStays DEF Active, Visible
  <2>6. CASE UNCHANGED vars
    BY <2>6, ServedStays DEF vars, box, call, post, Active, Visible
  <2> QED
    BY <2>1, <2>2, <2>3, <2>4, <2>5, <2>6, ServedBySend, ServedByRegister, ServedByFinish DEF Next
<1> QED
  BY <1>1, <1>2, InvIsInvariant, PTL DEF Spec

-----------------------------------------------------------------------------
(* The refinement of RelayLifecycle *)

Issued == {m \in Message : fate[m] # "unsent"}
PendingIn == [c \in Conn |-> inbox[c] \ reserved[c]]
Handed == {m \in Message : \E w \in Wait : slot[w] = m /\ phase[w] = "blocked"}
Consumed == {m \in Message : fate[m] = "consumed"}
Dropped == {m \in Message : \E w \in Wait : slot[w] = m /\ phase[w] \in {"none", "cancelled"}}

LEMMA MappedInit ==
  ASSUME Issued = {}, Handed = {}, Consumed = {}, Dropped = {},
         PendingIn = [c \in Conn |-> {}], reserved = [c \in Conn |-> {}]
  PROVE  Lifecycle!Init
BY DEF Lifecycle!Init, Issued, PendingIn, Handed, Consumed, Dropped

\* The steps of the lifecycle, in the network's terms.
LEMMA MappedRefuse ==
  ASSUME NEW m \in Message, m \notin Issued, Issued' = Issued \cup {m},
         UNCHANGED <<PendingIn, reserved, Handed, Consumed, Dropped>>
  PROVE  Lifecycle!Refuse(m)
BY DEF Lifecycle!Refuse, Lifecycle!Issue, Issued, PendingIn, Handed, Consumed, Dropped

LEMMA MappedHand ==
  ASSUME NEW m \in Message, m \notin Issued, Issued' = Issued \cup {m}, Handed' = Handed \cup {m},
         UNCHANGED <<PendingIn, reserved, Consumed, Dropped>>
  PROVE  Lifecycle!Hand(m)
BY DEF Lifecycle!Hand, Lifecycle!Issue, Issued, PendingIn, Handed, Consumed, Dropped

\* The cardinality of the other module is the same.
LEMMA SameCardinality == ASSUME NEW S PROVE Lifecycle!Cardinality(S) = Cardinality(S)
BY DEF Lifecycle!Cardinality, Cardinality

LEMMA MappedStore ==
  ASSUME NEW m \in Message, m \notin Issued, Issued' = Issued \cup {m}, NEW c \in Conn,
         Cardinality(PendingIn[c] \cup reserved[c]) < Capacity,
         PendingIn' = [PendingIn EXCEPT ![c] = @ \cup {m}],
         UNCHANGED <<reserved, Handed, Consumed, Dropped>>
  PROVE  Lifecycle!Store(m, c)
<1>1. Lifecycle!Issue(m)
  BY DEF Lifecycle!Issue, Issued
<1>2. UNCHANGED <<reserved, Handed, Consumed, Dropped>> /\ c \in DOMAIN PendingIn
  BY DEF PendingIn
<1>3. PendingIn' = [PendingIn EXCEPT ![c] = PendingIn[c] \cup {m}]
  OBVIOUS
<1> QED BY <1>1, <1>2, <1>3, SameCardinality DEF Lifecycle!Store, PendingIn, Handed, Consumed, Dropped

LEMMA MappedReturn ==
  ASSUME NEW m \in Handed, Handed' = Handed \ {m}, UNCHANGED <<Issued, PendingIn, reserved>>,
         \/ Consumed' = Consumed \cup {m} /\ UNCHANGED Dropped
         \/ Dropped' = Dropped \cup {m} /\ UNCHANGED Consumed
  PROVE  Lifecycle!Return(m)
BY DEF Lifecycle!Return, Issued, PendingIn, Handed, Consumed, Dropped

LEMMA MappedRead ==
  ASSUME NEW c \in Conn, NEW S \in SUBSET Message, S \subseteq PendingIn[c],
         PendingIn' = [PendingIn EXCEPT ![c] = @ \ S], Consumed' = Consumed \cup S,
         UNCHANGED <<Issued, reserved, Handed, Dropped>>
  PROVE  Lifecycle!Read(c, S)
BY DEF Lifecycle!Read, Issued, PendingIn, Handed, Consumed, Dropped

LEMMA MappedOwn ==
  ASSUME NEW c \in Conn, NEW m \in Message, UNCHANGED <<Issued, Handed, Consumed, Dropped>>,
         m \in PendingIn[c], PendingIn' = [PendingIn EXCEPT ![c] = @ \ {m}],
         reserved' = [reserved EXCEPT ![c] = @ \cup {m}]
  PROVE  Lifecycle!Own(m, c)
BY DEF Lifecycle!Own, Issued, PendingIn, Handed, Consumed, Dropped

LEMMA MappedRelease ==
  ASSUME NEW c \in Conn, NEW m \in Message, UNCHANGED <<Issued, Handed, Dropped>>,
         m \in reserved[c], reserved' = [reserved EXCEPT ![c] = @ \ {m}],
         \/ PendingIn' = [PendingIn EXCEPT ![c] = @ \cup {m}] /\ UNCHANGED Consumed
         \/ Consumed' = Consumed \cup {m} /\ UNCHANGED PendingIn
  PROVE  Lifecycle!Release(m, c)
BY DEF Lifecycle!Release, Issued, PendingIn, Handed, Consumed, Dropped

\* Steps that the lifecycle does not see.
LEMMA Unseen ==
  ASSUME UNCHANGED <<fate, inbox, reserved, Handed, Dropped>>
  PROVE  UNCHANGED Lifecycle!vars
BY DEF Lifecycle!vars, Handed, Dropped

LEMMA SlotsKept ==
  ASSUME UNCHANGED <<slot, phase>> PROVE UNCHANGED <<Handed, Dropped>>
BY DEF Handed, Dropped

LEMMA SendRefines ==
  ASSUME Inv, BoundInv, NEW c \in Conn, NEW a \in Address, NEW m \in Message, NEW r \in ReplyTo,
         Send(c, a, m, r)
  PROVE  Lifecycle!Next
<1>t. TypeOK /\ PlaceInv /\ OwnerInv
  BY DEF Inv
<1>1. PICK outcome \in {"refused", "failed", "accepted"} :
        fate[m] = "unsent" /\ fate' = [fate EXCEPT ![m] = outcome]
  BY DEF Send, SendToWaiter, SendToMailbox, SendRefused, Post, HandOver
<1>2. /\ m \notin Issued /\ Issued' = Issued \cup {m}
      /\ UNCHANGED Consumed
  BY <1>1, <1>t DEF Issued, Consumed, TypeOK
<1>3. UNCHANGED reserved
  BY DEF Send, SendToWaiter, SendToMailbox, SendRefused, box
<1>4. CASE SendRefused(c, a, m, r)
  <2>1. UNCHANGED <<PendingIn, Handed, Dropped>>
    BY <1>4, SlotsKept DEF SendRefused, box, call, PendingIn
  <2> QED BY <1>2, <1>3, <2>1, MappedRefuse, MappedHand, MappedStore DEF Lifecycle!Next
<1>5. CASE SendToMailbox(c, a, m, r)
  <2> DEFINE d == mailboxes[a]
  <2>1. /\ d \in Conn /\ ~Full(d) /\ inbox' = [inbox EXCEPT ![d] = @ \cup {m}]
        /\ UNCHANGED <<slot, phase>>
    BY <1>5, <1>t DEF SendToMailbox, TypeOK, call
  <2> HIDE DEF d
  <2>2. UNCHANGED <<Handed, Dropped>>
    BY <2>1, SlotsKept
  <2>3. PendingIn[d] \cup reserved[d] = inbox[d]
    BY <1>t, <2>1 DEF OwnerInv, PendingIn
  <2>4. Cardinality(PendingIn[d] \cup reserved[d]) < Capacity
    <3>1. Cardinality(inbox[d]) \in Nat
      BY <2>1, FS_CardinalityType DEF BoundInv
    <3>2. Cardinality(inbox[d]) < Capacity
      BY <2>1, <3>1, RelayAssumption DEF Full
    <3> QED BY <2>3, <3>2
  <2>5. PendingIn' = [PendingIn EXCEPT ![d] = @ \cup {m}]
    <3>1. m \notin reserved[d]
      BY <1>t, <1>1, <2>1 DEF OwnerInv, PlaceInv
    <3> QED BY <1>t, <1>3, <2>1, <3>1 DEF PendingIn, TypeOK
  <2> QED BY <1>2, <1>3, <2>1, <2>2, <2>4, <2>5, MappedRefuse, MappedHand, MappedStore DEF Lifecycle!Next
<1>6. CASE SendToWaiter(c, a, m, r)
  <2> DEFINE d == mailboxes[a]
  <2>1. d \in Conn /\ conn[d] = "open"
    BY <1>6, <1>t DEF SendToWaiter, TypeOK, Inv, RegistryInv, RegistryMatchesConnections
  <2>2. PICK w \in waiters[d] :
          \/ future[w] = Pending /\ slot' = [slot EXCEPT ![w] = m]
          \/ UNCHANGED slot
    BY <1>6, OldestIsMember DEF SendToWaiter, Takers
  <2> HIDE DEF d
  <2>3. w \in Wait /\ phase[w] = "blocked" /\ UNCHANGED <<inbox, phase>>
    BY <1>6, <1>t, <2>1, <2>2 DEF SendToWaiter, Inv, WaitInv, TypeOK
  <2>4. UNCHANGED PendingIn
    BY <1>3, <2>3 DEF PendingIn
  <2>5. CASE UNCHANGED slot
    BY <1>2, <1>3, <2>3, <2>4, <2>5, SlotsKept, MappedRefuse, MappedHand, MappedStore DEF Lifecycle!Next
  <2>6. CASE future[w] = Pending /\ slot' = [slot EXCEPT ![w] = m]
    <3>1. slot[w] = None /\ None \notin Message
      BY <2>3, <2>6, RelayAssumption DEF Inv, SlotInv, Pending
    <3>2. \A v \in Wait : slot'[v] = IF v = w THEN m ELSE slot[v]
      BY <1>t, <2>6 DEF TypeOK
    <3>3. Handed' = Handed \cup {m} /\ UNCHANGED Dropped
      BY <2>3, <3>1, <3>2 DEF Handed, Dropped
    <3> QED BY <1>2, <1>3, <2>4, <3>3, MappedRefuse, MappedHand, MappedStore DEF Lifecycle!Next
  <2> QED BY <2>2, <2>5, <2>6
<1> QED BY <1>4, <1>5, <1>6 DEF Send

LEMMA ReadRefines ==
  ASSUME Inv, NEW c \in Conn, NEW S \in SUBSET Message, S \subseteq Visible(c),
         inbox' = [inbox EXCEPT ![c] = @ \ S],
         \A m \in Message : fate'[m] = IF m \in S THEN "consumed" ELSE fate[m],
         UNCHANGED <<reserved, Handed, Dropped>>
  PROVE  Lifecycle!Next
<1>1. S \subseteq PendingIn[c] /\ PendingIn' = [PendingIn EXCEPT ![c] = @ \ S]
  BY DEF Visible, PendingIn, Inv, TypeOK
<1>2. \A m \in S : fate[m] = "accepted"
  BY DEF Visible, Inv, PlaceInv
<1>3. UNCHANGED Issued /\ Consumed' = Consumed \cup S
  BY <1>2 DEF Issued, Consumed
<1> QED BY <1>1, <1>3, MappedRead DEF Lifecycle!Next

LEMMA ResumeRefines ==
  ASSUME Inv, NEW w \in Wait, WaitResume(w)
  PROVE  [Lifecycle!Next]_(Lifecycle!vars)
<1>t. TypeOK /\ PlaceInv /\ SlotInv
  BY DEF Inv
<1>1. /\ phase[w] = "blocked" /\ future[w] # Pending /\ UNCHANGED <<inbox, reserved, slot>>
      /\ \A v \in Wait : phase'[v] = IF v = w THEN Returned(w) ELSE phase[v]
  BY <1>t DEF WaitResume, TypeOK
<1>2. UNCHANGED PendingIn
  BY <1>1 DEF PendingIn
<1>3. CASE slot[w] = None
  <2>1. Returned(w) # "message"
    BY <1>t, <1>3 DEF Returned, SlotInv
  <2>2. UNCHANGED fate
    BY <2>1 DEF WaitResume
  <2>3. UNCHANGED <<Handed, Dropped>>
    BY <1>1, <1>3, RelayAssumption DEF Handed, Dropped
  <2> QED BY <1>1, <2>2, <2>3, Unseen
<1>4. CASE slot[w] # None
  <2> DEFINE m == slot[w]
  <2>1. m \in Message /\ future[w] = "result"
    BY <1>t, <1>4 DEF TypeOK, SlotInv
  <2>2. fate[m] = "accepted" /\ \A v \in Wait : v # w /\ slot[v] = m => phase[v] = "message"
    BY <1>t, <1>1, <2>1 DEF PlaceInv, Holds
  <2> HIDE DEF m
  <2>3. m \in Handed
    BY <1>1, <2>1 DEF Handed, m
  <2>4. Returned(w) \in {"none", "cancelled", "message"}
    BY <1>t, <2>1 DEF Returned, TypeOK
  <2>5. Handed' = Handed \ {m}
    BY <1>1, <2>2, <2>4 DEF Handed, m
  <2>6. CASE Returned(w) = "message"
    <3>1. fate' = [fate EXCEPT ![m] = "consumed"]
      BY <2>6 DEF WaitResume, m
    <3>2. UNCHANGED Issued /\ Consumed' = Consumed \cup {m}
      BY <1>t, <2>1, <2>2, <3>1 DEF Issued, Consumed, TypeOK
    <3>3. UNCHANGED Dropped
      BY <1>1, <2>6 DEF Dropped
    <3> QED BY <1>1, <1>2, <2>1, <2>3, <2>5, <3>2, <3>3, MappedReturn DEF Lifecycle!Next
  <2>7. CASE Returned(w) # "message"
    <3>1. UNCHANGED fate
      BY <2>7 DEF WaitResume
    <3>2. UNCHANGED <<Issued, Consumed>>
      BY <3>1 DEF Issued, Consumed
    <3>3. Dropped' = Dropped \cup {m}
      BY <1>1, <2>1, <2>4, <2>7 DEF Dropped, m
    <3> QED BY <1>1, <1>2, <2>1, <2>3, <2>5, <3>2, <3>3, MappedReturn DEF Lifecycle!Next
  <2> QED BY <2>6, <2>7
<1> QED BY <1>3, <1>4

LEMMA PrepareRefines ==
  ASSUME Inv, NEW c \in Conn, Prepare(c)
  PROVE  [Lifecycle!Next]_(Lifecycle!vars)
<1>t. TypeOK /\ OwnerInv
  BY DEF Inv
<1> DEFINE m == Head(tasks[c])
<1>1. m \in Message /\ m \in Queued(c)
  BY <1>t, TailOfQueue DEF Prepare, TypeOK, OwnerInv, Queued
<1>2. m \notin reserved[c] /\ UNCHANGED <<inbox, fate, slot, phase>>
  BY <1>t, <1>1 DEF Prepare, OwnerInv, post, call
<1>3. UNCHANGED <<Issued, Handed, Consumed, Dropped>>
  BY <1>2, SlotsKept DEF Issued, Consumed
<1>4. CASE Deliverable(c, m)
  <2>1. m \in inbox[c] /\ reserved' = [reserved EXCEPT ![c] = @ \cup {m}]
    BY <1>4 DEF Prepare, Deliverable
  <2> HIDE DEF m
  <2>2. m \in PendingIn[c] /\ PendingIn' = [PendingIn EXCEPT ![c] = @ \ {m}]
    BY <1>t, <1>2, <2>1 DEF PendingIn, TypeOK
  <2> QED BY <1>1, <1>3, <2>1, <2>2, MappedOwn DEF Lifecycle!Next
<1>5. CASE ~Deliverable(c, m)
  <2>1. UNCHANGED reserved
    BY <1>5 DEF Prepare
  <2> QED BY <1>2, <1>3, <2>1, Unseen
<1> QED BY <1>4, <1>5

LEMMA FinishRefines ==
  ASSUME Inv, NEW c \in Conn, NEW disposition \in Disposition, Finish(c, disposition)
  PROVE  [Lifecycle!Next]_(Lifecycle!vars)
<1>t. TypeOK /\ OwnerInv /\ PlaceInv
  BY DEF Inv
<1> DEFINE m == delivering[c]
<1>1. m \in Message /\ m \in reserved[c] /\ m \in inbox[c] /\ fate[m] = "accepted"
  BY <1>t DEF Finish, TypeOK, OwnerInv, PlaceInv
<1>2. UNCHANGED <<slot, phase>>
  BY DEF Finish, call
<1>3. UNCHANGED <<Handed, Dropped>>
  BY <1>2, SlotsKept
<1>4. CASE disposition = "acknowledge"
  <2>1. /\ reserved' = [reserved EXCEPT ![c] = @ \ {m}]
        /\ inbox' = [inbox EXCEPT ![c] = @ \ {m}]
        /\ fate' = [fate EXCEPT ![m] = "consumed"]
    BY <1>4 DEF Finish, Settles
  <2> HIDE DEF m
  <2>2. UNCHANGED Issued /\ Consumed' = Consumed \cup {m}
    BY <1>t, <1>1, <2>1 DEF Issued, Consumed, TypeOK
  <2>3. UNCHANGED PendingIn
    BY <1>t, <1>1, <2>1 DEF PendingIn, TypeOK
  <2> QED BY <1>1, <1>3, <2>1, <2>2, <2>3, MappedRelease DEF Lifecycle!Next
<1>5. CASE disposition = "defer"
  <2>1. reserved' = [reserved EXCEPT ![c] = @ \ {m}] /\ UNCHANGED <<inbox, fate>>
    BY <1>5 DEF Finish, Settles
  <2> HIDE DEF m
  <2>2. UNCHANGED <<Issued, Consumed>>
    BY <2>1 DEF Issued, Consumed
  <2>3. PendingIn' = [PendingIn EXCEPT ![c] = @ \cup {m}]
    BY <1>t, <1>1, <2>1 DEF PendingIn, TypeOK
  <2> QED BY <1>1, <1>3, <2>1, <2>2, <2>3, MappedRelease DEF Lifecycle!Next
<1>6. CASE disposition = "cancelled"
  <2>1. UNCHANGED <<reserved, inbox, fate>>
    BY <1>6 DEF Finish, Settles
  <2> QED BY <1>3, <2>1, Unseen
<1> QED BY <1>4, <1>5, <1>6, RelayAssumption

\* _accept_message, _take_matching_message, _pending, _prepare_delivery,
\* _finish_delivery: whatever the futures, the delivery tasks and the registry
\* do, a message lives as RelayLifecycle says: stored within the capacity or
\* handed to one caller, owned by one handler at a time, consumed once, and
\* dropped only with the interrupted caller it was handed to.
THEOREM NetworkImplementsLifecycle == Spec => LifecycleSpec
<1>1. Init => Lifecycle!Init
  BY MappedInit, RelayAssumption DEF Init, Issued, PendingIn, Handed, Consumed, Dropped
<1>2. Inv /\ BoundInv /\ [Next]_vars => [Lifecycle!Next]_(Lifecycle!vars)
  <2> SUFFICES ASSUME Inv, BoundInv, [Next]_vars PROVE [Lifecycle!Next]_(Lifecycle!vars)
    OBVIOUS
  <2>0. CASE UNCHANGED <<fate, inbox, reserved, slot, phase>>
    BY <2>0, SlotsKept, Unseen
  <2>1. ASSUME NEW w \in Wait, NEW c \in Conn, NEW f \in Filter, WaitTake(w, c, f)
        PROVE  Lifecycle!Next
    <3>1. PICK m \in Wanted(c, f) :
            inbox' = [inbox EXCEPT ![c] = @ \ {m}] /\ fate' = [fate EXCEPT ![m] = "consumed"]
      BY <2>1, OldestIsMember DEF WaitTake
    <3>2. m \in Message /\ {m} \subseteq Visible(c)
      BY DEF Wanted, Visible, Inv, TypeOK
    <3>3. \A n \in Message : fate'[n] = IF n \in {m} THEN "consumed" ELSE fate[n]
      BY <3>1 DEF Inv, TypeOK
    <3>4. UNCHANGED <<reserved, Handed, Dropped>>
      <4>1. phase[w] = "idle" /\ phase' = [phase EXCEPT ![w] = "message"] /\ UNCHANGED <<slot, reserved>>
        BY <2>1 DEF WaitTake
      <4> QED BY <4>1 DEF Handed, Dropped, Inv, TypeOK
    <3> QED BY <3>1, <3>2, <3>3, <3>4, ReadRefines
  <2>2. ASSUME NEW c \in Conn, TakePending(c) PROVE Lifecycle!Next
    <3>1. Visible(c) \in SUBSET Message
      BY DEF Visible, Inv, TypeOK
    <3>2. UNCHANGED <<reserved, Handed, Dropped>>
      BY <2>2, SlotsKept DEF TakePending, call
    <3> QED BY <2>2, <3>1, <3>2, ReadRefines DEF TakePending
  <2>3. ASSUME NEW w \in Wait, NEW c \in Conn, NEW f \in Filter, WaitRegister(w, c, f)
        PROVE  [Lifecycle!Next]_(Lifecycle!vars)
    <3>1. slot[w] = None /\ None \notin Message
      BY <2>3, RelayAssumption DEF WaitRegister, Inv, WaitInv, SlotInv, Pending
    <3>2. UNCHANGED <<slot, fate, inbox, reserved>> /\ phase[w] = "idle"
          /\ \A v \in Wait : v # w => phase'[v] = phase[v]
      BY <2>3 DEF WaitRegister, post, Inv, TypeOK
    <3>3. UNCHANGED <<Handed, Dropped>>
      BY <3>1, <3>2 DEF Handed, Dropped
    <3> QED BY <3>2, <3>3, Unseen
  <2>4. ASSUME NEW c \in Conn, NEW h \in BOOLEAN, Connect(c, h) \/ SetHandler(c, h) \/ Close(c)
        PROVE  UNCHANGED <<fate, inbox, reserved, slot, phase>>
    BY <2>4 DEF Connect, SetHandler, Close, box, call, post
  <2>5. ASSUME NEW w \in Wait, NEW kind \in {"timeout", "cancel"}, Interrupt(w, kind)
        PROVE  UNCHANGED <<fate, inbox, reserved, slot, phase>>
    BY <2>5 DEF Interrupt, box, post
  <2>6. CASE UNCHANGED vars
    BY <2>0, <2>6 DEF vars, box, call, post
  <2> QED
    BY <2>0, <2>1, <2>2, <2>3, <2>4, <2>5, <2>6, SendRefines, ResumeRefines, PrepareRefines, FinishRefines DEF Next
<1>3. Init => BoundInv
  BY FS_EmptySet, RelayAssumption DEF Init, BoundInv
<1>4. Inv /\ BoundInv /\ [Next]_vars => BoundInv'
  BY BoundStep DEF Inv
<1> QED
  BY <1>1, <1>2, <1>3, <1>4, InvIsInvariant, PTL DEF Spec, LifecycleSpec, Lifecycle!Spec
=============================================================================
