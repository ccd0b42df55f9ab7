---------------------------- MODULE RelayProofs ----------------------------
(***************************************************************************)
(* Machine-checked proofs about the relay network, for any addresses,      *)
(* connections, messages, waits, filters and capacity.                     *)
(***************************************************************************)
EXTENDS Relay, TLAPS

LEMMA OldestIsMember ==
  ASSUME NEW order, NEW S, NEW x \in Oldest(order, S)
  PROVE  x \in S
BY DEF Oldest

LEMMA InOrderIsSequence ==
  ASSUME NEW order \in Seq(Message), NEW S \in SUBSET Message,
         NEW q \in InOrder(order, S)
  PROVE  /\ q \in Seq(Message)
         /\ {q[i] : i \in DOMAIN q} = S
         /\ \A i, j \in DOMAIN q : q[i] = q[j] => i = j
<1>1. PICK n \in 0..Len(order) : q \in [1..n -> S]
  BY DEF InOrder
<1>2. n \in Nat
  OBVIOUS
<1>3. q \in Seq(Message)
  BY <1>1, <1>2
<1>4. {q[i] : i \in DOMAIN q} = S
  BY <1>1 DEF InOrder
<1>5. DOMAIN q = 1..n /\ \A i, j \in DOMAIN q : i < j => q[i] # q[j]
  BY <1>1 DEF InOrder
<1>6. \A i, j \in DOMAIN q : q[i] = q[j] => i = j
  BY <1>2, <1>5
<1> QED
  BY <1>3, <1>4, <1>6

\* Taking the first task off the queue.
LEMMA TailOfQueue ==
  ASSUME NEW q \in Seq(Message), q # <<>>,
         \A i, j \in DOMAIN q : q[i] = q[j] => i = j
  PROVE  /\ Head(q) \in {q[i] : i \in DOMAIN q}
         /\ {Tail(q)[i] : i \in DOMAIN Tail(q)} = {q[i] : i \in DOMAIN q} \ {Head(q)}
         /\ \A i, j \in DOMAIN Tail(q) : Tail(q)[i] = Tail(q)[j] => i = j
<1>1. /\ Len(q) \in Nat \ {0} /\ DOMAIN q = 1..Len(q) /\ Head(q) = q[1]
      /\ DOMAIN Tail(q) = 1..(Len(q) - 1)
      /\ \A i \in 1..(Len(q) - 1) : Tail(q)[i] = q[i + 1]
  OBVIOUS
<1>2. \A i \in DOMAIN q : i # 1 => (i - 1) \in DOMAIN Tail(q) /\ Tail(q)[i - 1] = q[i]
  BY <1>1
<1>3. \A i \in DOMAIN Tail(q) : (i + 1) \in DOMAIN q /\ i + 1 # 1 /\ Tail(q)[i] = q[i + 1]
  BY <1>1
<1>4. 1 \in DOMAIN q
  BY <1>1
<1>5. {Tail(q)[i] : i \in DOMAIN Tail(q)} = {q[i] : i \in DOMAIN q} \ {Head(q)}
  <2>1. ASSUME NEW i \in DOMAIN Tail(q)
        PROVE  Tail(q)[i] \in {q[k] : k \in DOMAIN q} \ {Head(q)}
    <3>1. q[i + 1] # q[1]
      BY <1>3, <1>4
    <3> QED
      BY <1>1, <1>3, <3>1
  <2>2. ASSUME NEW i \in DOMAIN q, q[i] # Head(q)
        PROVE  q[i] \in {Tail(q)[k] : k \in DOMAIN Tail(q)}
    <3>1. i # 1
      BY <1>1, <2>2
    <3>2. (i - 1) \in DOMAIN Tail(q) /\ Tail(q)[i - 1] = q[i]
      BY <1>2, <3>1
    <3> QED
      BY <3>2
  <2> QED
    BY <2>1, <2>2
<1>6. \A i, j \in DOMAIN Tail(q) : Tail(q)[i] = Tail(q)[j] => i = j
  BY <1>1, <1>3
<1> QED
  BY <1>1, <1>4, <1>5, <1>6

\* Queueing more tasks.
LEMMA ConcatOfQueues ==
  ASSUME NEW p \in Seq(Message), NEW q \in Seq(Message)
  PROVE  /\ {(p \o q)[i] : i \in DOMAIN (p \o q)}
              = {p[i] : i \in DOMAIN p} \cup {q[i] : i \in DOMAIN q}
         /\ (/\ \A i, j \in DOMAIN p : p[i] = p[j] => i = j
             /\ \A i, j \in DOMAIN q : q[i] = q[j] => i = j
             /\ {p[i] : i \in DOMAIN p} \cap {q[i] : i \in DOMAIN q} = {})
            => \A i, j \in DOMAIN (p \o q) : (p \o q)[i] = (p \o q)[j] => i = j
<1>1. /\ Len(p) \in Nat /\ Len(q) \in Nat
      /\ DOMAIN p = 1..Len(p) /\ DOMAIN q = 1..Len(q)
      /\ DOMAIN (p \o q) = 1..(Len(p) + Len(q))
      /\ \A i \in 1..(Len(p) + Len(q)) :
           (p \o q)[i] = IF i <= Len(p) THEN p[i] ELSE q[i - Len(p)]
  OBVIOUS
<1>2. \A i \in DOMAIN p : i \in DOMAIN (p \o q) /\ (p \o q)[i] = p[i]
  BY <1>1
<1>3. \A i \in DOMAIN q : (i + Len(p)) \in DOMAIN (p \o q) /\ (p \o q)[i + Len(p)] = q[i]
  BY <1>1
<1>4. \A i \in DOMAIN (p \o q) :
        \/ i \in DOMAIN p /\ (p \o q)[i] = p[i]
        \/ (i - Len(p)) \in DOMAIN q /\ (p \o q)[i] = q[i - Len(p)]
  BY <1>1
<1>5. {(p \o q)[i] : i \in DOMAIN (p \o q)}
        = {p[i] : i \in DOMAIN p} \cup {q[i] : i \in DOMAIN q}
  <2>1. ASSUME NEW i \in DOMAIN (p \o q)
        PROVE  (p \o q)[i] \in {p[k] : k \in DOMAIN p} \cup {q[k] : k \in DOMAIN q}
    <3>1. CASE i \in DOMAIN p /\ (p \o q)[i] = p[i]
      BY <3>1
    <3>2. CASE (i - Len(p)) \in DOMAIN q /\ (p \o q)[i] = q[i - Len(p)]
      BY <3>2
    <3> QED
      BY <1>4, <3>1, <3>2
  <2>2. ASSUME NEW i \in DOMAIN p
        PROVE  p[i] \in {(p \o q)[k] : k \in DOMAIN (p \o q)}
    <3>1. i \in DOMAIN (p \o q) /\ (p \o q)[i] = p[i]
      BY <1>2
    <3> QED
      BY <3>1
  <2>3. ASSUME NEW i \in DOMAIN q
        PROVE  q[i] \in {(p \o q)[k] : k \in DOMAIN (p \o q)}
    <3>1. (i + Len(p)) \in DOMAIN (p \o q) /\ (p \o q)[i + Len(p)] = q[i]
      BY <1>3
    <3> QED
      BY <3>1
  <2> QED
    BY <2>1, <2>2, <2>3
<1>6. ASSUME \A i, j \in DOMAIN p : p[i] = p[j] => i = j,
             \A i, j \in DOMAIN q : q[i] = q[j] => i = j,
             {p[i] : i \in DOMAIN p} \cap {q[i] : i \in DOMAIN q} = {},
             NEW i \in DOMAIN (p \o q), NEW j \in DOMAIN (p \o q),
             (p \o q)[i] = (p \o q)[j]
      PROVE  i = j
  <2>1. \A k \in DOMAIN p, l \in DOMAIN q : p[k] # q[l]
    BY <1>6
  <2> QED
    BY <1>1, <1>4, <1>6, <2>1
<1> QED
  BY <1>5, <1>6

LEMMA TypeStep == TypeOK /\ [Next]_vars => TypeOK'
<1>2. TypeOK /\ [Next]_vars => TypeOK'
  <2> SUFFICES ASSUME TypeOK, [Next]_vars
               PROVE  TypeOK'
    OBVIOUS
  <2>1. ASSUME NEW c \in Conn, NEW h \in BOOLEAN, Connect(c, h)
        PROVE  TypeOK'
    BY <2>1 DEF Connect, TypeOK, call, post
  <2>2. ASSUME NEW c \in Conn, NEW h \in BOOLEAN, SetHandler(c, h)
        PROVE  TypeOK'
    <3>1. tasks' \in [Conn -> Seq(Message)] /\ scheduled' \in [Conn -> SUBSET Message]
      <4>1. CASE h
        <5>1. PICK q \in InOrder(accepted, Unscheduled(c)) : Schedule(c, q)
          BY <2>2, <4>1 DEF SetHandler
        <5>2. q \in Seq(Message) /\ {q[i] : i \in DOMAIN q} = Unscheduled(c)
          <6>1. accepted \in Seq(Message) /\ Unscheduled(c) \in SUBSET Message
            BY DEF TypeOK, Unscheduled
          <6> QED
            BY <5>1, <6>1, InOrderIsSequence
        <5>3. tasks[c] \o q \in Seq(Message)
          BY <5>2 DEF TypeOK
        <5> QED
          BY <5>1, <5>2, <5>3 DEF Schedule, TypeOK, Unscheduled
      <4>2. CASE ~h
        BY <2>2, <4>2 DEF SetHandler, TypeOK
      <4> QED
        BY <4>1, <4>2
    <3> QED
      BY <2>2, <3>1 DEF SetHandler, TypeOK, call, post
  <2>3. ASSUME NEW c \in Conn, Close(c)
        PROVE  TypeOK'
    BY <2>3 DEF Close, TypeOK, box, post
  <2>4. ASSUME NEW c \in Conn, TakePending(c)
        PROVE  TypeOK'
    BY <2>4 DEF TakePending, TypeOK, call
  <2>5. ASSUME NEW c \in Conn, Prepare(c)
        PROVE  TypeOK'
    <3>1. Head(tasks[c]) \in Message /\ Tail(tasks[c]) \in Seq(Message)
      <4>1. tasks[c] \in Seq(Message) /\ tasks[c] # <<>>
        BY <2>5 DEF Prepare, TypeOK
      <4> QED
        BY <4>1
    <3>2. tasks' \in [Conn -> Seq(Message)]
      <4>1. tasks' = [tasks EXCEPT ![c] = Tail(@)]
        BY <2>5 DEF Prepare
      <4> QED
        BY <3>1, <4>1 DEF TypeOK
    <3>4. reserved' \in [Conn -> SUBSET Message]
      <4>1. PICK m \in Message : \/ reserved' = reserved
                                \/ reserved' = [reserved EXCEPT ![c] = @ \cup {m}]
        BY <2>5, <3>1 DEF Prepare
      <4>2. CASE reserved' = reserved
        BY <4>2 DEF TypeOK
      <4>3. CASE reserved' = [reserved EXCEPT ![c] = @ \cup {m}]
        BY <4>3 DEF TypeOK
      <4> QED
        BY <4>1, <4>2, <4>3
    <3>5. scheduled' \in [Conn -> SUBSET Message]
      <4>1. PICK m \in Message : \/ scheduled' = scheduled
                                \/ scheduled' = [scheduled EXCEPT ![c] = @ \ {m}]
        BY <2>5, <3>1 DEF Prepare
      <4> QED
        BY <4>1 DEF TypeOK
    <3>6. delivering' \in [Conn -> Message \cup {None}]
      <4>1. \/ delivering' = delivering
            \/ delivering' = [delivering EXCEPT ![c] = Head(tasks[c])]
        BY <2>5 DEF Prepare
      <4> QED
        BY <3>1, <4>1 DEF TypeOK
    <3>3. UNCHANGED <<conn, mailboxes, inbox, waiters, handler, call, post, registered>>
      BY <2>5 DEF Prepare
    <3> QED
      BY <3>2, <3>3, <3>4, <3>5, <3>6 DEF TypeOK, call, post
  <2>6. ASSUME NEW c \in Conn, NEW disposition \in Disposition, Finish(c, disposition)
        PROVE  TypeOK'
    <3>1. delivering[c] \in Message
      BY <2>6 DEF Finish, TypeOK
    <3>2. inbox' \in [Conn -> SUBSET Message]
      <4>1. inbox' = inbox \/ inbox' = [inbox EXCEPT ![c] = @ \ {delivering[c]}]
        BY <2>6 DEF Finish
      <4> QED
        BY <4>1 DEF TypeOK
    <3>6. reserved' \in [Conn -> SUBSET Message]
      <4>1. reserved' = reserved \/ reserved' = [reserved EXCEPT ![c] = @ \ {delivering[c]}]
        BY <2>6 DEF Finish
      <4> QED
        BY <4>1 DEF TypeOK
    <3>7. scheduled' \in [Conn -> SUBSET Message]
      <4>1. scheduled' = scheduled \/ scheduled' = [scheduled EXCEPT ![c] = @ \ {delivering[c]}]
        BY <2>6 DEF Finish
      <4> QED
        BY <4>1 DEF TypeOK
    <3>3. delivering' \in [Conn -> Message \cup {None}]
      BY <2>6 DEF Finish, TypeOK
    <3>4. fate' \in [Message -> {"unsent", "refused", "failed", "accepted", "consumed"}]
      <4>1. CASE disposition = "acknowledge"
        <5>1. fate' = [fate EXCEPT ![delivering[c]] = "consumed"]
          BY <2>6, <4>1 DEF Finish
        <5> QED
          BY <3>1, <5>1 DEF TypeOK
      <4>2. CASE disposition # "acknowledge"
        BY <2>6, <4>2 DEF Finish, TypeOK
      <4> QED
        BY <4>1, <4>2
    <3>5. UNCHANGED <<conn, mailboxes, waiters, handler, tasks, call, envelope,
                      accepted, registered>>
      BY <2>6 DEF Finish
    <3> QED
      BY <3>2, <3>3, <3>4, <3>5, <3>6, <3>7 DEF TypeOK, call
  <2>7. ASSUME NEW c \in Conn, NEW a \in Address, NEW m \in Message, NEW r \in ReplyTo,
               Send(c, a, m, r)
        PROVE  TypeOK'
    <3>1. ASSUME NEW outcome \in {"refused", "failed", "accepted"}, Post(m, c, r, outcome)
          PROVE  /\ envelope' \in [Message -> Envelopes \cup {None}]
                 /\ fate' \in [Message -> {"unsent", "refused", "failed", "accepted", "consumed"}]
                 /\ accepted' \in Seq(Message)
      <4>1. AddressOf[c] \in Address
        BY RelayAssumption
      <4>2. envelope' \in [Message -> Envelopes \cup {None}]
        <5>1. [sender |-> AddressOf[c], replyTo |-> r] \in Envelopes
          BY <4>1 DEF Envelopes
        <5>2. envelope' = [envelope EXCEPT ![m] = [sender |-> AddressOf[c], replyTo |-> r]]
          BY <3>1 DEF Post
        <5> QED
          BY <5>1, <5>2 DEF TypeOK
      <4>3. fate' \in [Message -> {"unsent", "refused", "failed", "accepted", "consumed"}]
        BY <3>1 DEF Post, TypeOK
      <4>4. accepted' \in Seq(Message)
        BY <3>1 DEF Post, TypeOK
      <4> QED
        BY <4>2, <4>3, <4>4
    <3>2. CASE SendToWaiter(c, a, m, r)
      <4>1. PICK w \in Takers(mailboxes[a], AddressOf[c], r) :
              /\ waiters' = [waiters EXCEPT ![mailboxes[a]] = @ \ {w}]
              /\ Post(m, c, r, HandOver(w))
              /\ \/ future' = [future EXCEPT ![w] = "result"] /\ slot' = [slot EXCEPT ![w] = m]
                 \/ UNCHANGED <<future, slot>>
        BY <3>2, OldestIsMember DEF SendToWaiter
      <4>2. HandOver(w) \in {"refused", "failed", "accepted"}
        BY DEF HandOver
      <4>3. waiters' \in [Conn -> SUBSET Wait]
        BY <4>1 DEF TypeOK
      <4>5. future' \in [Wait -> {Pending, "result", "exception", "cancelled"}]
        BY <4>1 DEF TypeOK
      <4>6. slot' \in [Wait -> Message \cup {None}]
        BY <4>1 DEF TypeOK
      <4>4. UNCHANGED <<conn, mailboxes, inbox, reserved, scheduled, handler, tasks,
                        delivering, phase, want, interrupt, registered>>
        BY <3>2 DEF SendToWaiter
      <4> QED
        BY <3>1, <4>1, <4>2, <4>3, <4>4, <4>5, <4>6 DEF TypeOK
    <3>3. CASE SendToMailbox(c, a, m, r)
      <4>1. Post(m, c, r, "accepted")
        BY <3>3 DEF SendToMailbox
      <4>2. tasks' \in [Conn -> Seq(Message)] /\ scheduled' \in [Conn -> SUBSET Message]
        <5>1. tasks[mailboxes[a]] \in Seq(Message) => tasks[mailboxes[a]] \o <<m>> \in Seq(Message)
          OBVIOUS
        <5>2. {<<m>>[i] : i \in DOMAIN <<m>>} = {m}
          OBVIOUS
        <5>3. \/ UNCHANGED <<tasks, scheduled>>
              \/ /\ tasks' = [tasks EXCEPT ![mailboxes[a]] = @ \o <<m>>]
                 /\ scheduled' = [scheduled EXCEPT ![mailboxes[a]] = @ \cup {m}]
          BY <3>3, <5>2 DEF SendToMailbox, Schedule
        <5>4. tasks' \in [Conn -> Seq(Message)]
          <6>1. CASE tasks' = tasks
            BY <6>1 DEF TypeOK
          <6>2. CASE tasks' = [tasks EXCEPT ![mailboxes[a]] = @ \o <<m>>]
            <7>1. mailboxes[a] \in Conn => tasks[mailboxes[a]] \in Seq(Message)
              BY DEF TypeOK
            <7> QED
              BY <5>1, <6>2, <7>1 DEF TypeOK
          <6> QED
            BY <5>3, <6>1, <6>2
        <5>5. scheduled' \in [Conn -> SUBSET Message]
          <6>1. CASE scheduled' = scheduled
            BY <6>1 DEF TypeOK
          <6>2. CASE scheduled' = [scheduled EXCEPT ![mailboxes[a]] = @ \cup {m}]
            BY <6>2 DEF TypeOK
          <6> QED
            BY <5>3, <6>1, <6>2
        <5> QED
          BY <5>4, <5>5
      <4>3. inbox' \in [Conn -> SUBSET Message]
        BY <3>3 DEF SendToMailbox, TypeOK
      <4>4. UNCHANGED <<conn, mailboxes, waiters, reserved, handler, delivering,
                        call, registered>>
        BY <3>3 DEF SendToMailbox
      <4> QED
        BY <3>1, <4>1, <4>2, <4>3, <4>4 DEF TypeOK, call
    <3>4. CASE SendRefused(c, a, m, r)
      BY <3>1, <3>4 DEF SendRefused, TypeOK, box, call
    <3> QED
      BY <2>7, <3>2, <3>3, <3>4 DEF Send
  <2>8. ASSUME NEW w \in Wait, NEW c \in Conn, NEW f \in Filter, WaitTake(w, c, f)
        PROVE  TypeOK'
    <3>1. PICK m \in Wanted(c, f) :
            /\ inbox' = [inbox EXCEPT ![c] = @ \ {m}]
            /\ fate' = [fate EXCEPT ![m] = "consumed"]
      BY <2>8, OldestIsMember DEF WaitTake
    <3>2. phase' \in [Wait -> {"idle", "blocked", "message", "none", "cancelled", "unavailable"}]
      BY <2>8 DEF WaitTake, TypeOK
    <3> QED
      BY <2>8, <3>1, <3>2 DEF WaitTake, TypeOK
  <2>9. ASSUME NEW w \in Wait, NEW c \in Conn, NEW f \in Filter, WaitRegister(w, c, f)
        PROVE  TypeOK'
    BY <2>9 DEF WaitRegister, TypeOK, post, Calls
  <2>10. ASSUME NEW w \in Wait, NEW kind \in {"timeout", "cancel"}, Interrupt(w, kind)
         PROVE  TypeOK'
    BY <2>10 DEF Interrupt, TypeOK, box, post
  <2>11. ASSUME NEW w \in Wait, WaitResume(w)
         PROVE  TypeOK'
    BY <2>11 DEF WaitResume, TypeOK, Returned, RemoveWaiter
  <2>12. CASE UNCHANGED vars
    BY <2>12 DEF vars, box, call, post, TypeOK
  <2> QED
    BY <2>1, <2>2, <2>3, <2>4, <2>5, <2>6, <2>7, <2>8, <2>9, <2>10, <2>11, <2>12 DEF Next
<1> QED
  BY <1>2

-----------------------------------------------------------------------------
(* The inductive invariant *)

\* The registry holds a connection under its own address, exactly while it is
\* open.
RegistryInv ==
  /\ RegistryMatchesConnections
  /\ \A a \in Address : mailboxes[a] # None => AddressOf[mailboxes[a]] = a

\* WaitersAreTheBlockedCalls call by call, and where the other calls are.
WaitInv ==
  /\ \A c \in Conn : conn[c] = "open" => \A w \in waiters[c] :
       phase[w] = "blocked" /\ want[w].on = c /\ future[w] \in {Pending, "cancelled"}
  /\ \A c \in Conn : conn[c] = "open" => \A w \in Wait :
       phase[w] = "blocked" /\ want[w].on = c /\ future[w] = Pending => w \in waiters[c]
  /\ \A w \in Wait : phase[w] = "idle" => future[w] = Pending
  /\ \A w \in Wait : phase[w] = "blocked" =>
       want[w] \in Calls /\ conn[want[w].on] # "new"
  /\ \A c \in Conn : conn[c] = "new" => waiters[c] = {}

\* A future has a message exactly when it has a result.
SlotInv == \A w \in Wait : slot[w] # None <=> future[w] = "result"

\* MessageInOnePlace, one fact per conjunct.
PlaceInv ==
  /\ \A m \in Message, c \in Conn : m \in inbox[c] => fate[m] = "accepted"
  /\ \A m \in Message, c, d \in Conn : m \in inbox[c] /\ m \in inbox[d] => c = d
  /\ \A m \in Message, w \in Wait : Holds(w, m) =>
       fate[m] = "accepted" /\ \A c \in Conn : m \notin inbox[c]
  /\ \A m \in Message, v, w \in Wait : Holds(v, m) /\ Holds(w, m) => v = w
  /\ \A m \in Message : fate[m] = "accepted" =>
       (\E c \in Conn : m \in inbox[c]) \/ (\E w \in Wait : Holds(w, m))

Queued(c) == {tasks[c][i] : i \in DOMAIN tasks[c]}

\* A running handler owns its message, and no queued task is for a message
\* that a handler has reserved.
OwnerInv ==
  \A c \in Conn :
    /\ delivering[c] # None => delivering[c] \in reserved[c]
    /\ reserved[c] \subseteq inbox[c] \cap scheduled[c]
    /\ reserved[c] \cap Queued(c) = {}
    /\ Queued(c) \subseteq scheduled[c]
    /\ \A m \in scheduled[c] : fate[m] # "unsent"
    /\ \A i, j \in DOMAIN tasks[c] : tasks[c][i] = tasks[c][j] => i = j

Inv == TypeOK /\ RegistryInv /\ WaitInv /\ SlotInv /\ PlaceInv /\ OwnerInv

LEMMA RegistryStep ==
  ASSUME TypeOK, RegistryInv, [Next]_vars
  PROVE  RegistryInv'
<1>1. CASE UNCHANGED <<conn, mailboxes>>
  BY <1>1 DEF RegistryInv, RegistryMatchesConnections
<1>2. ASSUME NEW c \in Conn, NEW h \in BOOLEAN, Connect(c, h)
      PROVE  RegistryInv'
  <2>1. /\ conn[c] = "new" /\ mailboxes[AddressOf[c]] = None
        /\ conn' = [conn EXCEPT ![c] = "open"]
        /\ mailboxes' = [mailboxes EXCEPT ![AddressOf[c]] = c]
    BY <1>2 DEF Connect, AddressInUse
  <2>2. /\ conn \in [Conn -> {"new", "open", "closed"}]
        /\ mailboxes \in [Address -> Conn \cup {None}]
        /\ AddressOf \in [Conn -> Address] /\ None \notin Conn
    BY RelayAssumption DEF TypeOK
  <2> QED
    BY <2>1, <2>2 DEF RegistryInv, RegistryMatchesConnections
<1>3. ASSUME NEW c \in Conn, Close(c)
      PROVE  RegistryInv'
  <2>1. /\ conn[c] = "open"
        /\ conn' = [conn EXCEPT ![c] = "closed"]
        /\ mailboxes' = [mailboxes EXCEPT ![AddressOf[c]] = None]
    BY <1>3 DEF Close
  <2>2. /\ conn \in [Conn -> {"new", "open", "closed"}]
        /\ mailboxes \in [Address -> Conn \cup {None}]
        /\ AddressOf \in [Conn -> Address] /\ None \notin Conn
    BY RelayAssumption DEF TypeOK
  <2> QED
    BY <2>1, <2>2 DEF RegistryInv, RegistryMatchesConnections
<1>4. ASSUME NEW c \in Conn, NEW h \in BOOLEAN, SetHandler(c, h)
      PROVE  UNCHANGED <<conn, mailboxes>>
  BY <1>4 DEF SetHandler
<1>5. ASSUME NEW c \in Conn, TakePending(c) \/ Prepare(c) \/ \E d \in Disposition : Finish(c, d)
      PROVE  UNCHANGED <<conn, mailboxes>>
  BY <1>5 DEF TakePending, Prepare, Finish
<1>6. ASSUME NEW c \in Conn, NEW a \in Address, NEW m \in Message, NEW r \in ReplyTo,
             Send(c, a, m, r)
      PROVE  UNCHANGED <<conn, mailboxes>>
  BY <1>6 DEF Send, SendToWaiter, SendToMailbox, SendRefused
<1>7. ASSUME NEW w \in Wait, NEW c \in Conn, NEW f \in Filter,
             WaitTake(w, c, f) \/ WaitRegister(w, c, f)
      PROVE  UNCHANGED <<conn, mailboxes>>
  BY <1>7 DEF WaitTake, WaitRegister
<1>8. ASSUME NEW w \in Wait, WaitResume(w) \/ \E kind \in {"timeout", "cancel"} : Interrupt(w, kind)
      PROVE  UNCHANGED <<conn, mailboxes>>
  BY <1>8 DEF WaitResume, Interrupt
<1>9. CASE UNCHANGED vars
  BY <1>1, <1>9 DEF vars
<1> QED
  BY <1>1, <1>2, <1>3, <1>4, <1>5, <1>6, <1>7, <1>8, <1>9 DEF Next

LEMMA WaitStep ==
  ASSUME TypeOK, RegistryInv, WaitInv, [Next]_vars
  PROVE  WaitInv'
<1>t. /\ conn \in [Conn -> {"new", "open", "closed"}]
      /\ waiters \in [Conn -> SUBSET Wait]
      /\ phase \in [Wait -> {"idle", "blocked", "message", "none", "cancelled", "unavailable"}]
      /\ want \in [Wait -> Calls \cup {None}]
      /\ future \in [Wait -> {Pending, "result", "exception", "cancelled"}]
  BY DEF TypeOK
<1>1. CASE UNCHANGED <<conn, waiters, phase, want, future>>
  BY <1>1 DEF WaitInv
<1>2. ASSUME NEW c \in Conn, NEW h \in BOOLEAN, Connect(c, h)
      PROVE  WaitInv'
  <2>1. /\ conn[c] = "new"
        /\ conn' = [conn EXCEPT ![c] = "open"]
        /\ UNCHANGED <<waiters, phase, want, future>>
    BY <1>2 DEF Connect, call
  <2> QED
    BY <1>t, <2>1 DEF WaitInv, Calls
<1>3. ASSUME NEW c \in Conn, Close(c)
      PROVE  WaitInv'
  <2>1. /\ conn[c] = "open"
        /\ conn' = [conn EXCEPT ![c] = "closed"]
        /\ \A w \in Wait : w \notin waiters[c] => future'[w] = future[w]
        /\ UNCHANGED <<waiters, phase, want>>
    BY <1>3 DEF Close, Notified, box
  <2>2. \A d \in Conn : d # c /\ conn[d] = "open" => waiters[d] \cap waiters[c] = {}
    BY <2>1 DEF WaitInv
  <2>3. \A w \in Wait : future'[w] = Pending => future[w] = Pending
    BY <1>t, <1>3 DEF Close, Pending
  <2> QED
    BY <1>t, <2>1, <2>2, <2>3 DEF WaitInv, Calls
<1>4. ASSUME NEW c \in Conn, NEW h \in BOOLEAN, SetHandler(c, h)
      PROVE  UNCHANGED <<conn, waiters, phase, want, future>>
  BY <1>4 DEF SetHandler, call
<1>5. ASSUME NEW c \in Conn, TakePending(c) \/ Prepare(c) \/ \E d \in Disposition : Finish(c, d)
      PROVE  UNCHANGED <<conn, waiters, phase, want, future>>
  BY <1>5 DEF TakePending, Prepare, Finish, call
<1>6. ASSUME NEW c \in Conn, NEW a \in Address, NEW m \in Message, NEW r \in ReplyTo,
             Send(c, a, m, r)
      PROVE  WaitInv'
  <2>1. CASE SendToMailbox(c, a, m, r) \/ SendRefused(c, a, m, r)
    BY <1>1, <2>1 DEF SendToMailbox, SendRefused, call, box
  <2>2. CASE SendToWaiter(c, a, m, r)
    <3> DEFINE d == mailboxes[a]
    <3>0. d \in Conn
      BY <2>2 DEF SendToWaiter, TypeOK
    <3>1. PICK w \in waiters[d] :
            /\ waiters' = [waiters EXCEPT ![d] = @ \ {w}]
            /\ IF future[w] = Pending THEN future' = [future EXCEPT ![w] = "result"]
                                      ELSE future' = future
      BY <2>2 DEF SendToWaiter, Oldest, Takers
    <3>2. UNCHANGED <<conn, phase, want>>
      BY <2>2 DEF SendToWaiter
    <3>3. conn[d] = "open"
      BY <3>0, RelayAssumption DEF RegistryInv, RegistryMatchesConnections
    <3>4. w \in Wait /\ phase[w] = "blocked" /\ want[w].on = d
      BY <1>t, <3>0, <3>1, <3>3 DEF WaitInv
    <3>5. \A v \in Wait : v # w => future'[v] = future[v]
      BY <1>t, <3>1
    <3>6. future'[w] # Pending
      BY <1>t, <3>1, <3>4 DEF Pending
    <3> QED
      BY <1>t, <3>0, <3>1, <3>2, <3>3, <3>4, <3>5, <3>6 DEF WaitInv
  <2> QED
    BY <1>6, <2>1, <2>2 DEF Send
<1>7. ASSUME NEW w \in Wait, NEW c \in Conn, NEW f \in Filter, WaitTake(w, c, f)
      PROVE  WaitInv'
  <2>1. /\ phase[w] = "idle"
        /\ phase' = [phase EXCEPT ![w] = "message"]
        /\ UNCHANGED <<conn, waiters, want, future>>
    BY <1>7 DEF WaitTake
  <2> QED
    BY <1>t, <2>1 DEF WaitInv
<1>8. ASSUME NEW w \in Wait, NEW c \in Conn, NEW f \in Filter, WaitRegister(w, c, f)
      PROVE  WaitInv'
  <2>1. /\ phase[w] = "idle" /\ conn[c] = "open"
        /\ waiters' = [waiters EXCEPT ![c] = @ \cup {w}]
        /\ want' = [want EXCEPT ![w] = [on |-> c, filter |-> f]]
        /\ phase' = [phase EXCEPT ![w] = "blocked"]
        /\ UNCHANGED <<conn, future>>
    BY <1>8 DEF WaitRegister
  <2>2. want'[w] \in Calls /\ want'[w].on = c
    BY <1>t, <2>1 DEF Calls
  <2>3. \A v \in Wait : v # w => want'[v] = want[v] /\ phase'[v] = phase[v]
    BY <1>t, <2>1
  <2>4. \A d \in Conn : conn[d] = "open" => w \notin waiters[d]
    BY <2>1 DEF WaitInv
  <2>5. phase'[w] = "blocked" /\ future'[w] = Pending
    BY <1>t, <2>1 DEF WaitInv
  <2>6. \A d \in Conn : waiters'[d] = IF d = c THEN waiters[d] \cup {w} ELSE waiters[d]
    BY <1>t, <2>1
  <2> QED
    BY <1>t, <2>1, <2>2, <2>3, <2>4, <2>5, <2>6 DEF WaitInv
<1>9. ASSUME NEW w \in Wait, NEW kind \in {"timeout", "cancel"}, Interrupt(w, kind)
      PROVE  WaitInv'
  <2>1. /\ phase[w] = "blocked"
        /\ future' = [future EXCEPT ![w] = IF @ = Pending THEN "cancelled" ELSE @]
        /\ UNCHANGED <<conn, waiters, phase, want>>
    BY <1>9 DEF Interrupt, box
  <2> QED
    BY <1>t, <2>1 DEF WaitInv, Pending
<1>10. ASSUME NEW w \in Wait, WaitResume(w)
       PROVE  WaitInv'
  <2>1. /\ phase[w] = "blocked" /\ future[w] # Pending
        /\ phase' = [phase EXCEPT ![w] = Returned(w)]
        /\ UNCHANGED <<conn, want, future>>
    BY <1>10 DEF WaitResume
  <2>2. phase'[w] \notin {"idle", "blocked"}
    BY <1>t, <2>1 DEF Returned
  <2>3. \A d \in Conn : waiters'[d] \subseteq waiters[d] /\ waiters[d] \subseteq waiters'[d] \cup {w}
    BY <1>t, <1>10 DEF WaitResume, RemoveWaiter
  <2>4. \A d \in Conn : conn[d] = "open" => w \notin waiters'[d]
    <3> SUFFICES ASSUME NEW d \in Conn, conn[d] = "open", w \in waiters[d]
                 PROVE  w \notin waiters'[d]
      BY <2>3
    <3>1. want[w].on = d
      BY DEF WaitInv
    <3>2. mailboxes[AddressOf[d]] = d /\ d # None
      BY RelayAssumption DEF RegistryInv, RegistryMatchesConnections
    <3>3. waiters' = [waiters EXCEPT ![d] = @ \ {w}]
      BY <1>10, <3>1, <3>2 DEF WaitResume, RemoveWaiter
    <3> QED
      BY <1>t, <3>3
  <2>5. \A v \in Wait : v # w => phase'[v] = phase[v]
    BY <1>t, <2>1
  <2> QED
    BY <1>t, <2>1, <2>2, <2>3, <2>4, <2>5 DEF WaitInv
<1>11. CASE UNCHANGED vars
  BY <1>1, <1>11 DEF vars, box, call
<1> QED
  BY <1>1, <1>2, <1>3, <1>4, <1>5, <1>6, <1>7, <1>8, <1>9, <1>10, <1>11 DEF Next

LEMMA SlotStep ==
  ASSUME TypeOK, RegistryInv, WaitInv, SlotInv, [Next]_vars
  PROVE  SlotInv'
<1>t. /\ future \in [Wait -> {Pending, "result", "exception", "cancelled"}]
      /\ slot \in [Wait -> Message \cup {None}]
  BY DEF TypeOK
<1>1. CASE UNCHANGED <<future, slot>>
  BY <1>1 DEF SlotInv
<1>2. ASSUME NEW c \in Conn, Close(c)
      PROVE  SlotInv'
  <2>1. /\ conn[c] = "open"
        /\ slot' = slot
        /\ \A w \in Wait : future'[w] = IF w \in Notified(c) THEN "exception" ELSE future[w]
    BY <1>2 DEF Close
  <2>2. \A w \in Notified(c) : w \in Wait /\ future[w] # "result"
    BY <2>1 DEF Notified, WaitInv, Pending, TypeOK
  <2> QED
    BY <2>1, <2>2 DEF SlotInv
<1>3. ASSUME NEW c \in Conn, NEW a \in Address, NEW m \in Message, NEW r \in ReplyTo,
             SendToWaiter(c, a, m, r)
      PROVE  SlotInv'
  <2>1. PICK w : \/ /\ future' = [future EXCEPT ![w] = "result"]
                    /\ slot' = [slot EXCEPT ![w] = m]
                 \/ UNCHANGED <<future, slot>>
    BY <1>3 DEF SendToWaiter
  <2>2. m # None
    BY RelayAssumption
  <2> QED
    BY <1>t, <2>1, <2>2 DEF SlotInv
<1>4. ASSUME NEW w \in Wait, NEW kind \in {"timeout", "cancel"}, Interrupt(w, kind)
      PROVE  SlotInv'
  <2>1. /\ future' = [future EXCEPT ![w] = IF @ = Pending THEN "cancelled" ELSE @]
        /\ slot' = slot
    BY <1>4 DEF Interrupt
  <2> QED
    BY <1>t, <2>1 DEF SlotInv, Pending
<1>5. ASSUME NEW c \in Conn,
             \/ \E h \in BOOLEAN : Connect(c, h) \/ SetHandler(c, h)
             \/ TakePending(c) \/ Prepare(c)
             \/ \E d \in Disposition : Finish(c, d)
      PROVE  UNCHANGED <<future, slot>>
  BY <1>5 DEF Connect, SetHandler, TakePending, Prepare, Finish, call
<1>6. ASSUME NEW c \in Conn, NEW a \in Address, NEW m \in Message, NEW r \in ReplyTo,
             SendToMailbox(c, a, m, r) \/ SendRefused(c, a, m, r)
      PROVE  UNCHANGED <<future, slot>>
  BY <1>6 DEF SendToMailbox, SendRefused, call
<1>7. ASSUME NEW w \in Wait,
             \/ \E c \in Conn, f \in Filter : WaitTake(w, c, f) \/ WaitRegister(w, c, f)
             \/ WaitResume(w)
      PROVE  UNCHANGED <<future, slot>>
  BY <1>7 DEF WaitTake, WaitRegister, WaitResume
<1>8. CASE UNCHANGED vars
  BY <1>1, <1>8 DEF vars, call
<1> QED
  BY <1>1, <1>2, <1>3, <1>4, <1>5, <1>6, <1>7, <1>8 DEF Next, Send

LEMMA PlaceStep ==
  ASSUME Inv, [Next]_vars
  PROVE  PlaceInv'
<1>t. /\ inbox \in [Conn -> SUBSET Message]
      /\ fate \in [Message -> {"unsent", "refused", "failed", "accepted", "consumed"}]
      /\ phase \in [Wait -> {"idle", "blocked", "message", "none", "cancelled", "unavailable"}]
      /\ slot \in [Wait -> Message \cup {None}]
      /\ reserved \in [Conn -> SUBSET Message]
  BY DEF Inv, TypeOK
<1>p. PlaceInv
  BY DEF Inv
<1>1. CASE UNCHANGED <<inbox, fate, phase, slot>>
  BY <1>1, <1>p DEF PlaceInv, Holds
<1>2. ASSUME NEW c \in Conn,
             \/ \E h \in BOOLEAN : Connect(c, h) \/ SetHandler(c, h)
             \/ Close(c) \/ Prepare(c)
      PROVE  UNCHANGED <<inbox, fate, phase, slot>>
  BY <1>2 DEF Connect, SetHandler, Close, Prepare, call, post, box
\* Consuming a set of stored messages of one mailbox.
<1>3. ASSUME NEW c \in Conn, NEW S \in SUBSET Message, S \subseteq inbox[c],
             inbox' = [inbox EXCEPT ![c] = @ \ S],
             \A m \in Message : fate'[m] = IF m \in S THEN "consumed" ELSE fate[m],
             \A w \in Wait, m \in Message : Holds(w, m)' <=> Holds(w, m)
      PROVE  PlaceInv'
  <2>1. \A m \in Message, d \in Conn : m \in inbox'[d] <=> m \in inbox[d] /\ m \notin S
    BY <1>t, <1>3, <1>p DEF PlaceInv
  <2>2. \A m \in Message : fate'[m] = "accepted" <=> fate[m] = "accepted" /\ m \notin S
    BY <1>3
  <2> QED
    BY <1>3, <1>p, <2>1, <2>2 DEF PlaceInv
<1>4. ASSUME NEW c \in Conn, TakePending(c)
      PROVE  PlaceInv'
  <2>1. /\ inbox' = [inbox EXCEPT ![c] = @ \ Visible(c)]
        /\ fate' = [m \in Message |-> IF m \in Visible(c) THEN "consumed" ELSE fate[m]]
        /\ UNCHANGED <<phase, slot>>
    BY <1>4 DEF TakePending, call
  <2>2. Visible(c) \in SUBSET Message /\ Visible(c) \subseteq inbox[c]
    BY <1>t DEF Visible
  <2>3. \A w \in Wait, m \in Message : Holds(w, m)' <=> Holds(w, m)
    BY <2>1 DEF Holds
  <2>4. \A m \in Message : fate'[m] = IF m \in Visible(c) THEN "consumed" ELSE fate[m]
    BY <2>1
  <2> QED
    BY <1>3, <2>1, <2>2, <2>3, <2>4
<1>5. ASSUME NEW w \in Wait, NEW c \in Conn, NEW f \in Filter, WaitTake(w, c, f)
      PROVE  PlaceInv'
  <2>1. PICK m \in Wanted(c, f) :
          /\ inbox' = [inbox EXCEPT ![c] = @ \ {m}]
          /\ fate' = [fate EXCEPT ![m] = "consumed"]
    BY <1>5, OldestIsMember DEF WaitTake
  <2>2. m \in Message /\ m \in inbox[c]
    BY <1>t DEF Wanted, Visible
  <2>3. phase[w] = "idle" /\ phase' = [phase EXCEPT ![w] = "message"] /\ slot' = slot
    BY <1>5 DEF WaitTake
  <2>4. slot[w] = None
    BY <2>3 DEF Inv, SlotInv, WaitInv, Pending
  <2>5. \A v \in Wait, n \in Message : Holds(v, n)' <=> Holds(v, n)
    BY <1>t, <2>3, <2>4, RelayAssumption DEF Holds
  <2> DEFINE S == {m}
  <2>6. \A n \in Message : fate'[n] = IF n \in S THEN "consumed" ELSE fate[n]
    BY <1>t, <2>1, <2>2
  <2>7. /\ S \in SUBSET Message /\ S \subseteq inbox[c]
        /\ inbox' = [inbox EXCEPT ![c] = @ \ S]
    BY <2>1, <2>2
  <2> HIDE DEF S
  <2> QED
    BY <1>3, <2>5, <2>6, <2>7
<1>6. ASSUME NEW c \in Conn, NEW disposition \in Disposition, Finish(c, disposition)
      PROVE  PlaceInv'
  <2> DEFINE m == delivering[c]
  <2>1. m \in Message /\ m \in inbox[c]
    BY <1>t, <1>6 DEF Finish, Inv, OwnerInv
  <2>2. UNCHANGED <<phase, slot>>
    BY <1>6 DEF Finish, call
  <2>3. CASE disposition = "acknowledge"
    <3>1. inbox' = [inbox EXCEPT ![c] = @ \ {m}] /\ fate' = [fate EXCEPT ![m] = "consumed"]
      BY <1>6, <2>3 DEF Finish
    <3> DEFINE S == {m}
    <3>2. \A n \in Message : fate'[n] = IF n \in S THEN "consumed" ELSE fate[n]
      BY <1>t, <2>1, <3>1
    <3>3. \A v \in Wait, n \in Message : Holds(v, n)' <=> Holds(v, n)
      BY <2>2 DEF Holds
    <3>4. /\ S \in SUBSET Message /\ S \subseteq inbox[c]
          /\ inbox' = [inbox EXCEPT ![c] = @ \ S]
      BY <2>1, <3>1
    <3> HIDE DEF m, S
    <3> QED
      BY <1>3, <3>2, <3>3, <3>4
  <2>4. CASE disposition # "acknowledge"
    BY <1>1, <1>6, <2>2, <2>4 DEF Finish
  <2> QED
    BY <2>3, <2>4
<1>7. ASSUME NEW w \in Wait, NEW c \in Conn, NEW f \in Filter, WaitRegister(w, c, f)
      PROVE  PlaceInv'
  <2>1. phase[w] = "idle" /\ phase' = [phase EXCEPT ![w] = "blocked"]
        /\ UNCHANGED <<inbox, fate, slot>>
    BY <1>7 DEF WaitRegister, post
  <2>2. \A v \in Wait, n \in Message : Holds(v, n)' <=> Holds(v, n)
    BY <1>t, <2>1 DEF Holds
  <2> QED
    BY <1>p, <2>1, <2>2 DEF PlaceInv
<1>8. ASSUME NEW w \in Wait, NEW kind \in {"timeout", "cancel"}, Interrupt(w, kind)
      PROVE  UNCHANGED <<inbox, fate, phase, slot>>
  BY <1>8 DEF Interrupt, box, post
<1>9. ASSUME NEW w \in Wait, WaitResume(w)
      PROVE  PlaceInv'
  <2>1. /\ phase[w] = "blocked"
        /\ phase' = [phase EXCEPT ![w] = Returned(w)]
        /\ UNCHANGED <<inbox, slot>>
    BY <1>9 DEF WaitResume
  <2>2. CASE Returned(w) = "message"
    <3> DEFINE m == slot[w]
    <3>1. future[w] = "result"
      BY <1>9, <2>2 DEF Returned
    <3>2. m \in Message
      BY <1>t, <3>1 DEF Inv, SlotInv
    <3>3. fate' = [fate EXCEPT ![m] = "consumed"]
      BY <1>9, <2>2 DEF WaitResume
    <3>4. Holds(w, m)
      BY <2>1 DEF Holds
    <3>5. \A v \in Wait, n \in Message : Holds(v, n)' <=> Holds(v, n) /\ v # w
      BY <1>t, <2>1, <2>2 DEF Holds
    <3>6. \A n \in Message : Holds(w, n) => n = m
      BY DEF Holds
    <3>7. \A n \in Message : fate'[n] = "accepted" <=> fate[n] = "accepted" /\ n # m
      BY <1>t, <3>2, <3>3
    <3> HIDE DEF m
    <3> QED
      BY <1>p, <2>1, <3>2, <3>4, <3>5, <3>6, <3>7 DEF PlaceInv
  <2>3. CASE Returned(w) # "message"
    <3>1. fate' = fate
      BY <1>9, <2>3 DEF WaitResume
    <3>2. \A v \in Wait, n \in Message : Holds(v, n)' <=> Holds(v, n)
      BY <1>t, <2>1, <2>3 DEF Holds
    <3> QED
      BY <1>p, <2>1, <3>1, <3>2 DEF PlaceInv
  <2> QED
    BY <2>2, <2>3
\* Sending: m was in no place.
<1>10. ASSUME NEW m \in Message, fate[m] = "unsent"
       PROVE  /\ \A d \in Conn : m \notin inbox[d]
              /\ \A w \in Wait : ~Holds(w, m)
  BY <1>10, <1>p DEF PlaceInv
<1>11. ASSUME NEW c \in Conn, NEW a \in Address, NEW m \in Message, NEW r \in ReplyTo,
              Send(c, a, m, r)
       PROVE  PlaceInv'
  <2>1. CASE SendRefused(c, a, m, r)
    <3>1. fate[m] = "unsent" /\ fate' = [fate EXCEPT ![m] = "refused"]
          /\ UNCHANGED <<inbox, phase, slot>>
      BY <2>1 DEF SendRefused, Post, box, call
    <3>2. \A v \in Wait, n \in Message : Holds(v, n)' <=> Holds(v, n)
      BY <3>1 DEF Holds
    <3>3. \A n \in Message : fate'[n] = "accepted" <=> fate[n] = "accepted"
      BY <1>t, <3>1
    <3> QED
      BY <1>p, <3>1, <3>2, <3>3 DEF PlaceInv
  <2>2. CASE SendToMailbox(c, a, m, r)
    <3> DEFINE d == mailboxes[a]
    <3>1. d \in Conn
      BY <2>2 DEF SendToMailbox, Inv, TypeOK
    <3>2. /\ fate[m] = "unsent"
          /\ fate' = [fate EXCEPT ![m] = "accepted"]
          /\ inbox' = [inbox EXCEPT ![d] = @ \cup {m}]
          /\ UNCHANGED <<phase, slot>>
      BY <2>2 DEF SendToMailbox, Post, call
    <3>3. \A v \in Wait, n \in Message : Holds(v, n)' <=> Holds(v, n)
      BY <3>2 DEF Holds
    <3>4. \A n \in Message : fate'[n] = IF n = m THEN "accepted" ELSE fate[n]
      BY <1>t, <3>2
    <3> HIDE DEF d
    <3>5. \A n \in Message, e \in Conn : n \in inbox'[e] <=> n \in inbox[e] \/ (n = m /\ e = d)
      BY <1>t, <3>1, <3>2
    <3> QED
      BY <1>p, <1>10, <3>1, <3>2, <3>3, <3>4, <3>5 DEF PlaceInv
  <2>3. CASE SendToWaiter(c, a, m, r)
    <3>1. UNCHANGED <<inbox, phase>> /\ fate[m] = "unsent"
      BY <2>3 DEF SendToWaiter, Post
    <3>2. PICK w \in Takers(mailboxes[a], AddressOf[c], r) :
            \/ /\ future[w] = Pending
               /\ slot' = [slot EXCEPT ![w] = m]
               /\ fate' = [fate EXCEPT ![m] = "accepted"]
            \/ /\ future[w] # Pending
               /\ slot' = slot
               /\ fate' = [fate EXCEPT ![m] = "failed"]
      BY <2>3, OldestIsMember DEF SendToWaiter, Post, HandOver
    <3>3. mailboxes[a] \in Conn /\ conn[mailboxes[a]] = "open"
      <4>1. mailboxes[a] # None /\ mailboxes[a] \in Conn
        BY <2>3 DEF SendToWaiter, Inv, TypeOK
      <4>2. AddressOf[mailboxes[a]] = a
        BY <4>1 DEF Inv, RegistryInv
      <4> QED
        BY <4>1, <4>2 DEF Inv, RegistryInv, RegistryMatchesConnections
    <3>4. w \in Wait /\ w \in waiters[mailboxes[a]] /\ phase[w] = "blocked"
      BY <3>3 DEF Takers, Inv, TypeOK, WaitInv
    <3>5. CASE fate' = [fate EXCEPT ![m] = "failed"] /\ slot' = slot
      <4>1. \A n \in Message : fate'[n] = "accepted" <=> fate[n] = "accepted"
        BY <1>t, <3>1, <3>5
      <4>2. \A v \in Wait, n \in Message : Holds(v, n)' <=> Holds(v, n)
        BY <3>1, <3>5 DEF Holds
      <4> QED
        BY <1>p, <3>1, <4>1, <4>2 DEF PlaceInv
    <3>6. CASE /\ future[w] = Pending
               /\ slot' = [slot EXCEPT ![w] = m]
               /\ fate' = [fate EXCEPT ![m] = "accepted"]
      <4>1. slot[w] = None
        BY <3>4, <3>6 DEF Inv, SlotInv, Pending
      <4>2. \A v \in Wait, n \in Message :
              Holds(v, n)' <=> Holds(v, n) \/ (v = w /\ n = m)
        BY <1>t, <3>1, <3>4, <3>6, <4>1, RelayAssumption DEF Holds
      <4>3. \A n \in Message : fate'[n] = IF n = m THEN "accepted" ELSE fate[n]
        BY <1>t, <3>6
      <4> QED
        BY <1>p, <1>10, <3>1, <3>4, <4>2, <4>3 DEF PlaceInv
    <3> QED
      BY <3>2, <3>5, <3>6
  <2> QED
    BY <1>11, <2>1, <2>2, <2>3 DEF Send
<1>12. CASE UNCHANGED vars
  BY <1>1, <1>12 DEF vars, box, call, post
<1> QED
  BY <1>1, <1>2, <1>4, <1>5, <1>6, <1>7, <1>8, <1>9, <1>11, <1>12 DEF Next

LEMMA OwnerStep ==
  ASSUME Inv, [Next]_vars
  PROVE  OwnerInv'
<1>t. /\ inbox \in [Conn -> SUBSET Message]
      /\ reserved \in [Conn -> SUBSET Message]
      /\ scheduled \in [Conn -> SUBSET Message]
      /\ tasks \in [Conn -> Seq(Message)]
      /\ delivering \in [Conn -> Message \cup {None}]
      /\ fate \in [Message -> {"unsent", "refused", "failed", "accepted", "consumed"}]
  BY DEF Inv, TypeOK
<1>o. OwnerInv
  BY DEF Inv
\* A sent message never becomes unsent again.
<1>f. ASSUME \A m \in Message : fate[m] # "unsent" => fate'[m] # "unsent",
             UNCHANGED <<inbox, reserved, scheduled, tasks, delivering>>
      PROVE  OwnerInv'
  BY <1>f, <1>o, <1>t DEF OwnerInv, Queued
<1>1. CASE UNCHANGED <<inbox, reserved, scheduled, tasks, delivering, fate>>
  BY <1>1, <1>o DEF OwnerInv, Queued
<1>2. ASSUME NEW c \in Conn, (\E h \in BOOLEAN : Connect(c, h)) \/ Close(c)
      PROVE  UNCHANGED <<inbox, reserved, scheduled, tasks, delivering, fate>>
  BY <1>2 DEF Connect, Close, box, post
\* A schedule of messages that are in no task.
<1>3. ASSUME NEW c \in Conn, NEW q \in Seq(Message),
             \A i, j \in DOMAIN q : q[i] = q[j] => i = j,
             {q[i] : i \in DOMAIN q} \cap scheduled[c] = {},
             \A m \in {q[i] : i \in DOMAIN q} : fate'[m] # "unsent",
             \A m \in Message : fate[m] # "unsent" => fate'[m] # "unsent",
             \A d \in Conn : inbox[d] \subseteq inbox'[d],
             Schedule(c, q),
             UNCHANGED <<reserved, delivering>>
      PROVE  OwnerInv'
  <2> DEFINE S == {q[i] : i \in DOMAIN q}
  <2>1. /\ tasks' = [tasks EXCEPT ![c] = tasks[c] \o q]
        /\ scheduled' = [scheduled EXCEPT ![c] = scheduled[c] \cup S]
    BY <1>3 DEF Schedule
  <2>2. Queued(c) \cap S = {} /\ Queued(c) = {tasks[c][i] : i \in DOMAIN tasks[c]}
    BY <1>3, <1>o DEF OwnerInv, Queued
  <2>3. tasks[c] \in Seq(Message)
    BY <1>t
  <2>4. Queued(c)' = Queued(c) \cup S
    <3>1. tasks'[c] = tasks[c] \o q
      BY <1>t, <2>1
    <3>2. {(tasks[c] \o q)[i] : i \in DOMAIN (tasks[c] \o q)}
            = {tasks[c][i] : i \in DOMAIN tasks[c]} \cup S
      BY <2>3, ConcatOfQueues
    <3>3. Queued(c)' = {(tasks[c] \o q)[i] : i \in DOMAIN (tasks[c] \o q)}
      BY <3>1 DEF Queued
    <3> QED
      BY <2>2, <3>2, <3>3
  <2>5. \A i, j \in DOMAIN tasks'[c] : tasks'[c][i] = tasks'[c][j] => i = j
    <3>1. \A i, j \in DOMAIN tasks[c] : tasks[c][i] = tasks[c][j] => i = j
      BY <1>o DEF OwnerInv
    <3>2. tasks'[c] = tasks[c] \o q
      BY <1>t, <2>1
    <3> QED
      BY <1>3, <2>2, <2>3, <3>1, <3>2, ConcatOfQueues
  <2>6. ASSUME NEW d \in Conn, d # c
        PROVE  tasks'[d] = tasks[d] /\ scheduled'[d] = scheduled[d] /\ Queued(d)' = Queued(d)
    BY <1>t, <2>1, <2>6 DEF Queued
  <2>7. scheduled'[c] = scheduled[c] \cup S /\ S \cap reserved[c] = {}
    BY <1>t, <1>3, <1>o, <2>1 DEF OwnerInv
  <2>8. \A m \in S : fate'[m] # "unsent"
    BY <1>3
  <2> HIDE DEF S
  <2>9. ASSUME NEW d \in Conn
        PROVE  /\ delivering'[d] # None => delivering'[d] \in reserved'[d]
               /\ reserved'[d] \subseteq inbox'[d] \cap scheduled'[d]
               /\ reserved'[d] \cap Queued(d)' = {}
               /\ Queued(d)' \subseteq scheduled'[d]
               /\ \A m \in scheduled'[d] : fate'[m] # "unsent"
               /\ \A i, j \in DOMAIN tasks'[d] : tasks'[d][i] = tasks'[d][j] => i = j
    <3>1. CASE d = c
      BY <1>t, <1>3, <1>o, <2>4, <2>5, <2>7, <2>8, <3>1 DEF OwnerInv
    <3>2. CASE d # c
      BY <1>t, <1>3, <1>o, <2>6, <3>2 DEF OwnerInv
    <3> QED
      BY <3>1, <3>2
  <2> QED
    BY <2>9 DEF OwnerInv
<1>4. ASSUME NEW c \in Conn, NEW h \in BOOLEAN, SetHandler(c, h)
      PROVE  OwnerInv'
  <2>1. UNCHANGED <<inbox, reserved, delivering, fate>>
    BY <1>4 DEF SetHandler, post
  <2>2. CASE ~h
    BY <1>1, <1>4, <2>1, <2>2 DEF SetHandler
  <2>3. CASE h
    <3>1. PICK q \in InOrder(accepted, Unscheduled(c)) : Schedule(c, q)
      BY <1>4, <2>3 DEF SetHandler
    <3>2. accepted \in Seq(Message) /\ Unscheduled(c) \in SUBSET Message
      BY <1>t DEF Unscheduled, Inv, TypeOK
    <3>3. /\ q \in Seq(Message) /\ {q[i] : i \in DOMAIN q} = Unscheduled(c)
          /\ \A i, j \in DOMAIN q : q[i] = q[j] => i = j
      BY <3>1, <3>2, InOrderIsSequence
    <3>4. Unscheduled(c) \cap scheduled[c] = {}
      BY DEF Unscheduled
    <3>5. \A m \in Unscheduled(c) : fate'[m] # "unsent"
      BY <1>t, <2>1 DEF Unscheduled, Inv, PlaceInv
    <3>6. /\ \A m \in Message : fate[m] # "unsent" => fate'[m] # "unsent"
          /\ \A d \in Conn : inbox[d] \subseteq inbox'[d]
      BY <2>1
    <3>7. /\ {q[i] : i \in DOMAIN q} \cap scheduled[c] = {}
          /\ \A m \in {q[i] : i \in DOMAIN q} : fate'[m] # "unsent"
      BY <3>3, <3>4, <3>5
    <3> QED
      BY <1>3, <2>1, <3>1, <3>3, <3>6, <3>7
  <2> QED
    BY <2>2, <2>3
<1>5. ASSUME NEW c \in Conn, NEW S \in SUBSET Message, S \cap reserved[c] = {},
             inbox' = [inbox EXCEPT ![c] = @ \ S],
             \A m \in Message : fate[m] # "unsent" => fate'[m] # "unsent",
             UNCHANGED <<reserved, scheduled, tasks, delivering>>
      PROVE  OwnerInv'
  BY <1>5, <1>o, <1>t DEF OwnerInv, Queued
<1>6. ASSUME NEW c \in Conn, TakePending(c)
      PROVE  OwnerInv'
  <2>1. /\ inbox' = [inbox EXCEPT ![c] = @ \ Visible(c)]
        /\ fate' = [m \in Message |-> IF m \in Visible(c) THEN "consumed" ELSE fate[m]]
        /\ UNCHANGED <<reserved, scheduled, tasks, delivering>>
    BY <1>6 DEF TakePending
  <2>2. Visible(c) \in SUBSET Message /\ Visible(c) \cap reserved[c] = {}
    BY <1>t DEF Visible
  <2>3. \A m \in Message : fate[m] # "unsent" => fate'[m] # "unsent"
    BY <2>1
  <2> QED
    BY <1>5, <2>1, <2>2, <2>3
<1>7. ASSUME NEW w \in Wait, NEW c \in Conn, NEW f \in Filter, WaitTake(w, c, f)
      PROVE  OwnerInv'
  <2>1. PICK m \in Wanted(c, f) :
          /\ inbox' = [inbox EXCEPT ![c] = @ \ {m}]
          /\ fate' = [fate EXCEPT ![m] = "consumed"]
    BY <1>7, OldestIsMember DEF WaitTake
  <2>2. m \in Message /\ m \notin reserved[c]
    BY <1>t DEF Wanted, Visible
  <2>3. \A n \in Message : fate[n] # "unsent" => fate'[n] # "unsent"
    BY <1>t, <2>1
  <2>4. UNCHANGED <<reserved, scheduled, tasks, delivering>>
    BY <1>7 DEF WaitTake
  <2> DEFINE S == {m}
  <2>5. /\ S \in SUBSET Message /\ S \cap reserved[c] = {}
        /\ inbox' = [inbox EXCEPT ![c] = @ \ S]
    BY <2>1, <2>2
  <2> HIDE DEF S
  <2> QED
    BY <1>5, <2>3, <2>4, <2>5
<1>8. ASSUME NEW c \in Conn, Prepare(c)
      PROVE  OwnerInv'
  <2> DEFINE m == Head(tasks[c])
  <2>1. /\ tasks[c] # <<>> /\ tasks[c] \in Seq(Message) /\ delivering[c] = None
        /\ tasks' = [tasks EXCEPT ![c] = Tail(tasks[c])]
        /\ UNCHANGED <<inbox, fate>>
    BY <1>8, <1>t DEF Prepare, post
  <2>2. \A i, j \in DOMAIN tasks[c] : tasks[c][i] = tasks[c][j] => i = j
    BY <1>o DEF OwnerInv
  <2>3. /\ m \in Queued(c)
        /\ {Tail(tasks[c])[i] : i \in DOMAIN Tail(tasks[c])} = Queued(c) \ {m}
        /\ \A i, j \in DOMAIN Tail(tasks[c]) : Tail(tasks[c])[i] = Tail(tasks[c])[j] => i = j
    BY <2>1, <2>2, TailOfQueue DEF Queued
  <2>4. m \in Message /\ tasks'[c] = Tail(tasks[c])
    BY <1>t, <2>1
  <2>5. Queued(c)' = Queued(c) \ {m}
    BY <2>3, <2>4 DEF Queued
  <2>6. \A i, j \in DOMAIN tasks'[c] : tasks'[c][i] = tasks'[c][j] => i = j
    BY <2>3, <2>4
  <2>7. ASSUME NEW d \in Conn, d # c
        PROVE  tasks'[d] = tasks[d] /\ Queued(d)' = Queued(d)
    BY <1>t, <2>1, <2>7 DEF Queued
  <2>8. \/ /\ m \in inbox[c]
           /\ reserved' = [reserved EXCEPT ![c] = @ \cup {m}]
           /\ delivering' = [delivering EXCEPT ![c] = m]
           /\ scheduled' = scheduled
        \/ /\ scheduled' = [scheduled EXCEPT ![c] = @ \ {m}]
           /\ UNCHANGED <<reserved, delivering>>
    BY <1>8 DEF Prepare, Deliverable
  <2> HIDE DEF m
  <2>9. ASSUME NEW d \in Conn
        PROVE  /\ delivering'[d] # None => delivering'[d] \in reserved'[d]
               /\ reserved'[d] \subseteq inbox'[d] \cap scheduled'[d]
               /\ reserved'[d] \cap Queued(d)' = {}
               /\ Queued(d)' \subseteq scheduled'[d]
               /\ \A n \in scheduled'[d] : fate'[n] # "unsent"
               /\ \A i, j \in DOMAIN tasks'[d] : tasks'[d][i] = tasks'[d][j] => i = j
    <3>1. CASE d # c
      BY <1>t, <1>o, <2>1, <2>7, <2>8, <3>1 DEF OwnerInv
    <3>2. CASE d = c
      BY <1>t, <1>o, <2>1, <2>3, <2>4, <2>5, <2>6, <2>8, <3>2 DEF OwnerInv
    <3> QED
      BY <3>1, <3>2
  <2> QED
    BY <2>9 DEF OwnerInv
<1>9. ASSUME NEW c \in Conn, NEW disposition \in Disposition, Finish(c, disposition)
      PROVE  OwnerInv'
  <2> DEFINE m == delivering[c]
  <2>1. /\ m # None /\ m \in Message /\ m \in reserved[c]
        /\ delivering' = [delivering EXCEPT ![c] = None]
        /\ tasks' = tasks
    BY <1>9, <1>t, <1>o DEF Finish, OwnerInv
  <2>2. \/ /\ disposition \in {"acknowledge", "defer"}
           /\ reserved' = [reserved EXCEPT ![c] = @ \ {m}]
           /\ scheduled' = [scheduled EXCEPT ![c] = @ \ {m}]
        \/ disposition = "cancelled" /\ UNCHANGED <<reserved, scheduled>>
    BY <1>9, RelayAssumption DEF Finish, Settles
  <2>3. \/ /\ disposition = "acknowledge"
           /\ inbox' = [inbox EXCEPT ![c] = @ \ {m}]
           /\ fate' = [fate EXCEPT ![m] = "consumed"]
        \/ UNCHANGED <<inbox, fate>>
    BY <1>9 DEF Finish
  <2> HIDE DEF m
  <2>4. \A n \in Message : fate[n] # "unsent" => fate'[n] # "unsent"
    BY <1>t, <2>3
  <2>5. \A d \in Conn : m \in Queued(d) => d # c
    BY <1>o, <2>1 DEF OwnerInv
  <2>6. \A d \in Conn : Queued(d)' = Queued(d)
    BY <2>1 DEF Queued
  <2>7. ASSUME NEW d \in Conn
        PROVE  /\ delivering'[d] # None => delivering'[d] \in reserved'[d]
               /\ reserved'[d] \subseteq inbox'[d] \cap scheduled'[d]
               /\ reserved'[d] \cap Queued(d)' = {}
               /\ Queued(d)' \subseteq scheduled'[d]
               /\ \A n \in scheduled'[d] : fate'[n] # "unsent"
               /\ \A i, j \in DOMAIN tasks'[d] : tasks'[d][i] = tasks'[d][j] => i = j
    <3>1. CASE d # c
      BY <1>t, <1>o, <2>1, <2>2, <2>3, <2>4, <2>6, <3>1 DEF OwnerInv
    <3>2. CASE d = c
      BY <1>t, <1>o, <2>1, <2>2, <2>3, <2>4, <2>5, <2>6, <3>2 DEF OwnerInv
    <3> QED
      BY <3>1, <3>2
  <2> QED
    BY <2>7 DEF OwnerInv
<1>10. ASSUME NEW c \in Conn, NEW a \in Address, NEW m \in Message, NEW r \in ReplyTo,
              Send(c, a, m, r)
       PROVE  OwnerInv'
  <2>1. fate[m] = "unsent" /\ \A n \in Message : fate[n] # "unsent" => fate'[n] # "unsent"
    BY <1>10, <1>t DEF Send, SendToWaiter, SendToMailbox, SendRefused, Post
  <2>2. CASE SendToWaiter(c, a, m, r) \/ SendRefused(c, a, m, r)
    BY <1>f, <2>1, <2>2 DEF SendToWaiter, SendRefused, box
  <2>3. CASE SendToMailbox(c, a, m, r)
    <3> DEFINE d == mailboxes[a]
    <3>1. d \in Conn
      BY <2>3 DEF SendToMailbox, Inv, TypeOK
    <3>2. /\ inbox' = [inbox EXCEPT ![d] = @ \cup {m}]
          /\ fate' = [fate EXCEPT ![m] = "accepted"]
          /\ UNCHANGED <<reserved, delivering>>
          /\ Schedule(d, <<m>>) \/ UNCHANGED <<tasks, scheduled>>
      BY <2>3 DEF SendToMailbox, Post
    <3> HIDE DEF d
    <3>3. \A e \in Conn : inbox[e] \subseteq inbox'[e]
      BY <1>t, <3>2
    <3>4. CASE UNCHANGED <<tasks, scheduled>>
      BY <1>t, <1>o, <2>1, <3>2, <3>3, <3>4 DEF OwnerInv, Queued
    <3>5. CASE Schedule(d, <<m>>)
      <4> DEFINE q == <<m>>
      <4>1. /\ q \in Seq(Message) /\ {q[i] : i \in DOMAIN q} = {m}
            /\ \A i, j \in DOMAIN q : q[i] = q[j] => i = j
        OBVIOUS
      <4>2. m \notin scheduled[d] /\ fate'[m] # "unsent"
        BY <1>t, <1>o, <2>1, <3>1, <3>2 DEF OwnerInv
      <4>3. /\ {q[i] : i \in DOMAIN q} \cap scheduled[d] = {}
            /\ \A n \in {q[i] : i \in DOMAIN q} : fate'[n] # "unsent"
        BY <4>1, <4>2
      <4>4. Schedule(d, q)
        BY <3>5
      <4> HIDE DEF q
      <4> QED
        BY <1>3, <2>1, <3>1, <3>2, <3>3, <4>1, <4>3, <4>4
    <3> QED
      BY <3>2, <3>4, <3>5
  <2> QED
    BY <1>10, <2>2, <2>3 DEF Send
<1>11. ASSUME NEW w \in Wait, NEW c \in Conn, NEW f \in Filter, WaitRegister(w, c, f)
       PROVE  UNCHANGED <<inbox, reserved, scheduled, tasks, delivering, fate>>
  BY <1>11 DEF WaitRegister, post
<1>12. ASSUME NEW w \in Wait, NEW kind \in {"timeout", "cancel"}, Interrupt(w, kind)
       PROVE  UNCHANGED <<inbox, reserved, scheduled, tasks, delivering, fate>>
  BY <1>12 DEF Interrupt, box, post
<1>13. ASSUME NEW w \in Wait, WaitResume(w)
       PROVE  OwnerInv'
  <2>1. /\ fate' = fate \/ fate' = [fate EXCEPT ![slot[w]] = "consumed"]
        /\ UNCHANGED <<inbox, reserved, scheduled, tasks, delivering>>
    BY <1>13 DEF WaitResume
  <2>2. \A m \in Message : fate[m] # "unsent" => fate'[m] # "unsent"
    BY <1>t, <2>1
  <2> QED
    BY <1>f, <2>1, <2>2
<1>14. CASE UNCHANGED vars
  BY <1>1, <1>14 DEF vars, box, post
<1> QED
  BY <1>1, <1>2, <1>4, <1>6, <1>7, <1>8, <1>9, <1>10, <1>11, <1>12, <1>13, <1>14 DEF Next

LEMMA InvIsInvariant == Spec => []Inv
<1>1. Init => Inv
  <2> SUFFICES ASSUME Init
               PROVE  Inv
    OBVIOUS
  <2>1. TypeOK
    BY DEF Init, TypeOK, Pending
  <2>2. RegistryInv
    BY RelayAssumption DEF Init, RegistryInv, RegistryMatchesConnections
  <2>3. WaitInv
    BY DEF Init, WaitInv
  <2>4. SlotInv
    BY DEF Init, SlotInv, Pending
  <2>5. PlaceInv
    BY RelayAssumption DEF Init, PlaceInv, Holds
  <2>6. OwnerInv
    BY DEF Init, OwnerInv, Queued
  <2> QED
    BY <2>1, <2>2, <2>3, <2>4, <2>5, <2>6 DEF Inv
<1>2. Inv /\ [Next]_vars => Inv'
  BY TypeStep, RegistryStep, WaitStep, SlotStep, PlaceStep, OwnerStep DEF Inv
<1> QED
  BY <1>1, <1>2, PTL DEF Spec

-----------------------------------------------------------------------------
(* The theorems *)

\* The variables keep their types.
THEOREM TypeCorrect == Spec => []TypeOK
BY InvIsInvariant, PTL DEF Inv

\* An address leads to a connection exactly while the connection is open.
THEOREM RegistryCorrect == Spec => []RegistryMatchesConnections
<1>1. Inv => RegistryMatchesConnections
  BY DEF Inv, RegistryInv
<1> QED
  BY <1>1, InvIsInvariant, PTL

\* The waiters of an open mailbox are exactly the calls that can be answered.
THEOREM WaitersCorrect == Spec => []WaitersAreTheBlockedCalls
<1>1. Inv => WaitersAreTheBlockedCalls
  BY DEF Inv, TypeOK, WaitInv, WaitersAreTheBlockedCalls
<1> QED
  BY <1>1, InvIsInvariant, PTL

\* An accepted message is in exactly one place until it is consumed, and in
\* none afterwards: the network neither loses nor duplicates it by itself.
THEOREM MessageConserved == Spec => []MessageInOnePlace
<1>1. Inv => MessageInOnePlace
  <2> SUFFICES ASSUME Inv, NEW m \in Message
               PROVE  LET boxes == {c \in Conn : m \in inbox[c]}
                          holders == {w \in Wait : Holds(w, m)}
                      IN IF fate[m] = "accepted"
                           THEN \/ holders = {} /\ \E c \in Conn : boxes = {c}
                                \/ boxes = {} /\ \E w \in Wait : holders = {w}
                           ELSE boxes = {} /\ holders = {}
    BY DEF MessageInOnePlace
  <2> DEFINE boxes == {c \in Conn : m \in inbox[c]}
             holders == {w \in Wait : Holds(w, m)}
  <2>1. CASE fate[m] # "accepted"
    BY <2>1 DEF Inv, PlaceInv
  <2>2. ASSUME fate[m] = "accepted", NEW c \in Conn, m \in inbox[c]
        PROVE  holders = {} /\ boxes = {c}
    BY <2>2 DEF Inv, PlaceInv
  <2>3. ASSUME fate[m] = "accepted", NEW w \in Wait, Holds(w, m)
        PROVE  boxes = {} /\ holders = {w}
    BY <2>3 DEF Inv, PlaceInv
  <2>4. fate[m] = "accepted" =>
          (\E c \in Conn : m \in inbox[c]) \/ (\E w \in Wait : Holds(w, m))
    BY DEF Inv, PlaceInv
  <2> QED
    BY <2>1, <2>2, <2>3, <2>4
<1> QED
  BY <1>1, InvIsInvariant, PTL

=============================================================================
