------------------------------- MODULE Relay -------------------------------
(***************************************************************************)
(* The in-memory relay network of ovid_core.relay: mailboxes that agents   *)
(* address by name, blocking waits with filters, and the automatic         *)
(* delivery of messages to an application handler.                         *)
(*                                                                         *)
(* Everything runs on one asyncio event loop.  The functions decorated     *)
(* with @locked have no await in their bodies, so the relay lock is never  *)
(* contended and each of them, with the synchronous code around it, is one *)
(* step.  Steps of different tasks interleave where a task really          *)
(* suspends: on the future of a wait, on the delivery lock of a mailbox    *)
(* and inside the application's handler.                                   *)
(*                                                                         *)
(* Message contents, timestamps and the identifiers' values are left out.  *)
(* Calls that only read (contacts, pending(retain=True), a wait with       *)
(* timeout 0 that finds nothing) and calls on a closed connection, which   *)
(* raise before touching the network, change no state and are no actions.  *)
(***************************************************************************)
EXTENDS Naturals, Sequences, FiniteSets

CONSTANTS
  Address,      \* relay addresses
  Conn,         \* connection objects; each owns exactly one mailbox object
  AddressOf,    \* the address a connection was created with
  Message,      \* calls of send(), each creating one message identifier
  Wait,         \* calls of wait()
  Filter,       \* the <<sender, reply_to>> filters that waits use
  ReplyTo,      \* the values of reply_to that sends use, None included
  Capacity,     \* bound on the messages a mailbox stores
  Disposition,  \* how an application handler may end
  None

ASSUME RelayAssumption ==
  /\ AddressOf \in [Conn -> Address]
  /\ Capacity \in Nat \ {0}
  /\ Disposition \subseteq {"acknowledge", "defer", "cancelled"}
  /\ Filter \subseteq [sender : Address \cup {None}, replyTo : ReplyTo]
  /\ None \in ReplyTo
  /\ None \notin Address \cup Conn \cup Message

VARIABLES
  conn,        \* life of a connection object: "new", "open", "closed"
  mailboxes,   \* the registry: the connection that holds each address
  inbox,       \* stored messages of a mailbox, ordered by `accepted`
  waiters,     \* registered waiters of a mailbox, ordered by `registered`
  reserved,    \* messages a running handler owns
  scheduled,   \* messages that have a delivery task
  handler,     \* whether a delivery handler is installed
  tasks,       \* delivery tasks queued on the mailbox's delivery lock
  delivering,  \* message of the task that holds the delivery lock
  phase,       \* where a wait() call is, or how it returned
  want,        \* connection and filter of a registered wait
  future,      \* state of a wait's asyncio future
  slot,        \* the message stored in that future
  interrupt,   \* timeout or cancellation requested of a waiting task
  envelope,    \* sender address and reply_to of a sent message
  fate,        \* what became of a send() and its message
  accepted,    \* history: accepted messages in order of acceptance
  registered   \* history: registered waits in order of registration

box == <<inbox, waiters, reserved, scheduled, handler, tasks, delivering>>
call == <<phase, want, future, slot, interrupt>>
post == <<envelope, fate, accepted>>
vars == <<conn, mailboxes, box, call, post, registered>>

Pending == "pending"
Calls == [on : Conn, filter : Filter]
Envelopes == [sender : Address, replyTo : ReplyTo]

Init ==
  /\ conn = [c \in Conn |-> "new"]
  /\ mailboxes = [a \in Address |-> None]
  /\ inbox = [c \in Conn |-> {}]
  /\ waiters = [c \in Conn |-> {}]
  /\ reserved = [c \in Conn |-> {}]
  /\ scheduled = [c \in Conn |-> {}]
  /\ handler = [c \in Conn |-> FALSE]
  /\ tasks = [c \in Conn |-> <<>>]
  /\ delivering = [c \in Conn |-> None]
  /\ phase = [w \in Wait |-> "idle"]
  /\ want = [w \in Wait |-> None]
  /\ future = [w \in Wait |-> Pending]
  /\ slot = [w \in Wait |-> None]
  /\ interrupt = [w \in Wait |-> "none"]
  /\ envelope = [m \in Message |-> None]
  /\ fate = [m \in Message |-> "unsent"]
  /\ accepted = <<>>
  /\ registered = <<>>

-----------------------------------------------------------------------------
(* Lists of the code, as sets ordered by a history *)

Before(order, x, y) ==
  \E i, j \in DOMAIN order : i < j /\ order[i] = x /\ order[j] = y

Oldest(order, S) == {x \in S : \A y \in S \ {x} : Before(order, x, y)}

\* The enumeration of S in the given order, each element once: what a loop
\* over the list meets.
InOrder(order, S) ==
  {q \in UNION {[1..n -> S] : n \in 0..Len(order)} :
     /\ \A x \in S : \E i \in DOMAIN q : q[i] = x
     /\ \A i, j \in DOMAIN q : i < j => q[i] # q[j] /\ Before(order, q[i], q[j])}

-----------------------------------------------------------------------------
(* Connections *)

\* Seeded fault: an address is only in use by the same connection.
AddressInUseFault(c) == mailboxes[AddressOf[c]] = c

AddressInUse(c) == mailboxes[AddressOf[c]] # None

Connect(c, h) ==
  /\ conn[c] = "new"
  /\ ~AddressInUse(c)
  /\ conn' = [conn EXCEPT ![c] = "open"]
  /\ mailboxes' = [mailboxes EXCEPT ![AddressOf[c]] = c]
  /\ handler' = [handler EXCEPT ![c] = h]
  /\ UNCHANGED <<inbox, waiters, reserved, scheduled, tasks, delivering,
                 call, post, registered>>

\* _close() stops at the first waiter whose future is already cancelled:
\* set_exception raises there, out of close().
Notified(c) ==
  {w \in waiters[c] : \A v \in waiters[c] :
     (v = w \/ Before(registered, v, w)) => future[v] = Pending}

Close(c) ==
  /\ conn[c] = "open"
  /\ conn' = [conn EXCEPT ![c] = "closed"]
  /\ mailboxes' = [mailboxes EXCEPT ![AddressOf[c]] = None]
  /\ future' = [w \in Wait |->
                  IF w \in Notified(c) THEN "exception" ELSE future[w]]
  /\ UNCHANGED <<box, phase, want, slot, interrupt, post, registered>>

-----------------------------------------------------------------------------
(* Automatic delivery: scheduling *)

Schedule(c, q) ==
  /\ tasks' = [tasks EXCEPT ![c] = @ \o q]
  /\ scheduled' = [scheduled EXCEPT ![c] = @ \cup {q[i] : i \in DOMAIN q}]

\* Seeded fault: a new handler schedules every stored message again.
UnscheduledFault(c) == inbox[c]

\* Seeded fault: a new handler leaves the stored messages alone.
UnscheduledMissing(c) == {}

Unscheduled(c) == inbox[c] \ scheduled[c]

SetHandler(c, h) ==
  /\ conn[c] = "open"
  /\ handler' = [handler EXCEPT ![c] = h]
  /\ IF h THEN \E q \in InOrder(accepted, Unscheduled(c)) : Schedule(c, q)
          ELSE UNCHANGED <<tasks, scheduled>>
  /\ UNCHANGED <<conn, mailboxes, inbox, waiters, reserved, delivering,
                 call, post, registered>>

-----------------------------------------------------------------------------
(* send() *)

Matches(filter, sender, replyTo) ==
  /\ filter.sender \in {None, sender}
  /\ filter.replyTo \in {None, replyTo}

\* Seeded fault: only the first waiter is looked at.
TakersFault(d, sender, r) ==
  {w \in Oldest(registered, waiters[d]) : Matches(want[w].filter, sender, r)}

Takers(d, sender, r) ==
  {w \in waiters[d] : Matches(want[w].filter, sender, r)}

\* Seeded fault: the capacity check is off by one.
FullFault(d) == Cardinality(inbox[d]) > Capacity

Full(d) == Cardinality(inbox[d]) >= Capacity

Post(m, c, r, outcome) ==
  /\ fate[m] = "unsent"
  /\ envelope' = [envelope EXCEPT ![m] = [sender |-> AddressOf[c], replyTo |-> r]]
  /\ fate' = [fate EXCEPT ![m] = outcome]
  /\ accepted' = IF outcome = "accepted" THEN Append(accepted, m) ELSE accepted

\* Seeded fault: a receipt is returned although the future is cancelled.
HandOverFault(w) == "accepted"

\* set_result on a future that was cancelled raises InvalidStateError out of
\* send(), with the waiter off the list and the message nowhere.
HandOver(w) == IF future[w] = Pending THEN "accepted" ELSE "failed"

\* The oldest matching waiter is taken, whatever the state of its future.
SendToWaiter(c, a, m, r) ==
  LET d == mailboxes[a] IN
  /\ conn[c] = "open"
  /\ d # None
  /\ \E w \in Oldest(registered, Takers(d, AddressOf[c], r)) :
       /\ waiters' = [waiters EXCEPT ![d] = @ \ {w}]
       /\ Post(m, c, r, HandOver(w))
       /\ IF future[w] = Pending
            THEN /\ future' = [future EXCEPT ![w] = "result"]
                 /\ slot' = [slot EXCEPT ![w] = m]
            ELSE UNCHANGED <<future, slot>>
  /\ UNCHANGED <<conn, mailboxes, inbox, reserved, scheduled, handler, tasks,
                 delivering, phase, want, interrupt, registered>>

SendToMailbox(c, a, m, r) ==
  LET d == mailboxes[a] IN
  /\ conn[c] = "open"
  /\ d # None
  /\ Takers(d, AddressOf[c], r) = {}
  /\ ~Full(d)
  /\ inbox' = [inbox EXCEPT ![d] = @ \cup {m}]
  /\ Post(m, c, r, "accepted")
  /\ IF handler[d] THEN Schedule(d, <<m>>) ELSE UNCHANGED <<tasks, scheduled>>
  /\ UNCHANGED <<conn, mailboxes, waiters, reserved, handler, delivering,
                 call, registered>>

\* UnknownRelayRecipientError or RelayCapacityError
SendRefused(c, a, m, r) ==
  LET d == mailboxes[a] IN
  /\ conn[c] = "open"
  /\ d # None => Takers(d, AddressOf[c], r) = {} /\ Full(d)
  /\ Post(m, c, r, "refused")
  /\ UNCHANGED <<conn, mailboxes, box, call, registered>>

Send(c, a, m, r) ==
  SendToWaiter(c, a, m, r) \/ SendToMailbox(c, a, m, r) \/ SendRefused(c, a, m, r)

-----------------------------------------------------------------------------
(* wait() and pending() *)

\* wait() and pending() see the messages no handler has reserved.
Visible(c) == inbox[c] \ reserved[c]

Wanted(c, filter) ==
  {m \in Visible(c) : Matches(filter, envelope[m].sender, envelope[m].replyTo)}

WaitTake(w, c, filter) ==
  /\ conn[c] = "open"
  /\ phase[w] = "idle"
  /\ \E m \in Oldest(accepted, Wanted(c, filter)) :
       /\ inbox' = [inbox EXCEPT ![c] = @ \ {m}]
       /\ fate' = [fate EXCEPT ![m] = "consumed"]
  /\ phase' = [phase EXCEPT ![w] = "message"]
  /\ UNCHANGED <<conn, mailboxes, waiters, reserved, scheduled, handler, tasks,
                 delivering, want, future, slot, interrupt, envelope, accepted,
                 registered>>

WaitRegister(w, c, filter) ==
  /\ conn[c] = "open"
  /\ phase[w] = "idle"
  /\ Wanted(c, filter) = {}
  /\ waiters' = [waiters EXCEPT ![c] = @ \cup {w}]
  /\ want' = [want EXCEPT ![w] = [on |-> c, filter |-> filter]]
  /\ phase' = [phase EXCEPT ![w] = "blocked"]
  /\ registered' = Append(registered, w)
  /\ UNCHANGED <<conn, mailboxes, inbox, reserved, scheduled, handler, tasks,
                 delivering, future, slot, interrupt, post>>

\* The timeout fires or the waiting task is cancelled.  The future is
\* cancelled if it is still pending; if it is done the task is only marked,
\* and raises when it next runs.
Interrupt(w, kind) ==
  /\ phase[w] = "blocked"
  /\ \/ interrupt[w] = "none"
     \/ interrupt[w] = "timeout" /\ kind = "cancel"
  /\ interrupt' = [interrupt EXCEPT ![w] = kind]
  /\ future' = [future EXCEPT ![w] = IF @ = Pending THEN "cancelled" ELSE @]
  /\ UNCHANGED <<conn, mailboxes, box, phase, want, slot, post, registered>>

\* Seeded fault: a timeout escapes from wait().
ReturnedFault(w) ==
  IF interrupt[w] # "none" THEN interrupt[w]
  ELSE IF future[w] = "result" THEN "message" ELSE "unavailable"

Returned(w) ==
  CASE interrupt[w] = "timeout" -> "none"
    [] interrupt[w] = "cancel" -> "cancelled"
    [] interrupt[w] = "none" /\ future[w] = "result" -> "message"
    [] OTHER -> "unavailable"

\* Seeded fault: a wait that ends leaves its waiter listed.
RemoveWaiterFault(w) == waiters' = waiters

\* _remove_waiter looks the mailbox up by address: after a close it may find
\* another connection's mailbox, or none.
RemoveWaiter(w) ==
  LET d == mailboxes[AddressOf[want[w].on]] IN
  waiters' = IF d = None THEN waiters ELSE [waiters EXCEPT ![d] = @ \ {w}]

\* The waiting task runs again: it returns and unregisters its waiter.
WaitResume(w) ==
  /\ phase[w] = "blocked"
  /\ future[w] # Pending
  /\ phase' = [phase EXCEPT ![w] = Returned(w)]
  /\ fate' = IF Returned(w) = "message"
               THEN [fate EXCEPT ![slot[w]] = "consumed"] ELSE fate
  /\ RemoveWaiter(w)
  /\ UNCHANGED <<conn, mailboxes, inbox, reserved, scheduled, handler, tasks,
                 delivering, want, future, slot, interrupt, envelope, accepted,
                 registered>>

\* pending(): every visible message is consumed in one step.
TakePending(c) ==
  /\ conn[c] = "open"
  /\ Visible(c) # {}
  /\ inbox' = [inbox EXCEPT ![c] = @ \ Visible(c)]
  /\ fate' = [m \in Message |-> IF m \in Visible(c) THEN "consumed" ELSE fate[m]]
  /\ UNCHANGED <<conn, mailboxes, waiters, reserved, scheduled, handler, tasks,
                 delivering, call, envelope, accepted, registered>>

-----------------------------------------------------------------------------
(* Automatic delivery: the delivery tasks *)

Deliverable(c, m) ==
  /\ mailboxes[AddressOf[c]] = c
  /\ m \in inbox[c]
  /\ handler[c]

\* Seeded fault: a message that is not delivered stays listed as scheduled.
PrepareFault(c) ==
  LET m == Head(tasks[c]) IN
  /\ tasks[c] # <<>>
  /\ delivering[c] = None
  /\ tasks' = [tasks EXCEPT ![c] = Tail(@)]
  /\ IF Deliverable(c, m)
       THEN /\ reserved' = [reserved EXCEPT ![c] = @ \cup {m}]
            /\ delivering' = [delivering EXCEPT ![c] = m]
       ELSE UNCHANGED <<reserved, delivering>>
  /\ UNCHANGED <<conn, mailboxes, inbox, waiters, scheduled, handler, call, post, registered>>

\* The task at the head of the lock's queue acquires it and prepares.
Prepare(c) ==
  LET m == Head(tasks[c]) IN
  /\ tasks[c] # <<>>
  /\ delivering[c] = None
  /\ tasks' = [tasks EXCEPT ![c] = Tail(@)]
  /\ IF Deliverable(c, m)
       THEN /\ reserved' = [reserved EXCEPT ![c] = @ \cup {m}]
            /\ delivering' = [delivering EXCEPT ![c] = m]
            /\ UNCHANGED scheduled
       ELSE /\ scheduled' = [scheduled EXCEPT ![c] = @ \ {m}]
            /\ UNCHANGED <<reserved, delivering>>
  /\ UNCHANGED <<conn, mailboxes, inbox, waiters, handler, call, post, registered>>

\* CancelledError is not an Exception: a handler that raises it skips
\* _finish_delivery, and the message stays reserved and scheduled.
Settles(disposition) == disposition \in {"acknowledge", "defer"}

Finish(c, disposition) ==
  LET m == delivering[c] IN
  /\ m # None
  /\ delivering' = [delivering EXCEPT ![c] = None]
  /\ IF Settles(disposition)
       THEN /\ reserved' = [reserved EXCEPT ![c] = @ \ {m}]
            /\ scheduled' = [scheduled EXCEPT ![c] = @ \ {m}]
       ELSE UNCHANGED <<reserved, scheduled>>
  /\ IF disposition = "acknowledge"
       THEN /\ inbox' = [inbox EXCEPT ![c] = @ \ {m}]
            /\ fate' = [fate EXCEPT ![m] = "consumed"]
       ELSE UNCHANGED <<inbox, fate>>
  /\ UNCHANGED <<conn, mailboxes, waiters, handler, tasks, call, envelope,
                 accepted, registered>>

-----------------------------------------------------------------------------
Next ==
  \/ \E c \in Conn, h \in BOOLEAN : Connect(c, h) \/ SetHandler(c, h)
  \/ \E c \in Conn : Close(c) \/ TakePending(c) \/ Prepare(c)
  \/ \E c \in Conn, disposition \in Disposition : Finish(c, disposition)
  \/ \E c \in Conn, a \in Address, m \in Message, r \in ReplyTo : Send(c, a, m, r)
  \/ \E w \in Wait, c \in Conn, f \in Filter : WaitTake(w, c, f) \/ WaitRegister(w, c, f)
  \/ \E w \in Wait, kind \in {"timeout", "cancel"} : Interrupt(w, kind)
  \/ \E w \in Wait : WaitResume(w)

Spec == Init /\ [][Next]_vars

\* The event loop runs every ready task; the application's handlers return.
\* Callers, timeouts and cancellations are the environment's and are not fair.
Fairness ==
  /\ \A c \in Conn : WF_vars(Prepare(c))
  /\ \A c \in Conn : WF_vars(\E disposition \in Disposition : Finish(c, disposition))
  /\ \A w \in Wait : WF_vars(WaitResume(w))

FairSpec == Spec /\ Fairness

-----------------------------------------------------------------------------
(* Safety *)

\* Types of the variables.
TypeOK ==
  /\ conn \in [Conn -> {"new", "open", "closed"}]
  /\ mailboxes \in [Address -> Conn \cup {None}]
  /\ inbox \in [Conn -> SUBSET Message]
  /\ waiters \in [Conn -> SUBSET Wait]
  /\ reserved \in [Conn -> SUBSET Message]
  /\ scheduled \in [Conn -> SUBSET Message]
  /\ handler \in [Conn -> BOOLEAN]
  /\ tasks \in [Conn -> Seq(Message)]
  /\ delivering \in [Conn -> Message \cup {None}]
  /\ phase \in [Wait -> {"idle", "blocked", "message", "none", "cancelled", "unavailable"}]
  /\ want \in [Wait -> Calls \cup {None}]
  /\ future \in [Wait -> {Pending, "result", "exception", "cancelled"}]
  /\ slot \in [Wait -> Message \cup {None}]
  /\ interrupt \in [Wait -> {"none", "timeout", "cancel"}]
  /\ envelope \in [Message -> Envelopes \cup {None}]
  /\ fate \in [Message -> {"unsent", "refused", "failed", "accepted", "consumed"}]
  /\ accepted \in Seq(Message)
  /\ registered \in Seq(Wait)

\* The registry and the connections agree: an address leads to a connection
\* exactly while that connection is open, also after the address is reused
\* (connection() and _close()).
RegistryMatchesConnections ==
  \A c \in Conn : conn[c] = "open" <=> mailboxes[AddressOf[c]] = c

\* A wait() that has not handed its message to the caller still holds it.
Holds(w, m) == slot[w] = m /\ phase[w] # "message"

\* Accepted messages are neither duplicated nor mislaid by the network: until
\* it is consumed, a message for which the sender has a receipt is in one
\* mailbox or held by one wait; once consumed, or when the send raised, it is
\* in none, so no second reader can get it (_accept_message,
\* _take_matching_message, _pending, _finish_delivery).
MessageInOnePlace ==
  \A m \in Message :
    LET boxes == {c \in Conn : m \in inbox[c]}
        holders == {w \in Wait : Holds(w, m)}
    IN IF fate[m] = "accepted"
         THEN \/ holders = {} /\ \E c \in Conn : boxes = {c}
              \/ boxes = {} /\ \E w \in Wait : holders = {w}
         ELSE boxes = {} /\ holders = {}

\* While a handler runs, its message stays in the mailbox and out of reach of
\* wait(), pending() and other delivery tasks; only a cancelled handler leaves
\* a reservation behind (_prepare_delivery, _finish_delivery).
HandlerOwnsItsMessage ==
  \A c \in Conn :
    /\ delivering[c] # None => delivering[c] \in reserved[c]
    /\ reserved[c] \subseteq inbox[c] \cap scheduled[c]
    /\ "cancelled" \notin Disposition => reserved[c] \subseteq {delivering[c]}

\* A message has at most one delivery task, queued or running, however often
\* the handler is replaced, and `scheduled` lists the messages that have one
\* (_schedule_delivery, _prepare_delivery, _finish_delivery).
OneTaskPerMessage ==
  \A c \in Conn :
    LET queued == {tasks[c][i] : i \in DOMAIN tasks[c]} IN
    /\ \A i, j \in DOMAIN tasks[c] : tasks[c][i] = tasks[c][j] => i = j
    /\ delivering[c] \notin queued
    /\ queued \cup ({delivering[c]} \ {None}) \subseteq scheduled[c]
    /\ "cancelled" \notin Disposition => scheduled[c] \subseteq queued \cup {delivering[c]}

\* Messages under delivery count against the capacity, so a mailbox is bounded
\* through every defer and redelivery (_accept_pending).
MailboxBounded == \A c \in Conn : Cardinality(inbox[c]) <= Capacity

\* Delivery tasks queued behind one another, handlers that are replaced,
\* deferred or cancelled, waits that steal and senders that fill the mailbox
\* leave every delivery with one owner and every mailbox within its bound.
DeliveryIsSound == HandlerOwnsItsMessage /\ OneTaskPerMessage /\ MailboxBounded

\* The waiters an open mailbox lists are calls still blocked on it, none of
\* them answered, and every call still waiting for its future is listed: no
\* message goes to a call that has returned, and no call is forgotten
\* (_matching_waiter, _remove_waiter across close and address reuse).
WaitersAreTheBlockedCalls ==
  \A c \in Conn : conn[c] = "open" =>
    LET blocked == {w \in Wait : phase[w] = "blocked" /\ want[w].on = c} IN
    /\ waiters[c] \subseteq {w \in blocked : future[w] \in {Pending, "cancelled"}}
    /\ {w \in blocked : future[w] = Pending} \subseteq waiters[c]

\* Without deferred deliveries, a message that an active wait would accept is
\* never left lying in the mailbox (_accept_message, _take_or_register_waiter).
WaitersAreServed ==
  "defer" \notin Disposition =>
    \A c \in Conn, w \in Wait :
      w \in waiters[c] /\ future[w] = Pending /\ conn[c] = "open" =>
        Wanted(c, want[w].filter) = {}

-----------------------------------------------------------------------------
(* Liveness *)

\* Every delivery task comes to an end: behind the delivery lock, with its
\* message taken by someone else, with the handler removed or the connection
\* closed (_deliver).
DeliveryTasksEnd ==
  \A c \in Conn, m \in Message : m \in scheduled[c] ~> m \notin scheduled[c]

\* With a handler that acknowledges, no stored message is forgotten, however
\* often the handler is removed and installed again (_set_delivery_handler).
StoredMessagesAreDelivered ==
  \A c \in Conn, m \in Message :
    m \in inbox[c] /\ handler[c] /\ conn[c] = "open"
      ~> m \notin inbox[c] \/ ~handler[c] \/ conn[c] = "closed"

-----------------------------------------------------------------------------
(* What the documentation says and the code does not keep *)

\* "The backend never drops an accepted message silently."
AcceptedIsNotDropped ==
  \A m \in Message : fate[m] = "accepted" =>
    \/ \E c \in Conn : m \in inbox[c]
    \/ \E w \in Wait : Holds(w, m) /\ phase[w] = "blocked"

\* "It wakes active waiters with RelayUnavailableError" (close()).
CloseWakesWaiters ==
  \A w \in Wait :
    phase[w] = "blocked" /\ conn[want[w].on] = "closed" => future[w] # Pending

-----------------------------------------------------------------------------
(* The life of a message, without futures, tasks or the registry *)

Lifecycle == INSTANCE RelayLifecycle WITH
  issued <- {m \in Message : fate[m] # "unsent"},
  pending <- [c \in Conn |-> inbox[c] \ reserved[c]],
  owned <- reserved,
  handed <- {m \in Message : \E w \in Wait : slot[w] = m /\ phase[w] = "blocked"},
  consumed <- {m \in Message : fate[m] = "consumed"},
  dropped <- {m \in Message : \E w \in Wait :
                slot[w] = m /\ phase[w] \in {"none", "cancelled"}}

\* The network implements the lifecycle of RelayLifecycle.
LifecycleSpec == Lifecycle!Spec

=============================================================================
