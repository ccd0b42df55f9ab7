---------------------------- MODULE ServerProofs ----------------------------
(***************************************************************************)
(* What the steps of the server runtime preserve, whatever the transport:  *)
(* the frame lists of a run hold its completion only once its messages are *)
(* stored, the slots and lines of the semaphores agree with the stages of  *)
(* the runs, and a store replaces a history only with a longer one.  The   *)
(* proofs of the transports build on these lemmas.                         *)
(***************************************************************************)
EXTENDS ServerRuntime, SequenceTheorems, FiniteSetTheorems, WellFoundedInduction, TLAPS

Completion == {"run_completed", "run_result"}

\* The stages in which a run has frames to send.
Sends == {"sending", "usage", "failed", "reporting"}

\* The frames that may be under way to the client of r.
Sendable(r) == {f \in Frames : f.kind \in Completion => stored[r]}

\* A frame list per run, with sendable frames only.
Durable(lists) ==
  /\ lists \in [Run -> Seq(Frames)]
  /\ \A r \in Run : lists[r] \in Seq(Sendable(r))

DurableInv ==
  /\ seq \in [Run -> Nat] /\ stored \in [Run -> BOOLEAN]
  /\ Durable(todo) /\ Durable(queue) /\ Durable(got)

-----------------------------------------------------------------------------
\* What was sendable stays so, because `stored` only grows (StoreApplies).
LEMMA SendableGrows ==
  ASSUME NEW r, stored[r] => stored'[r]
  PROVE  Seq(Sendable(r)) \subseteq Seq(Sendable(r)')
<1>1. Sendable(r) \subseteq Sendable(r)'
  BY DEF Sendable, Frames, Completion, Events, Terminals
<1> QED
  BY <1>1, SeqMonotonic

\* Frame lists that a step leaves alone stay durable.
LEMMA KeptIsDurable ==
  ASSUME NEW lists, Durable(lists), \A r \in Run : stored[r] => stored'[r],
         NEW after, after = lists
  PROVE  /\ after \in [Run -> Seq(Frames)]
         /\ \A r \in Run : after[r] \in Seq(Sendable(r)')
<1> SUFFICES ASSUME NEW r \in Run PROVE after[r] \in Seq(Sendable(r)')
  BY DEF Durable
<1> QED
  BY SendableGrows DEF Durable

\* A transport's trailer is no completion.
LEMMA TrailerIsSendable ==
  ASSUME ServerAssumption, NEW r \in Run
  PROVE  Trailer \in Seq(Sendable(r))
<1>1. [kind |-> "end", seq |-> 0] \in Sendable(r)
  BY DEF Sendable, Frames, Events, Terminals, Completion
<1>2. <<>> \in Seq(Sendable(r)) /\ <<[kind |-> "end", seq |-> 0]>> \in Seq(Sendable(r))
  BY <1>1
<1>3. Trailer = <<>> \/ Trailer = <<[kind |-> "end", seq |-> 0]>>
  BY DEF ServerAssumption
<1> QED
  BY <1>2, <1>3

\* Replacing the list of one run by a list of sendable frames.
LEMMA ReplacedIsDurable ==
  ASSUME NEW lists, Durable(lists), NEW r \in Run, NEW new \in Seq(Sendable(r)),
         NEW after, after = [lists EXCEPT ![r] = new], UNCHANGED stored
  PROVE  /\ after \in [Run -> Seq(Frames)]
         /\ \A q \in Run : after[q] \in Seq(Sendable(q)')
<1>1. Sendable(r) \subseteq Frames
  BY DEF Sendable
<1>2. new \in Seq(Frames)
  BY <1>1, SeqMonotonic
<1>3. \A q \in Run : Sendable(q)' = Sendable(q)
  BY DEF Sendable
<1> QED
  BY <1>2, <1>3 DEF Durable

\* The frames of a failure are sendable, and there is at least one
\* (_send_failure).
LEMMA FailureIsSendable ==
  ASSUME ServerAssumption, NEW r \in Run, seq[r] \in Nat,
         NEW error \in {"server_error", "run_cancelled"}
  PROVE  /\ FailureFrames(r, error) \in Seq(Sendable(r))
         /\ FailureFrames(r, error) # <<>>
<1>1. Frame("run_failed", seq[r]) \in Sendable(r) /\ Frame(error, 0) \in Sendable(r)
  BY DEF Sendable, Frame, Frames, Events, Terminals, Completion
<1>2. Trailer \in Seq(Sendable(r))
  BY TrailerIsSendable
<1> DEFINE first == IF last[r] = "event" THEN <<Frame("run_failed", seq[r])>> ELSE <<>>
<1>3. first \in Seq(Sendable(r))
  BY <1>1
<1>4. first \o <<Frame(error, 0)>> \in Seq(Sendable(r)) /\ first \o <<Frame(error, 0)>> # <<>>
  BY <1>1, <1>3
<1> HIDE DEF first
<1>5. /\ (first \o <<Frame(error, 0)>>) \o Trailer \in Seq(Sendable(r))
      /\ (first \o <<Frame(error, 0)>>) \o Trailer # <<>>
  BY <1>2, <1>4
<1> QED
  BY <1>5 DEF FailureFrames, first

\* A send keeps the lists durable when its frames are sendable.
LEMMA PushIsDurable ==
  ASSUME NEW r \in Run, NEW frames, frames \in Seq(Sendable(r)), frames # <<>>,
         NEW blocked, NEW after, Durable(todo), Durable(queue),
         Push(r, frames, blocked, after), UNCHANGED stored
  PROVE  Durable(todo)' /\ Durable(queue)'
<1>1. Head(frames) \in Sendable(r) /\ Tail(frames) \in Seq(Sendable(r))
  BY HeadTailProperties
<1>2. <<>> \in Seq(Sendable(r))
  OBVIOUS
<1>3. \/ todo' = [todo EXCEPT ![r] = <<>>]
      \/ todo' = [todo EXCEPT ![r] = Tail(frames)]
      \/ todo' = [todo EXCEPT ![r] = frames]
  BY DEF Push
<1>4. Durable(todo)'
  BY <1>1, <1>2, <1>3, ReplacedIsDurable DEF Durable
<1>5. Durable(queue)'
  <2>1. CASE UNCHANGED queue
    BY <2>1 DEF Durable, Sendable
  <2>2. CASE queue' = [queue EXCEPT ![r] = Append(@, Head(frames))]
    <3>1. Append(queue[r], Head(frames)) \in Seq(Sendable(r))
      BY <1>1, AppendProperties DEF Durable
    <3>2. queue' = [queue EXCEPT ![r] = Append(queue[r], Head(frames))]
      BY <2>2
    <3> QED
      BY <3>1, <3>2, ReplacedIsDurable DEF Durable
  <2> QED
    BY <2>1, <2>2 DEF Push
<1> QED
  BY <1>4, <1>5

\* Ending a run with an error keeps the lists durable.
LEMMA FailIsDurable ==
  ASSUME ServerAssumption, DurableInv, NEW r \in Run,
         NEW error \in {"server_error", "run_cancelled"},
         Fail(r, error), UNCHANGED <<got, seq, stored>>
  PROVE  DurableInv'
<1>1. seq[r] \in Nat
  BY DEF DurableInv
<1>2. /\ FailureFrames(r, error) \in Seq(Sendable(r))
      /\ FailureFrames(r, error) # <<>>
  BY <1>1, FailureIsSendable
<1>3. Push(r, FailureFrames(r, error), "reporting", "done")
  BY DEF Fail
<1>4. Durable(todo)' /\ Durable(queue)'
  BY <1>2, <1>3, PushIsDurable DEF DurableInv
<1>5. Durable(got)'
  BY DEF DurableInv, Durable, Sendable
<1> QED
  BY <1>4, <1>5 DEF DurableInv

\* Steps that leave the frames and the store alone.
LEMMA QuietIsDurable ==
  ASSUME DurableInv, UNCHANGED <<seq, stored, todo, queue, got>>
  PROVE  DurableInv'
BY DEF DurableInv, Durable, Sendable

\* Sending an ordinary event (events()).
LEMMA EmitIsDurable ==
  ASSUME DurableInv, NEW r \in Run, NEW blocked, NEW after,
         EmitEvent(r, blocked, after)
  PROVE  DurableInv'
<1>1. UNCHANGED <<stored, got>> /\ seq' = [seq EXCEPT ![r] = @ + 1]
  BY DEF EmitEvent, history
<1>2. Frame("event", seq[r]) \in Sendable(r)
  BY DEF DurableInv, Frame, Sendable, Frames, Events, Terminals, Completion
<1>3. Push(r, <<Frame("event", seq[r])>>, blocked, after)
  BY DEF EmitEvent
<1>4. Durable(todo)' /\ Durable(queue)'
  <2>1. /\ <<Frame("event", seq[r])>> \in Seq(Sendable(r))
        /\ <<Frame("event", seq[r])>> # <<>>
    BY <1>2
  <2> QED
    BY <1>1, <1>3, <2>1, PushIsDurable DEF DurableInv
<1>5. Durable(got)'
  BY <1>1 DEF DurableInv, Durable, Sendable
<1>6. seq' \in [Run -> Nat] /\ stored' \in [Run -> BOOLEAN]
  BY <1>1 DEF DurableInv
<1> QED
  BY <1>4, <1>5, <1>6 DEF DurableInv

\* The agent's stream fails.
LEMMA StreamFailsIsDurable ==
  ASSUME ServerAssumption, DurableInv, NEW r \in Run, StreamFails(r)
  PROVE  DurableInv'
<1>1. UNCHANGED <<got, seq, stored>>
  BY DEF StreamFails, history
<1>2. CASE Room(r)
  BY <1>1, <1>2, FailIsDurable DEF StreamFails
<1>3. CASE ~Room(r)
  <2>1. Push(r, <<Frame("run_failed", seq[r])>>, "failed", "failed")
    BY <1>3 DEF StreamFails
  <2>2. Frame("run_failed", seq[r]) \in Sendable(r)
    BY DEF DurableInv, Frame, Sendable, Frames, Events, Terminals, Completion
  <2>3. /\ <<Frame("run_failed", seq[r])>> \in Seq(Sendable(r))
        /\ <<Frame("run_failed", seq[r])>> # <<>>
    BY <2>2
  <2>4. Durable(todo)' /\ Durable(queue)'
    BY <1>1, <2>1, <2>3, PushIsDurable DEF DurableInv
  <2>5. Durable(got)'
    BY <1>1 DEF DurableInv, Durable, Sendable
  <2> QED
    BY <1>1, <2>4, <2>5 DEF DurableInv
<1> QED
  BY <1>2, <1>3

\* The store applies the messages: more becomes sendable.
LEMMA StoreIsDurable ==
  ASSUME DurableInv, NEW r \in Run, StoreApplies(r)
  PROVE  DurableInv'
<1>1. UNCHANGED <<seq, todo, queue, got>> /\ stored' = [stored EXCEPT ![r] = TRUE]
  BY DEF StoreApplies, control, progress
<1>2. \A q \in Run : stored[q] => stored'[q]
  BY <1>1 DEF DurableInv
<1>3. stored' \in [Run -> BOOLEAN]
  BY <1>1 DEF DurableInv
<1>4. Durable(todo)' /\ Durable(queue)' /\ Durable(got)'
  BY <1>1, <1>2, KeptIsDurable DEF DurableInv, Durable
<1> QED
  BY <1>1, <1>3, <1>4 DEF DurableInv

\* The completion of a run whose messages are stored is sendable.
LEMMA CompletionIsSendable ==
  ASSUME ServerAssumption, NEW r \in Run, seq[r] \in Nat, stored[r]
  PROVE  /\ CompletionFrames(r) \in Seq(Sendable(r))
         /\ CompletionFrames(r) # <<>>
<1> DEFINE frames == <<Frame("run_completed", seq[r]), Frame("run_result", 0)>>
<1>1. frames \in Seq(Sendable(r)) /\ frames # <<>>
  <2>1. /\ Frame("run_completed", seq[r]) \in Sendable(r)
        /\ Frame("run_result", 0) \in Sendable(r)
    BY DEF Frame, Sendable, Frames, Events, Terminals, Completion
  <2> QED
    BY <2>1
<1>2. Trailer \in Seq(Sendable(r))
  BY TrailerIsSendable
<1> HIDE DEF frames
<1>3. frames \o Trailer \in Seq(Sendable(r)) /\ frames \o Trailer # <<>>
  BY <1>1, <1>2
<1> QED
  BY <1>3 DEF CompletionFrames, frames

\* The completion is sent by a run whose messages are stored.
LEMMA PersistReturnsIsDurable ==
  ASSUME ServerAssumption, DurableInv, NEW r \in Run, PersistReturns(r)
  PROVE  DurableInv'
<1>1. UNCHANGED <<got, seq, stored>> /\ stored[r]
  BY DEF PersistReturns, progress, history
<1>2. CompletionFrames(r) \in Seq(Sendable(r)) /\ CompletionFrames(r) # <<>>
  BY <1>1, CompletionIsSendable DEF DurableInv
<1>3. Push(r, CompletionFrames(r), "reporting", "done")
  BY DEF PersistReturns
<1>4. Durable(todo)' /\ Durable(queue)'
  BY <1>1, <1>2, <1>3, PushIsDurable DEF DurableInv
<1>5. Durable(got)'
  BY <1>1 DEF DurableInv, Durable, Sendable
<1> QED
  BY <1>1, <1>4, <1>5 DEF DurableInv

\* A run whose turn has come (events()).
LEMMA EnterIsDurable ==
  ASSUME ServerAssumption, DurableInv, NEW r \in Run, Enter(r)
  PROVE  DurableInv'
<1>1. CASE UnknownAgent(r)
  BY <1>1, FailIsDurable DEF UnknownAgent, progress, history
<1>2. CASE JoinLine(r)
  BY <1>2, QuietIsDurable DEF JoinLine, progress, history
<1> QED
  BY <1>1, <1>2 DEF Enter

\* A cancelled or timed-out run (events()).
LEMMA InterruptIsDurable ==
  ASSUME ServerAssumption, DurableInv, NEW r \in Run, InterruptRun(r)
  PROVE  DurableInv'
<1>1. Cause(r) \in {"server_error", "run_cancelled"}
  BY DEF Cause
<1> QED
  BY <1>1, FailIsDurable DEF InterruptRun, progress, history

\* A suspended send whose frame was accepted goes on: it keeps what is still
\* to be sent sendable.
LEMMA ResumeIsDurable ==
  ASSUME ServerAssumption, DurableInv, NEW r \in Run, todo[r] # <<>>, Resume(r),
         UNCHANGED stored
  PROVE  Durable(todo)'
<1>1. Tail(todo[r]) \in Seq(Sendable(r))
  BY HeadTailProperties DEF DurableInv, Durable
<1>2. FailureFrames(r, "server_error") \in Seq(Sendable(r))
  BY FailureIsSendable DEF DurableInv
<1>3. <<>> \in Seq(Sendable(r))
  OBVIOUS
<1>4. \/ todo' = [todo EXCEPT ![r] = Tail(todo[r])]
      \/ todo' = [todo EXCEPT ![r] = FailureFrames(r, "server_error")]
      \/ todo' = [todo EXCEPT ![r] = <<>>]
  BY DEF Resume, DurableInv, Durable
<1> QED
  BY <1>1, <1>2, <1>3, <1>4, ReplacedIsDurable DEF DurableInv, Durable

\* Every step of a run's task keeps the lists durable.
LEMMA RunStepIsDurable ==
  ASSUME ServerAssumption, DurableInv, NEW r \in Run, RunStep(r)
  PROVE  DurableInv'
<1>1. CASE TakeServerSlot(r) \/ TakeAgentSlot(r)
  BY <1>1, QuietIsDurable DEF TakeServerSlot, TakeAgentSlot, progress, history
<1>2. CASE Authorize(r)
  BY <1>2, QuietIsDurable DEF Authorize, history
<1>3. CASE Load(r)
  BY <1>3, QuietIsDurable DEF Load, progress
<1>4. CASE SessionFails(r) \/ PersistFails(r)
  BY <1>4, FailIsDurable DEF SessionFails, PersistFails, progress, history
<1>5. CASE OpenStream(r) \/ StreamEvent(r) \/ StreamResult(r)
  BY <1>5, EmitIsDurable DEF OpenStream, StreamEvent, StreamResult
<1>6. CASE StreamFails(r)
  BY <1>6, StreamFailsIsDurable
<1>7. CASE StoreApplies(r)
  BY <1>7, StoreIsDurable
<1>8. CASE PersistReturns(r)
  BY <1>8, PersistReturnsIsDurable
<1> QED
  BY <1>1, <1>2, <1>3, <1>4, <1>5, <1>6, <1>7, <1>8 DEF RunStep

\* No step of a run's task removes messages from the record of what is stored.
LEMMA RunStepStores ==
  ASSUME DurableInv, NEW r \in Run, RunStep(r)
  PROVE  \A q \in Run : stored[q] => stored'[q]
<1>1. CASE StoreApplies(r)
  BY <1>1 DEF StoreApplies, DurableInv
<1>2. CASE ~StoreApplies(r)
  <2>1. UNCHANGED stored
    BY <1>2 DEF RunStep, TakeServerSlot, TakeAgentSlot, Authorize, Load,
       SessionFails, OpenStream, StreamEvent, StreamResult, EmitEvent,
       StreamFails, PersistReturns, PersistFails, history
  <2> QED
    BY <2>1
<1> QED
  BY <1>1, <1>2

\* The lists of a new server are empty.
LEMMA InitIsDurable ==
  ASSUME RuntimeInit
  PROVE  DurableInv
<1>1. /\ seq = [r \in Run |-> 0] /\ stored = [r \in Run |-> FALSE]
      /\ todo = [r \in Run |-> <<>>] /\ queue = [r \in Run |-> <<>>]
      /\ got = [r \in Run |-> <<>>]
  BY DEF RuntimeInit
<1> QED
  BY <1>1 DEF DurableInv, Durable

\* The invariant implies that what was sent is durable.
LEMMA DurableImplies ==
  ASSUME DurableInv
  PROVE  CompletedIsDurable
<1> SUFFICES ASSUME NEW r \in Run, NEW i \in DOMAIN Sent(r),
                    Sent(r)[i].kind \in Completion
             PROVE  stored[r]
  BY DEF CompletedIsDurable, Completion
<1>1. Sent(r) \in Seq(Sendable(r))
  BY ConcatProperties DEF Sent, DurableInv, Durable
<1>2. Sent(r)[i] \in Sendable(r)
  BY <1>1
<1> QED
  BY <1>2 DEF Sendable

-----------------------------------------------------------------------------
(* Lists without duplicates, from which one element is removed *)

\* No element occurs twice.
Distinct(s) == \A i, j \in 1 .. Len(s) : s[i] = s[j] => i = j

\* A set of natural numbers has a least element.
LEMMA LeastElement ==
  ASSUME NEW I \in SUBSET Nat, I # {}
  PROVE  \E m \in I : \A y \in I : m <= y
<1> DEFINE R == {p \in Nat \X Nat : p[1] < p[2]}
<1>1. R = OpToRel(<, Nat)
  BY DEF OpToRel
<1>2. IsWellFoundedOn(R, Nat)
  BY NatLessThanWellFounded, <1>1
<1>3. PICK m \in I : \A y \in I : <<y, m>> \notin R
  <2> HIDE DEF R
  <2> QED
    BY <1>2, WFMin
<1>4. ASSUME NEW y \in I
      PROVE  m <= y
  <2>1. <<y, m>> \in Nat \X Nat /\ <<y, m>> \notin R
    BY <1>3
  <2>2. ~(y < m)
    BY <2>1
  <2> QED
    BY <2>2
<1> QED
  BY <1>4

\* RemoveFirst takes one occurrence out and moves the elements behind it up.
LEMMA RemovedFirst ==
  ASSUME NEW S, NEW s \in Seq(S), NEW e
  PROVE  \/ /\ \A i \in 1 .. Len(s) : s[i] # e
            /\ RemoveFirst(s, e) = s
         \/ \E k \in 1 .. Len(s) :
              /\ s[k] = e
              /\ RemoveFirst(s, e) \in Seq(S)
              /\ Len(RemoveFirst(s, e)) = Len(s) - 1
              /\ \A i \in 1 .. Len(s) - 1 :
                   RemoveFirst(s, e)[i] = IF i < k THEN s[i] ELSE s[i + 1]
<1>1. CASE \A i \in 1 .. Len(s) : s[i] # e
  BY <1>1 DEF RemoveFirst
<1>2. CASE \E i \in 1 .. Len(s) : s[i] = e
  <2> DEFINE I == {i \in 1 .. Len(s) : s[i] = e}
             k == SelectInSeq(s, LAMBDA v : v = e)
  <2>1. I \subseteq Nat /\ I # {}
    BY <1>2
  <2>2. PICK m \in I : \A y \in I : m <= y
    BY <2>1, LeastElement
  <2>3. Min(I) \in I
    BY <2>2 DEF Min
  <2>4. k = Min(I)
    BY <2>1 DEF SelectInSeq
  <2>5. k \in 1 .. Len(s) /\ s[k] = e
    BY <2>3, <2>4
  <2>6. RemoveFirst(s, e) = SubSeq(s, 1, k - 1) \o SubSeq(s, k + 1, Len(s))
    BY <1>2 DEF RemoveFirst, RemoveAt
  <2> HIDE DEF k
  <2>7. /\ SubSeq(s, 1, k - 1) \in Seq(S) /\ Len(SubSeq(s, 1, k - 1)) = k - 1
        /\ \A i \in 1 .. k - 1 : SubSeq(s, 1, k - 1)[i] = s[i]
    BY <2>5, SubSeqProperties
  <2>8. /\ SubSeq(s, k + 1, Len(s)) \in Seq(S) /\ Len(SubSeq(s, k + 1, Len(s))) = Len(s) - k
        /\ \A i \in 1 .. Len(s) - k : SubSeq(s, k + 1, Len(s))[i] = s[k + i]
    BY <2>5, SubSeqProperties
  <2> DEFINE a == SubSeq(s, 1, k - 1)
             b == SubSeq(s, k + 1, Len(s))
  <2>9. /\ a \o b \in Seq(S) /\ Len(a \o b) = Len(a) + Len(b)
        /\ \A i \in 1 .. Len(a) + Len(b) : (a \o b)[i] = IF i <= Len(a) THEN a[i] ELSE b[i - Len(a)]
    BY <2>7, <2>8, ConcatProperties
  <2>10. RemoveFirst(s, e) = a \o b
    BY <2>6
  <2>11. /\ Len(a) = k - 1 /\ \A i \in 1 .. k - 1 : a[i] = s[i]
         /\ Len(b) = Len(s) - k /\ \A i \in 1 .. Len(s) - k : b[i] = s[k + i]
    BY <2>7, <2>8
  <2> HIDE DEF a, b
  <2> DEFINE c == a \o b
  <2> HIDE DEF c
  <2>12. \A i \in 1 .. Len(s) - 1 : c[i] = IF i < k THEN s[i] ELSE s[i + 1]
    <3> SUFFICES ASSUME NEW i \in 1 .. Len(s) - 1
                 PROVE  c[i] = IF i < k THEN s[i] ELSE s[i + 1]
      OBVIOUS
    <3>1. c[i] = IF i <= Len(a) THEN a[i] ELSE b[i - Len(a)]
      BY <2>5, <2>9, <2>11 DEF c
    <3>2. CASE i < k
      BY <2>5, <2>11, <3>1, <3>2
    <3>3. CASE ~(i < k)
      <4>1. i - Len(a) \in 1 .. Len(s) - k /\ k + (i - Len(a)) = i + 1 /\ ~(i <= Len(a))
        BY <2>5, <2>11, <3>3
      <4> QED
        BY <2>11, <3>1, <3>3, <4>1
    <3> QED
      BY <3>2, <3>3
  <2>13. Len(c) = Len(s) - 1 /\ c \in Seq(S)
    BY <2>5, <2>9, <2>11 DEF c
  <2> DEFINE out == RemoveFirst(s, e)
  <2> HIDE DEF out
  <2>14. /\ s[k] = e /\ out \in Seq(S) /\ Len(out) = Len(s) - 1
         /\ \A i \in 1 .. Len(s) - 1 : out[i] = IF i < k THEN s[i] ELSE s[i + 1]
    BY <2>5, <2>10, <2>12, <2>13 DEF out, c
  <2>15. \E n \in 1 .. Len(s) :
           /\ s[n] = e /\ out \in Seq(S) /\ Len(out) = Len(s) - 1
           /\ \A i \in 1 .. Len(s) - 1 : out[i] = IF i < n THEN s[i] ELSE s[i + 1]
    BY <2>5, <2>14
  <2> QED
    BY <2>15 DEF out
<1> QED
  BY <1>1, <1>2

\* In a list without duplicates nothing is left of the element, the others stay,
\* in their order.
LEMMA RemovedFromDistinct ==
  ASSUME NEW S, NEW s \in Seq(S), Distinct(s), NEW e
  PROVE  /\ RemoveFirst(s, e) \in Seq(S)
         /\ Distinct(RemoveFirst(s, e))
         /\ \A i \in 1 .. Len(RemoveFirst(s, e)) :
              RemoveFirst(s, e)[i] # e /\ \E j \in 1 .. Len(s) : s[j] = RemoveFirst(s, e)[i]
         /\ \A j \in 1 .. Len(s) : s[j] # e =>
              \E i \in 1 .. Len(RemoveFirst(s, e)) : RemoveFirst(s, e)[i] = s[j]
<1>1. CASE /\ \A i \in 1 .. Len(s) : s[i] # e
           /\ RemoveFirst(s, e) = s
  BY <1>1
<1>2. ASSUME NEW k \in 1 .. Len(s), s[k] = e,
             RemoveFirst(s, e) \in Seq(S), Len(RemoveFirst(s, e)) = Len(s) - 1,
             \A i \in 1 .. Len(s) - 1 :
               RemoveFirst(s, e)[i] = IF i < k THEN s[i] ELSE s[i + 1]
      PROVE  /\ Distinct(RemoveFirst(s, e))
             /\ \A i \in 1 .. Len(RemoveFirst(s, e)) :
                  RemoveFirst(s, e)[i] # e /\ \E j \in 1 .. Len(s) : s[j] = RemoveFirst(s, e)[i]
             /\ \A j \in 1 .. Len(s) : s[j] # e =>
                  \E i \in 1 .. Len(RemoveFirst(s, e)) : RemoveFirst(s, e)[i] = s[j]
  <2> DEFINE out == RemoveFirst(s, e)
  <2> HIDE DEF out
  <2>1. Len(s) \in Nat /\ Len(out) = Len(s) - 1
    BY <1>2 DEF out
  <2>2. \A i \in 1 .. Len(s) - 1 : out[i] = IF i < k THEN s[i] ELSE s[i + 1]
    BY <1>2 DEF out
  <2>3. Distinct(out)
    BY <2>1, <2>2 DEF Distinct
  <2>4. \A i \in 1 .. Len(out) : out[i] # e /\ \E j \in 1 .. Len(s) : s[j] = out[i]
    <3> SUFFICES ASSUME NEW i \in 1 .. Len(out)
                 PROVE  out[i] # e /\ \E j \in 1 .. Len(s) : s[j] = out[i]
      OBVIOUS
    <3>1. CASE i < k
      <4>1. out[i] = s[i] /\ i \in 1 .. Len(s) /\ i # k
        BY <2>1, <2>2, <3>1
      <4> QED
        BY <1>2, <4>1 DEF Distinct
    <3>2. CASE ~(i < k)
      <4>1. out[i] = s[i + 1] /\ i + 1 \in 1 .. Len(s) /\ i + 1 # k
        BY <2>1, <2>2, <3>2
      <4> QED
        BY <1>2, <4>1 DEF Distinct
    <3> QED
      BY <3>1, <3>2
  <2>5. \A j \in 1 .. Len(s) : s[j] # e => \E i \in 1 .. Len(out) : out[i] = s[j]
    <3> SUFFICES ASSUME NEW j \in 1 .. Len(s), s[j] # e
                 PROVE  \E i \in 1 .. Len(out) : out[i] = s[j]
      OBVIOUS
    <3>1. j # k
      BY <1>2
    <3>2. CASE j < k
      <4>1. out[j] = s[j] /\ j \in 1 .. Len(out)
        BY <2>1, <2>2, <3>2
      <4> QED
        BY <4>1
    <3>3. CASE j > k
      <4>1. out[j - 1] = s[(j - 1) + 1] /\ j - 1 \in 1 .. Len(out) /\ (j - 1) + 1 = j
        BY <2>1, <2>2, <3>3
      <4> QED
        BY <4>1
    <3> QED
      BY <3>1, <3>2, <3>3, <2>1
  <2> QED
    BY <2>3, <2>4, <2>5 DEF out
<1>3. CASE \E k \in 1 .. Len(s) :
              /\ s[k] = e
              /\ RemoveFirst(s, e) \in Seq(S)
              /\ Len(RemoveFirst(s, e)) = Len(s) - 1
              /\ \A i \in 1 .. Len(s) - 1 :
                   RemoveFirst(s, e)[i] = IF i < k THEN s[i] ELSE s[i + 1]
  BY <1>2, <1>3
<1> QED
  BY <1>1, <1>3, RemovedFirst

-----------------------------------------------------------------------------
(* The slots and the lines of the semaphores *)

Holders(s) == {r \in Run : Holds(r, s)}

\* Where a run waits for a slot of s.
Waiting(s) == IF s = Server THEN "slot" ELSE "agentSlot"

\* A semaphore's free slots and holders add up; a line holds each of its runs
\* once, and only runs that wait for this semaphore.
SlotInv ==
  /\ stage \in [Run -> Stages]
  /\ free \in [Sem -> Nat] /\ line \in [Sem -> Seq(Run)]
  /\ \A s \in Sem :
       /\ IsFiniteSet(Holders(s))
       /\ free[s] + Cardinality(Holders(s)) = Slots[s]
       /\ Distinct(line[s])
       /\ \A i \in 1 .. Len(line[s]) :
            /\ stage[line[s][i]] = Waiting(s)
            /\ s # Server => AgentOf[line[s][i]] = s

\* The stages in which a run neither holds a slot nor waits for one.
Outside == {"new", "queued", "reporting", "done"}

\* A run that moves within its session, or outside of it, keeps what it holds.
LEMMA SlotsKept ==
  ASSUME ServerAssumption, SlotInv, NEW r \in Run, NEW next,
         \/ stage[r] \in InSession /\ next \in InSession
         \/ stage[r] \in Outside /\ next \in Outside,
         stage' = [stage EXCEPT ![r] = next], UNCHANGED slots
  PROVE  SlotInv'
<1>1. stage' \in [Run -> Stages] /\ stage'[r] = next /\ \A q \in Run \ {r} : stage'[q] = stage[q]
  BY DEF SlotInv, Stages, Outside
<1>2. line' = line /\ free' = free
  BY DEF slots
<1>3. \A q \in Run, s \in Sem : Holds(q, s)' <=> Holds(q, s)
  BY <1>1 DEF Holds, InSession, Outside
<1>4. \A s \in Sem : Holders(s)' = Holders(s)
  BY <1>3 DEF Holders
<1>5. \A s \in Sem : \A i \in 1 .. Len(line[s]) : line[s][i] \in Run /\ line[s][i] # r
  BY DEF SlotInv, Waiting, InSession, Outside
<1>6. \A s \in Sem : \A i \in 1 .. Len(line[s]) : stage'[line[s][i]] = stage[line[s][i]]
  BY <1>1, <1>5
<1> QED
  BY <1>1, <1>2, <1>4, <1>6 DEF SlotInv, Waiting

\* A step that leaves stages and slots alone.
LEMMA SlotsQuiet ==
  ASSUME SlotInv, UNCHANGED <<stage, slots>>
  PROVE  SlotInv'
<1>1. \A s \in Sem : Holders(s)' = Holders(s)
  BY DEF Holders, Holds
<1> QED
  BY <1>1 DEF SlotInv, Waiting, slots

\* Leaving the semaphores, wherever the run was.
LEMMA SlotsReleased ==
  ASSUME ServerAssumption, SlotInv, NEW r \in Run, NEW next \in Outside,
         stage' = [stage EXCEPT ![r] = next], Release(r)
  PROVE  SlotInv'
<1>1. stage' \in [Run -> Stages] /\ stage'[r] = next /\ \A q \in Run \ {r} : stage'[q] = stage[q]
  BY DEF SlotInv, Stages, Outside
<1>2. ASSUME NEW s \in Sem
      PROVE  /\ Holders(s)' = Holders(s) \ {r}
             /\ r \in Holders(s) <=> Holds(r, s)
  <2>1. ~Holds(r, s)'
    BY <1>1 DEF Holds, InSession, Outside
  <2>2. \A q \in Run \ {r} : Holds(q, s)' <=> Holds(q, s)
    BY <1>1 DEF Holds
  <2> QED
    BY <2>1, <2>2 DEF Holders
<1>3. ASSUME NEW s \in Sem
      PROVE  /\ IsFiniteSet(Holders(s)') /\ free'[s] \in Nat
             /\ free'[s] + Cardinality(Holders(s)') = Slots[s]
  <2> DEFINE H == Holders(s)
  <2>1. IsFiniteSet(H) /\ free[s] + Cardinality(H) = Slots[s] /\ free[s] \in Nat
    BY DEF SlotInv
  <2>2. free'[s] = IF Holds(r, s) THEN free[s] + 1 ELSE free[s]
    BY DEF Release
  <2>3. Holders(s)' = H \ {r} /\ (r \in H <=> Holds(r, s))
    BY <1>2
  <2>4. /\ IsFiniteSet(H \ {r})
        /\ Cardinality(H \ {r}) = IF r \in H THEN Cardinality(H) - 1 ELSE Cardinality(H)
        /\ Cardinality(H) \in Nat
    BY <2>1, FS_RemoveElement, FS_CardinalityType
  <2> HIDE DEF H
  <2> QED
    BY <2>1, <2>2, <2>3, <2>4
<1>4. ASSUME NEW s \in Sem
      PROVE  /\ line'[s] \in Seq(Run) /\ Distinct(line'[s])
             /\ \A i \in 1 .. Len(line'[s]) :
                  /\ stage'[line'[s][i]] = Waiting(s)
                  /\ s # Server => AgentOf[line'[s][i]] = s
  <2> DEFINE out == RemoveFirst(line[s], r)
  <2>1. line'[s] = out
    BY DEF Release
  <2>2. line[s] \in Seq(Run) /\ Distinct(line[s])
    BY DEF SlotInv
  <2>3. /\ out \in Seq(Run) /\ Distinct(out)
        /\ \A i \in 1 .. Len(out) : out[i] # r /\ \E j \in 1 .. Len(line[s]) : line[s][j] = out[i]
    <3> DEFINE old == line[s]
    <3>1. old \in Seq(Run) /\ Distinct(old)
      BY <2>2
    <3> HIDE DEF old
    <3>2. RemoveFirst(old, r) \in Seq(Run)
      BY ONLY <3>1, RemovedFromDistinct
    <3>3. Distinct(RemoveFirst(old, r))
      BY ONLY <3>1, RemovedFromDistinct
    <3>4. \A i \in 1 .. Len(RemoveFirst(old, r)) : RemoveFirst(old, r)[i] # r
      BY ONLY <3>1, RemovedFromDistinct
    <3>5. \A i \in 1 .. Len(RemoveFirst(old, r)) : \E j \in 1 .. Len(old) : old[j] = RemoveFirst(old, r)[i]
      BY ONLY <3>1, RemovedFromDistinct
    <3> QED
      BY <3>2, <3>3, <3>4, <3>5 DEF old
  <2> HIDE DEF out
  <2>4. ASSUME NEW i \in 1 .. Len(out)
        PROVE  stage'[out[i]] = Waiting(s) /\ (s # Server => AgentOf[out[i]] = s)
    <3>1. out[i] \in Run \ {r}
      BY <2>3
    <3>2. PICK j \in 1 .. Len(line[s]) : line[s][j] = out[i]
      BY <2>3
    <3> QED
      BY <1>1, <3>1, <3>2 DEF SlotInv
  <2>5. \A i \in 1 .. Len(out) : stage'[out[i]] = Waiting(s) /\ (s # Server => AgentOf[out[i]] = s)
    BY <2>4
  <2> QED
    BY <2>1, <2>3, <2>5, Zenon
<1>5. free' = [s \in Sem |-> free'[s]] /\ line' = [s \in Sem |-> line'[s]]
  BY DEF Release
<1>6. free' \in [Sem -> Nat] /\ line' \in [Sem -> Seq(Run)]
  BY <1>3, <1>4, <1>5
<1> QED
  BY <1>1, <1>3, <1>4, <1>6 DEF SlotInv, Waiting

\* A run joins the line of the server's semaphore.
LEMMA SlotsJoined ==
  ASSUME ServerAssumption, SlotInv, NEW r \in Run, stage[r] \in Outside, JoinLine(r)
  PROVE  SlotInv'
<1>1. stage' = [stage EXCEPT ![r] = "slot"] /\ free' = free
  BY DEF JoinLine
<1>2. stage' \in [Run -> Stages] /\ stage'[r] = "slot" /\ \A q \in Run \ {r} : stage'[q] = stage[q]
  BY <1>1 DEF SlotInv, Stages
<1>3. \A q \in Run, s \in Sem : Holds(q, s)' <=> Holds(q, s)
  BY <1>2 DEF Holds, InSession, Outside
<1>4. \A s \in Sem : Holders(s)' = Holders(s)
  BY <1>3 DEF Holders
<1>5. \A s \in Sem : \A i \in 1 .. Len(line[s]) : line[s][i] \in Run \ {r}
  BY DEF SlotInv, Waiting, Outside
<1>6. ASSUME NEW s \in Sem
      PROVE  /\ line'[s] \in Seq(Run) /\ Distinct(line'[s])
             /\ \A i \in 1 .. Len(line'[s]) :
                  /\ stage'[line'[s][i]] = Waiting(s)
                  /\ s # Server => AgentOf[line'[s][i]] = s
  <2>1. line[s] \in Seq(Run) /\ Distinct(line[s])
    BY DEF SlotInv
  <2>2. \A i \in 1 .. Len(line[s]) :
          stage'[line[s][i]] = Waiting(s) /\ (s # Server => AgentOf[line[s][i]] = s)
    BY <1>2, <1>5 DEF SlotInv
  <2>3. CASE s # Server
    <3>1. line'[s] = line[s]
      BY <2>3 DEF JoinLine, SlotInv
    <3> QED
      BY <2>1, <2>2, <3>1
  <2>4. CASE s = Server
    <3> DEFINE old == line[s]
    <3>1. line'[s] = Append(old, r)
      BY <2>4 DEF JoinLine, SlotInv
    <3>2. /\ Append(old, r) \in Seq(Run) /\ Len(Append(old, r)) = Len(old) + 1
          /\ \A i \in 1 .. Len(old) : Append(old, r)[i] = old[i]
          /\ Append(old, r)[Len(old) + 1] = r
      BY <2>1, AppendProperties
    <3>3. \A i \in 1 .. Len(old) : old[i] # r
      BY <1>5
    <3>4. Len(old) \in Nat
      BY <2>1
    <3> DEFINE new == Append(old, r)
    <3>5. stage'[r] = Waiting(s)
      BY <1>2, <2>4 DEF Waiting
    <3> HIDE DEF new, old
    <3>6. Distinct(new)
      BY <2>1, <3>2, <3>3, <3>4 DEF Distinct, new, old
    <3>7. \A i \in 1 .. Len(new) : i \in 1 .. Len(old) \/ i = Len(old) + 1
      BY <3>2, <3>4 DEF new
    <3>8. \A i \in 1 .. Len(new) : stage'[new[i]] = Waiting(s)
      BY <2>2, <3>2, <3>5, <3>7 DEF new, old
    <3> QED
      BY <2>4, <3>1, <3>2, <3>6, <3>8 DEF new
  <2> QED
    BY <2>3, <2>4
<1>7. line' \in [Sem -> Seq(Run)]
  BY <1>6 DEF JoinLine, SlotInv
<1> QED
  BY <1>1, <1>2, <1>4, <1>6, <1>7 DEF SlotInv, Waiting

\* The first of a line leaves it.
LEMMA HeadRemoved ==
  ASSUME NEW S, NEW s \in Seq(S), s # <<>>, Distinct(s)
  PROVE  /\ Tail(s) \in Seq(S) /\ Distinct(Tail(s))
         /\ \A i \in 1 .. Len(Tail(s)) :
              /\ Tail(s)[i] # Head(s)
              /\ \E j \in 1 .. Len(s) : s[j] = Tail(s)[i]
<1>1. /\ Tail(s) \in Seq(S) /\ Len(Tail(s)) = Len(s) - 1
      /\ \A i \in 1 .. Len(Tail(s)) : Tail(s)[i] = s[i + 1]
  BY HeadTailProperties
<1>2. Len(s) \in Nat \ {0} /\ Head(s) = s[1]
  BY EmptySeq
<1> DEFINE t == Tail(s)
<1> HIDE DEF t
<1>3. \A i \in 1 .. Len(t) : i + 1 \in 1 .. Len(s) /\ i + 1 # 1 /\ t[i] = s[i + 1]
  BY <1>1, <1>2 DEF t
<1>4. Distinct(t)
  BY <1>3, <1>2, <1>1 DEF Distinct, t
<1>5. \A i \in 1 .. Len(t) : t[i] # Head(s)
  BY <1>2, <1>3 DEF Distinct
<1> QED
  BY <1>1, <1>3, <1>4, <1>5 DEF t

\* A free slot goes to the first in line.
LEMMA HoldersGrow ==
  ASSUME SlotInv, NEW s \in Sem, NEW r \in Run, r \notin Holders(s), free[s] > 0,
         Holders(s)' = Holders(s) \cup {r}, free'[s] = free[s] - 1
  PROVE  /\ IsFiniteSet(Holders(s)') /\ free'[s] \in Nat
         /\ free'[s] + Cardinality(Holders(s)') = Slots[s]
<1> DEFINE H == Holders(s)
<1>1. IsFiniteSet(H) /\ free[s] + Cardinality(H) = Slots[s] /\ free[s] \in Nat
  BY DEF SlotInv
<1> HIDE DEF H
<1>2. /\ IsFiniteSet(H \cup {r}) /\ Cardinality(H \cup {r}) = Cardinality(H) + 1
      /\ Cardinality(H) \in Nat
  BY <1>1, FS_AddElement, FS_CardinalityType DEF H
<1> QED
  BY <1>1, <1>2 DEF H

\* Once it has the server's slot, a run waits for its agent's.
LEMMA ServerSlotTaken ==
  ASSUME ServerAssumption, SlotInv, NEW r \in Run, TakeServerSlot(r)
  PROVE  SlotInv'
<1> DEFINE a == AgentOf[r]
<1>1. a \in Agent /\ a \in Sem /\ Server \in Sem /\ a # Server
  BY DEF ServerAssumption, Sem
<1>2. /\ stage' = [stage EXCEPT ![r] = "agentSlot"] /\ stage[r] = "slot"
      /\ free' = [free EXCEPT ![Server] = @ - 1]
      /\ line' = [line EXCEPT ![Server] = Tail(@), ![a] = Append(@, r)]
      /\ line[Server] # <<>> /\ Head(line[Server]) = r /\ free[Server] > 0
  BY DEF TakeServerSlot, FirstInLine
<1> HIDE DEF a
<1>3. stage' \in [Run -> Stages] /\ stage'[r] = "agentSlot" /\ \A q \in Run \ {r} : stage'[q] = stage[q]
  BY <1>2 DEF SlotInv, Stages
<1>4. \A q \in Run \ {r}, s \in Sem : Holds(q, s)' <=> Holds(q, s)
  BY <1>3 DEF Holds
<1>5. \A s \in Sem : Holds(r, s)' <=> s = Server
  BY <1>3 DEF Holds, InSession
<1>6. \A s \in Sem : ~Holds(r, s)
  BY <1>2 DEF Holds, InSession
<1>7. ASSUME NEW s \in Sem
      PROVE  /\ IsFiniteSet(Holders(s)') /\ free'[s] \in Nat
             /\ free'[s] + Cardinality(Holders(s)') = Slots[s]
  <2>1. CASE s = Server
    <3>1. Holders(s)' = Holders(s) \cup {r} /\ r \notin Holders(s)
      BY <1>4, <1>5, <1>6, <2>1 DEF Holders
    <3>2. free'[s] = free[s] - 1 /\ free[s] > 0
      BY <1>2, <2>1 DEF SlotInv
    <3> QED
      BY <3>1, <3>2, HoldersGrow
  <2>2. CASE s # Server
    <3>1. Holders(s)' = Holders(s)
      BY <1>4, <1>5, <1>6, <2>2 DEF Holders
    <3>2. free'[s] = free[s]
      BY <1>2, <2>2 DEF SlotInv
    <3> QED
      BY <3>1, <3>2 DEF SlotInv
  <2> QED
    BY <2>1, <2>2
<1>8. \A s \in Sem : line[s] \in Seq(Run) /\ Distinct(line[s])
  BY DEF SlotInv
<1>9. \A s \in Sem \ {Server} : \A i \in 1 .. Len(line[s]) : line[s][i] \in Run \ {r}
  BY <1>2, <1>8 DEF SlotInv, Waiting
<1>10. ASSUME NEW s \in Sem
       PROVE  /\ line'[s] \in Seq(Run) /\ Distinct(line'[s])
              /\ \A i \in 1 .. Len(line'[s]) :
                   /\ stage'[line'[s][i]] = Waiting(s)
                   /\ s # Server => AgentOf[line'[s][i]] = s
  <2> DEFINE old == line[s]
  <2>1. old \in Seq(Run) /\ Distinct(old)
    BY <1>8
  <2>2. CASE s = Server
    <3>1. line'[s] = Tail(old) /\ old # <<>> /\ Head(old) = r
      BY <1>1, <1>2, <2>2 DEF SlotInv
    <3> HIDE DEF old
    <3>2. /\ Tail(old) \in Seq(Run) /\ Distinct(Tail(old))
          /\ \A i \in 1 .. Len(Tail(old)) :
               Tail(old)[i] # r /\ \E j \in 1 .. Len(old) : old[j] = Tail(old)[i]
      BY <2>1, <3>1, HeadRemoved
    <3> DEFINE new == Tail(old)
    <3> HIDE DEF new
    <3>3. \A i \in 1 .. Len(new) : new[i] \in Run \ {r} /\ \E j \in 1 .. Len(old) : old[j] = new[i]
      BY <3>2 DEF new
    <3>4. \A j \in 1 .. Len(old) : stage[old[j]] = Waiting(s)
      BY DEF old, SlotInv
    <3>5. \A i \in 1 .. Len(new) : stage'[new[i]] = Waiting(s)
      BY <1>3, <3>3, <3>4
    <3> QED
      BY <2>2, <3>1, <3>2, <3>5 DEF new
  <2>3. CASE s = a
    <3>1. line'[s] = Append(old, r)
      BY <1>1, <1>2, <2>3 DEF SlotInv
    <3>2. \A i \in 1 .. Len(old) :
            old[i] \in Run \ {r} /\ stage[old[i]] = Waiting(s) /\ AgentOf[old[i]] = s
      BY <1>1, <1>9, <2>3 DEF SlotInv
    <3> HIDE DEF old
    <3>3. /\ Append(old, r) \in Seq(Run) /\ Len(Append(old, r)) = Len(old) + 1
          /\ \A i \in 1 .. Len(old) : Append(old, r)[i] = old[i]
          /\ Append(old, r)[Len(old) + 1] = r
      BY <2>1, AppendProperties
    <3> DEFINE new == Append(old, r)
    <3>4. Len(old) \in Nat
      BY <2>1
    <3>5. stage'[r] = Waiting(s) /\ AgentOf[r] = s
      BY <1>1, <1>3, <2>3 DEF Waiting, a
    <3> HIDE DEF new
    <3>6. Distinct(new)
      BY <2>1, <3>2, <3>3, <3>4 DEF Distinct, new
    <3>7. \A i \in 1 .. Len(new) : i \in 1 .. Len(old) \/ i = Len(old) + 1
      BY <3>3, <3>4 DEF new
    <3>8. \A i \in 1 .. Len(old) : stage'[old[i]] = Waiting(s) /\ AgentOf[old[i]] = s
      BY <1>3, <3>2
    <3>9. \A i \in 1 .. Len(new) : stage'[new[i]] = Waiting(s) /\ AgentOf[new[i]] = s
      BY <3>3, <3>5, <3>7, <3>8 DEF new
    <3> QED
      BY <3>1, <3>3, <3>6, <3>9 DEF new
  <2>4. CASE s # Server /\ s # a
    <3>1. line'[s] = old
      BY <1>2, <2>4 DEF SlotInv
    <3>2. \A i \in 1 .. Len(old) :
            old[i] \in Run \ {r} /\ stage[old[i]] = Waiting(s) /\ AgentOf[old[i]] = s
      BY <1>9, <2>4 DEF SlotInv
    <3> QED
      BY <1>3, <2>1, <3>1, <3>2
  <2> QED
    BY <2>2, <2>3, <2>4
<1>11. line' \in [Sem -> Seq(Run)] /\ free' \in [Sem -> Nat]
  <2>1. DOMAIN line' = Sem /\ line' = [s \in Sem |-> line'[s]]
    BY <1>2 DEF SlotInv
  <2>2. DOMAIN free' = Sem /\ free' = [s \in Sem |-> free'[s]]
    BY <1>2 DEF SlotInv
  <2> QED
    BY <1>7, <1>10, <2>1, <2>2
<1> QED
  BY <1>3, <1>7, <1>10, <1>11 DEF SlotInv, Waiting

\* With the agent's slot a run is in its session.
LEMMA AgentSlotTaken ==
  ASSUME ServerAssumption, SlotInv, NEW r \in Run, TakeAgentSlot(r)
  PROVE  SlotInv'
<1> DEFINE a == AgentOf[r]
<1>1. a \in Agent /\ a \in Sem /\ Server \in Sem /\ a # Server
  BY DEF ServerAssumption, Sem
<1>2. /\ stage' = [stage EXCEPT ![r] = "authorizing"] /\ stage[r] = "agentSlot"
      /\ free' = [free EXCEPT ![a] = @ - 1]
      /\ line' = [line EXCEPT ![a] = Tail(@)]
      /\ line[a] # <<>> /\ Head(line[a]) = r /\ free[a] > 0
  BY DEF TakeAgentSlot, FirstInLine
<1>3. stage' \in [Run -> Stages] /\ stage'[r] = "authorizing" /\ \A q \in Run \ {r} : stage'[q] = stage[q]
  BY <1>2 DEF SlotInv, Stages, InSession
<1>4. \A q \in Run \ {r}, s \in Sem : Holds(q, s)' <=> Holds(q, s)
  BY <1>3 DEF Holds
<1>5. \A s \in Sem : Holds(r, s)' <=> s \in {Server, a}
  BY <1>3 DEF Holds, InSession
<1>6. \A s \in Sem : Holds(r, s) <=> s = Server
  BY <1>2 DEF Holds, InSession
<1> HIDE DEF a
<1>7. ASSUME NEW s \in Sem
      PROVE  /\ IsFiniteSet(Holders(s)') /\ free'[s] \in Nat
             /\ free'[s] + Cardinality(Holders(s)') = Slots[s]
  <2>1. CASE s = a
    <3>1. Holders(s)' = Holders(s) \cup {r} /\ r \notin Holders(s)
      BY <1>1, <1>4, <1>5, <1>6, <2>1 DEF Holders
    <3>2. free'[s] = free[s] - 1 /\ free[s] > 0
      BY <1>2, <2>1 DEF SlotInv
    <3> QED
      BY <3>1, <3>2, HoldersGrow
  <2>2. CASE s # a
    <3>1. Holders(s)' = Holders(s)
      BY <1>4, <1>5, <1>6, <2>2 DEF Holders
    <3>2. free'[s] = free[s]
      BY <1>2, <2>2 DEF SlotInv
    <3> QED
      BY <3>1, <3>2 DEF SlotInv
  <2> QED
    BY <2>1, <2>2
<1>8. \A s \in Sem : line[s] \in Seq(Run) /\ Distinct(line[s])
  BY DEF SlotInv
<1>9. \A s \in Sem \ {a} : \A i \in 1 .. Len(line[s]) : line[s][i] \in Run \ {r}
  BY <1>2, <1>8 DEF SlotInv, Waiting, a
<1>10. ASSUME NEW s \in Sem
       PROVE  /\ line'[s] \in Seq(Run) /\ Distinct(line'[s])
              /\ \A i \in 1 .. Len(line'[s]) :
                   /\ stage'[line'[s][i]] = Waiting(s)
                   /\ s # Server => AgentOf[line'[s][i]] = s
  <2> DEFINE old == line[s]
  <2>1. old \in Seq(Run) /\ Distinct(old)
    BY <1>8
  <2>2. \A j \in 1 .. Len(old) : stage[old[j]] = Waiting(s) /\ (s # Server => AgentOf[old[j]] = s)
    BY DEF SlotInv
  <2>3. CASE s = a
    <3>1. line'[s] = Tail(old) /\ old # <<>> /\ Head(old) = r
      BY <1>1, <1>2, <2>3 DEF SlotInv
    <3> HIDE DEF old
    <3>2. /\ Tail(old) \in Seq(Run) /\ Distinct(Tail(old))
          /\ \A i \in 1 .. Len(Tail(old)) :
               Tail(old)[i] # r /\ \E j \in 1 .. Len(old) : old[j] = Tail(old)[i]
      BY <2>1, <3>1, HeadRemoved
    <3> DEFINE new == Tail(old)
    <3> HIDE DEF new
    <3>3. \A i \in 1 .. Len(new) : new[i] \in Run \ {r} /\ \E j \in 1 .. Len(old) : old[j] = new[i]
      BY <3>2 DEF new
    <3>4. \A i \in 1 .. Len(new) : stage'[new[i]] = Waiting(s) /\ (s # Server => AgentOf[new[i]] = s)
      BY <1>3, <3>3, <2>2
    <3> QED
      BY <3>1, <3>2, <3>4 DEF new
  <2>4. CASE s # a
    <3>1. line'[s] = old
      BY <1>2, <2>4 DEF SlotInv
    <3>2. \A i \in 1 .. Len(old) : old[i] \in Run \ {r}
      BY <1>9, <2>4
    <3> QED
      BY <1>3, <2>1, <2>2, <3>1, <3>2
  <2> QED
    BY <2>3, <2>4
<1>11. line' \in [Sem -> Seq(Run)] /\ free' \in [Sem -> Nat]
  <2>1. DOMAIN line' = Sem /\ line' = [s \in Sem |-> line'[s]]
    BY <1>2 DEF SlotInv
  <2>2. DOMAIN free' = Sem /\ free' = [s \in Sem |-> free'[s]]
    BY <1>2 DEF SlotInv
  <2> QED
    BY <1>7, <1>10, <2>1, <2>2
<1> QED
  BY <1>3, <1>7, <1>10, <1>11 DEF SlotInv, Waiting

\* A send ends in one of its two stages.
LEMMA PushStage ==
  ASSUME NEW r, NEW frames, NEW blocked, NEW after, Push(r, frames, blocked, after)
  PROVE  \E next \in {blocked, after} : stage' = [stage EXCEPT ![r] = next]
BY DEF Push

\* A run that fails gives back what it holds.
LEMMA FailSlots ==
  ASSUME ServerAssumption, SlotInv, NEW r \in Run, NEW error, Fail(r, error)
  PROVE  SlotInv'
<1>1. PICK next \in {"reporting", "done"} : stage' = [stage EXCEPT ![r] = next]
  BY PushStage DEF Fail
<1> QED
  BY <1>1, SlotsReleased DEF Fail, Outside

LEMMA EnterSlots ==
  ASSUME ServerAssumption, SlotInv, NEW r \in Run, stage[r] \in Outside, Enter(r)
  PROVE  SlotInv'
BY SlotsJoined, FailSlots DEF Enter, UnknownAgent

\* An event is sent within the session.
LEMMA EmitSlots ==
  ASSUME ServerAssumption, SlotInv, NEW r \in Run, stage[r] \in InSession,
         NEW blocked \in InSession, NEW after \in InSession, EmitEvent(r, blocked, after)
  PROVE  SlotInv'
<1>1. PICK next \in {blocked, after} : stage' = [stage EXCEPT ![r] = next]
  BY PushStage DEF EmitEvent
<1> QED
  BY <1>1, SlotsKept DEF EmitEvent

\* A send that was suspended goes on in the session, or outside of it.
LEMMA ResumeSlots ==
  ASSUME ServerAssumption, SlotInv, NEW r \in Run, stage[r] \in Sends, Resume(r)
  PROVE  SlotInv'
<1>1. CASE UNCHANGED <<stage, slots>>
  BY <1>1, SlotsQuiet
<1>2. CASE stage' = [stage EXCEPT ![r] = "reporting"] /\ Release(r)
  BY <1>2, SlotsReleased DEF Outside
<1>3. CASE /\ stage[r] # "failed" /\ UNCHANGED slots
           /\ stage' = [stage EXCEPT ![r] =
                          CASE @ = "sending" -> "streaming"
                            [] @ = "usage" -> "persisting"
                            [] @ = "reporting" -> "done"]
  <2>1. CASE stage[r] = "sending"
    <3>1. stage' = [stage EXCEPT ![r] = "streaming"]
      BY <1>3, <2>1
    <3> QED
      BY <1>3, <2>1, <3>1, SlotsKept DEF InSession
  <2>2. CASE stage[r] = "usage"
    <3>1. stage' = [stage EXCEPT ![r] = "persisting"]
      BY <1>3, <2>2
    <3> QED
      BY <1>3, <2>2, <3>1, SlotsKept DEF InSession
  <2>3. CASE stage[r] = "reporting"
    <3>1. stage' = [stage EXCEPT ![r] = "done"]
      BY <1>3, <2>3
    <3> QED
      BY <1>3, <2>3, <3>1, SlotsKept DEF Outside
  <2> QED
    BY <1>3, <2>1, <2>2, <2>3 DEF Sends
<1> QED
  BY <1>1, <1>2, <1>3 DEF Resume

\* Every step of a run's task keeps the slots.
LEMMA RunStepSlots ==
  ASSUME ServerAssumption, SlotInv, NEW r \in Run, RunStep(r)
  PROVE  SlotInv'
<1>1. CASE TakeServerSlot(r)
  BY <1>1, ServerSlotTaken
<1>2. CASE TakeAgentSlot(r)
  BY <1>2, AgentSlotTaken
<1>3. CASE Authorize(r)
  BY <1>3, SlotsKept DEF Authorize, InSession
<1>4. CASE Load(r)
  BY <1>4, SlotsKept DEF Load, InSession
<1>5. CASE SessionFails(r) \/ PersistFails(r)
  BY <1>5, FailSlots DEF SessionFails, PersistFails
<1>6. CASE OpenStream(r) \/ StreamEvent(r)
  <2>1. stage[r] \in InSession /\ EmitEvent(r, "sending", "streaming")
    BY <1>6 DEF OpenStream, StreamEvent, InSession
  <2> QED
    BY <2>1, EmitSlots DEF InSession
<1>7. CASE StreamResult(r)
  BY <1>7, EmitSlots DEF StreamResult, InSession
<1>8. CASE StreamFails(r)
  <2>1. CASE Room(r)
    BY <1>8, <2>1, FailSlots DEF StreamFails
  <2>2. CASE ~Room(r)
    <3>1. /\ Push(r, <<Frame("run_failed", seq[r])>>, "failed", "failed")
          /\ UNCHANGED slots /\ stage[r] = "streaming"
      BY <1>8, <2>2 DEF StreamFails
    <3>2. stage' = [stage EXCEPT ![r] = "failed"]
      BY <3>1, PushStage
    <3> QED
      BY <3>1, <3>2, SlotsKept DEF InSession
  <2> QED
    BY <2>1, <2>2
<1>9. CASE StoreApplies(r)
  BY <1>9, SlotsQuiet DEF StoreApplies, control
<1>10. CASE PersistReturns(r)
  <2>1. PICK next \in {"reporting", "done"} : stage' = [stage EXCEPT ![r] = next]
    BY <1>10, PushStage DEF PersistReturns
  <2> QED
    BY <1>10, <2>1, SlotsReleased DEF PersistReturns, Outside
<1> QED
  BY <1>1, <1>2, <1>3, <1>4, <1>5, <1>6, <1>7, <1>8, <1>9, <1>10 DEF RunStep

\* A new server has all its slots.
LEMMA InitSlots ==
  ASSUME ServerAssumption, RuntimeInit
  PROVE  SlotInv
<1>1. /\ stage = [r \in Run |-> "new"] /\ free = Slots /\ line = [s \in Sem |-> <<>>]
      /\ Slots \in [Sem -> Nat]
  BY DEF RuntimeInit, ServerAssumption
<1>2. \A s \in Sem : Holders(s) = {}
  BY <1>1 DEF Holders, Holds, InSession
<1>3. ASSUME NEW s \in Sem
      PROVE  IsFiniteSet(Holders(s)) /\ free[s] + Cardinality(Holders(s)) = Slots[s]
  <2>1. Holders(s) = {} /\ free[s] = Slots[s] /\ Slots[s] \in Nat
    BY <1>1, <1>2
  <2>2. IsFiniteSet({}) /\ Cardinality({}) = 0
    BY FS_EmptySet
  <2> QED
    BY <2>1, <2>2
<1>4. stage \in [Run -> Stages] /\ free \in [Sem -> Nat] /\ line \in [Sem -> Seq(Run)]
  BY <1>1 DEF Stages
<1>5. \A s \in Sem : line[s] = <<>> /\ Len(line[s]) = 0
  BY <1>1
<1>6. \A s \in Sem : Distinct(line[s])
  BY <1>5 DEF Distinct
<1>7. \A s \in Sem : \A i \in 1 .. Len(line[s]) : FALSE
  BY <1>5
<1> QED
  BY <1>3, <1>4, <1>6, <1>7 DEF SlotInv

LEMMA SlotsImply ==
  ASSUME SlotInv
  PROVE  SlotsAreConserved
<1>1. \A s \in Sem : free[s] + Cardinality({r \in Run : Holds(r, s)}) = Slots[s]
  BY DEF SlotInv, Holders
<1>2. ASSUME NEW s \in Sem, NEW i \in DOMAIN line[s]
      PROVE  stage[line[s][i]] = IF s = Server THEN "slot" ELSE "agentSlot"
  <2>1. i \in 1 .. Len(line[s])
    BY <1>2 DEF SlotInv
  <2> QED
    BY <2>1 DEF SlotInv, Waiting
<1> QED
  BY <1>1, <1>2 DEF SlotsAreConserved

-----------------------------------------------------------------------------
(* Types of the variables that neither frames nor slots are about *)

RunTypes ==
  /\ cancelled \in [Run -> BOOLEAN] /\ terminal \in [Run -> BOOLEAN]
  /\ kick \in [Run -> BOOLEAN] /\ gone \in [Run -> BOOLEAN]
  /\ authorized \in [Run -> BOOLEAN]
  /\ last \in [Run -> {"none", "event", "failed"}]
  /\ store \in [Conversation -> Seq(Run)] /\ loaded \in [Run -> Seq(Run)]

\* Failing, and emitting an event, set flags.
LEMMA FailTypes ==
  ASSUME RunTypes, NEW r \in Run, NEW error, Fail(r, error),
         UNCHANGED <<cancelled, gone, authorized, store, loaded>>,
         last' \in [Run -> {"none", "event", "failed"}]
  PROVE  RunTypes'
BY DEF RunTypes, Fail

LEMMA EnterTypes ==
  ASSUME RunTypes, NEW r \in Run, Enter(r)
  PROVE  RunTypes'
<1>1. CASE UnknownAgent(r)
  <2>1. /\ \E error : Fail(r, error)
        /\ UNCHANGED <<cancelled, gone, authorized, last, store, loaded>>
    BY <1>1 DEF UnknownAgent, progress, history
  <2> QED
    BY <2>1, FailTypes DEF RunTypes
<1>2. CASE JoinLine(r)
  <2>1. UNCHANGED <<cancelled, terminal, kick, gone, authorized, last, store, loaded>>
    BY <1>2 DEF JoinLine, progress, history
  <2> QED
    BY <2>1 DEF RunTypes
<1> QED
  BY <1>1, <1>2 DEF Enter

LEMMA EmitTypes ==
  ASSUME RunTypes, NEW r \in Run, NEW blocked, NEW after, EmitEvent(r, blocked, after)
  PROVE  RunTypes'
BY DEF RunTypes, EmitEvent, history

LEMMA InterruptTypes ==
  ASSUME RunTypes, NEW r \in Run, InterruptRun(r)
  PROVE  RunTypes'
<1>1. UNCHANGED <<cancelled, gone, authorized, last, store, loaded>>
  BY DEF InterruptRun, progress, history
<1> QED
  BY <1>1, FailTypes DEF InterruptRun, RunTypes

LEMMA RunStepTypes ==
  ASSUME ServerAssumption, RunTypes, NEW r \in Run, RunStep(r)
  PROVE  RunTypes'
<1>1. CASE TakeServerSlot(r) \/ TakeAgentSlot(r)
  BY <1>1 DEF TakeServerSlot, TakeAgentSlot, RunTypes, progress, history
<1>2. CASE Authorize(r)
  BY <1>2 DEF Authorize, RunTypes, history
<1>3. CASE Load(r)
  <2>1. store[ConversationOf[r]] \in Seq(Run)
    BY DEF RunTypes, ServerAssumption
  <2> QED
    BY <1>3, <2>1 DEF Load, RunTypes, progress
<1>4. CASE SessionFails(r) \/ PersistFails(r)
  <2>1. UNCHANGED <<cancelled, gone, authorized, last, store, loaded>>
    BY <1>4 DEF SessionFails, PersistFails, progress, history
  <2> QED
    BY <1>4, <2>1, FailTypes DEF SessionFails, PersistFails, RunTypes
<1>5. CASE OpenStream(r) \/ StreamEvent(r) \/ StreamResult(r)
  BY <1>5, EmitTypes DEF OpenStream, StreamEvent, StreamResult
<1>6. CASE StreamFails(r)
  <2>1. /\ UNCHANGED <<cancelled, gone, authorized, store, loaded>>
        /\ last' \in [Run -> {"none", "event", "failed"}]
    BY <1>6 DEF StreamFails, history, RunTypes
  <2>2. CASE Room(r)
    BY <1>6, <2>1, <2>2, FailTypes DEF StreamFails
  <2>3. CASE ~Room(r)
    BY <1>6, <2>1, <2>3 DEF StreamFails, RunTypes
  <2> QED
    BY <2>2, <2>3
<1>7. CASE StoreApplies(r)
  <2>1. store[ConversationOf[r]] \in Seq(Run) /\ loaded[r] \in Seq(Run)
    BY DEF RunTypes, ServerAssumption
  <2>2. Written(r) \in Seq(Run)
    BY <2>1, AppendProperties DEF Written
  <2> QED
    BY <1>7, <2>2 DEF StoreApplies, RunTypes, control, progress
<1>8. CASE PersistReturns(r)
  <2>1. /\ UNCHANGED <<cancelled, kick, gone, authorized, last, store, loaded>>
        /\ terminal' = [terminal EXCEPT ![r] = TRUE]
    BY <1>8 DEF PersistReturns, progress, history
  <2> QED
    BY <2>1 DEF RunTypes
<1> QED
  BY <1>1, <1>2, <1>3, <1>4, <1>5, <1>6, <1>7, <1>8 DEF RunStep

LEMMA InitTypes ==
  ASSUME RuntimeInit
  PROVE  RunTypes
BY DEF RuntimeInit, RunTypes

\* Together the invariants give the types of the runtime.
LEMMA TypesImply ==
  ASSUME DurableInv, SlotInv, RunTypes
  PROVE  RuntimeTypeOK
<1>1. \A r \in Run : \A f \in {todo[r], queue[r], got[r]} : f \in Seq(Frames)
  BY DEF DurableInv, Durable
<1>2. \A f \in {cancelled, terminal, kick, gone, authorized, stored} : f \in [Run -> BOOLEAN]
  BY DEF RunTypes, DurableInv
<1> QED
  BY <1>1, <1>2 DEF RuntimeTypeOK, DurableInv, SlotInv, RunTypes
-----------------------------------------------------------------------------
(* The outcome of a run *)

Some(s, kinds) == \E i \in 1 .. Len(s) : s[i].kind \in kinds

\* AnswerOf for a list of frames.
AnswerIn(s) ==
  LET kinds == {s[i].kind : i \in DOMAIN s}
  IN IF "run_result" \in kinds THEN "result"
     ELSE IF kinds \cap Terminals # {} THEN "error" ELSE "none"

\* Short lists, joined.
LEMMA Pair ==
  ASSUME NEW S, NEW f \in S, NEW g \in S
  PROVE  /\ <<f>> \o <<g>> = <<f, g>> /\ Len(<<f, g>>) = 2
         /\ <<f, g>>[1] = f /\ <<f, g>>[2] = g /\ <<f, g>> \in Seq(S)
<1> DEFINE x == <<f>>
           y == <<g>>
           v == <<f, g>>
           u == x \o y
<1>1. x \in Seq(S) /\ y \in Seq(S) /\ Len(x) = 1 /\ Len(y) = 1 /\ x[1] = f /\ y[1] = g
  OBVIOUS
<1>2. v \in Seq(S) /\ Len(v) = 2 /\ v[1] = f /\ v[2] = g
  OBVIOUS
<1> HIDE DEF x, y, v
<1>3. u \in Seq(S) /\ Len(u) = 2 /\ u[1] = f /\ u[2] = g
  <2>1. /\ u \in Seq(S) /\ Len(u) = Len(x) + Len(y)
        /\ \A i \in 1 .. Len(x) + Len(y) : u[i] = IF i <= Len(x) THEN x[i] ELSE y[i - Len(x)]
    BY <1>1, ConcatProperties
  <2> HIDE DEF u
  <2>2. \A i \in 1 .. 2 : u[i] = IF i <= 1 THEN x[i] ELSE y[i - 1]
    BY <1>1, <2>1
  <2>3. u[1] = x[1] /\ u[2] = y[1]
    BY <2>2
  <2> QED
    BY <1>1, <2>1, <2>3
<1> HIDE DEF u
<1>4. u = v
  BY <1>2, <1>3, SeqEqual
<1> QED
  BY <1>2, <1>4 DEF u, v, x, y

\* The first terminal frame is the answer.
LEMMA AnswerGrows ==
  ASSUME NEW s \in Seq(Frames), NEW f \in Frames, f.kind \in Terminals => ~Some(s, Terminals)
  PROVE  /\ AnswerIn(s) # "none" <=> Some(s, Terminals)
         /\ f.kind \notin Terminals => AnswerIn(Append(s, f)) = AnswerIn(s)
         /\ f.kind \in Terminals =>
              /\ AnswerIn(s) = "none"
              /\ AnswerIn(Append(s, f)) = IF f.kind = "run_result" THEN "result" ELSE "error"
<1> DEFINE u == Append(s, f)
           old == {s[i].kind : i \in DOMAIN s}
           new == {u[i].kind : i \in DOMAIN u}
<1>1. /\ Len(s) \in Nat /\ DOMAIN s = 1 .. Len(s) /\ DOMAIN u = 1 .. Len(s) + 1
      /\ u[Len(s) + 1] = f /\ \A i \in 1 .. Len(s) : u[i] = s[i]
  BY AppendProperties
<1> HIDE DEF u
<1>2. new = old \cup {f.kind}
  <2>1. \A k \in new : k \in old \cup {f.kind}
    BY <1>1
  <2>2. \A k \in old : k \in new
    BY <1>1
  <2>3. f.kind \in new
    BY <1>1
  <2> QED
    BY <2>1, <2>2, <2>3
<1>3. /\ AnswerIn(s) = IF "run_result" \in old THEN "result"
                       ELSE IF old \cap Terminals # {} THEN "error" ELSE "none"
      /\ AnswerIn(u) = IF "run_result" \in new THEN "result"
                       ELSE IF new \cap Terminals # {} THEN "error" ELSE "none"
  BY DEF AnswerIn
<1>4. Some(s, Terminals) <=> old \cap Terminals # {}
  BY <1>1 DEF Some
<1> HIDE DEF old, new
<1>5. "run_result" \in Terminals
  BY DEF Terminals
<1>6. AnswerIn(s) # "none" <=> Some(s, Terminals)
  BY <1>3, <1>4, <1>5
<1>7. ASSUME f.kind \notin Terminals
      PROVE  AnswerIn(u) = AnswerIn(s)
  <2>1. ("run_result" \in new <=> "run_result" \in old) /\ new \cap Terminals = old \cap Terminals
    BY <1>2, <1>5, <1>7
  <2> QED
    BY <1>3, <2>1
<1>8. ASSUME f.kind \in Terminals
      PROVE  /\ AnswerIn(s) = "none"
             /\ AnswerIn(u) = IF f.kind = "run_result" THEN "result" ELSE "error"
  <2>1. old \cap Terminals = {} /\ "run_result" \notin old
    BY <1>4, <1>5, <1>8
  <2>2. ("run_result" \in new <=> f.kind = "run_result") /\ new \cap Terminals # {}
    BY <1>2, <1>8, <2>1
  <2> QED
    BY <1>3, <2>1, <2>2
<1> QED
  BY <1>6, <1>7, <1>8 DEF u

\* A run of which a step changes nothing that RunOutcome tells.
Unseen(q) ==
  /\ AnswerOf(q)' = AnswerOf(q)
  /\ stored'[q] = stored[q] /\ gone'[q] = gone[q]
  /\ stage'[q] = "done" <=> stage[q] = "done"

LEMMA MuteRefines ==
  ASSUME \A q \in Run : Unseen(q)
  PROVE  [Outcome!Next]_(Outcome!vars)
<1>1. [r \in Run |-> AnswerOf(r)]' = [r \in Run |-> AnswerOf(r)]
  BY DEF Unseen
<1>2. /\ {r \in Run : stored[r]}' = {r \in Run : stored[r]}
      /\ {r \in Run : gone[r]}' = {r \in Run : gone[r]}
      /\ {r \in Run : stage[r] = "done"}' = {r \in Run : stage[r] = "done"}
  BY DEF Unseen
<1> QED
  BY <1>1, <1>2 DEF Outcome!vars

LEMMA AnswerRefines ==
  ASSUME NEW r \in Run, \A q \in Run \ {r} : Unseen(q),
         stored'[r] = stored[r], gone'[r] = gone[r], stage[r] # "done", stage'[r] # "done",
         AnswerOf(r) = "none", AnswerOf(r)' \in {"result", "error"},
         AnswerOf(r)' = "result" => stored[r]
  PROVE  Outcome!Next
<1> DEFINE a == AnswerOf(r)'
<1>1. [q \in Run |-> AnswerOf(q)]' = [[q \in Run |-> AnswerOf(q)] EXCEPT ![r] = a]
  BY DEF Unseen
<1>2. /\ {q \in Run : stored[q]}' = {q \in Run : stored[q]}
      /\ {q \in Run : gone[q]}' = {q \in Run : gone[q]}
      /\ {q \in Run : stage[q] = "done"}' = {q \in Run : stage[q] = "done"}
  BY DEF Unseen
<1>3. a \in {"result", "error"} /\ (a = "result" => stored[r])
  OBVIOUS
<1> HIDE DEF a
<1>4. Outcome!Answer(r, a)
  BY <1>1, <1>2, <1>3 DEF Outcome!Answer
<1> QED
  BY <1>3, <1>4 DEF Outcome!Next

LEMMA EndRefines ==
  ASSUME NEW r \in Run, \A q \in Run \ {r} : Unseen(q),
         stored'[r] = stored[r], gone'[r] = gone[r], AnswerOf(r)' = AnswerOf(r),
         stage'[r] = "done", AnswerOf(r) # "none" \/ gone[r]
  PROVE  Outcome!Next
<1>1. [q \in Run |-> AnswerOf(q)]' = [q \in Run |-> AnswerOf(q)]
  BY DEF Unseen
<1>2. /\ {q \in Run : stored[q]}' = {q \in Run : stored[q]}
      /\ {q \in Run : gone[q]}' = {q \in Run : gone[q]}
      /\ {q \in Run : stage[q] = "done"}' = {q \in Run : stage[q] = "done"} \cup {r}
  BY DEF Unseen
<1>3. Outcome!End(r)
  BY <1>1, <1>2 DEF Outcome!End
<1> QED
  BY <1>3 DEF Outcome!Next

LEMMA LeaveRefines ==
  ASSUME NEW r \in Run, \A q \in Run \ {r} : Unseen(q),
         stored'[r] = stored[r], gone'[r], AnswerOf(r)' = AnswerOf(r),
         stage'[r] = "done" <=> stage[r] = "done"
  PROVE  Outcome!Next
<1>1. [q \in Run |-> AnswerOf(q)]' = [q \in Run |-> AnswerOf(q)]
  BY DEF Unseen
<1>2. /\ {q \in Run : stored[q]}' = {q \in Run : stored[q]}
      /\ {q \in Run : gone[q]}' = {q \in Run : gone[q]} \cup {r}
      /\ {q \in Run : stage[q] = "done"}' = {q \in Run : stage[q] = "done"}
  BY DEF Unseen
<1>3. Outcome!Leave(r)
  BY <1>1, <1>2 DEF Outcome!Leave
<1> QED
  BY <1>3 DEF Outcome!Next

LEMMA PersistRefines ==
  ASSUME NEW r \in Run, \A q \in Run \ {r} : Unseen(q),
         ~stored[r], stored'[r], gone'[r] = gone[r], AnswerOf(r)' = AnswerOf(r),
         AnswerOf(r) = "none", stage[r] # "done", stage'[r] # "done"
  PROVE  Outcome!Next
<1>1. [q \in Run |-> AnswerOf(q)]' = [q \in Run |-> AnswerOf(q)]
  BY DEF Unseen
<1>2. /\ {q \in Run : stored[q]}' = {q \in Run : stored[q]} \cup {r}
      /\ {q \in Run : gone[q]}' = {q \in Run : gone[q]}
      /\ {q \in Run : stage[q] = "done"}' = {q \in Run : stage[q] = "done"}
  BY DEF Unseen
<1>3. Outcome!Persist(r)
  BY <1>1, <1>2 DEF Outcome!Persist
<1> QED
  BY <1>3 DEF Outcome!Next

-----------------------------------------------------------------------------
(* The history of a conversation *)

\* The stages of a run that has loaded its conversation and not stored it.
Loaded == {"preparing", "streaming", "sending", "usage", "failed", "persisting"}

\* Where a run's history is committed as a whole, what it loaded is still what
\* the conversation has, until the run itself is stored.
HistoryInv ==
  CommitsHistory =>
    \A r \in Run : stage[r] \in Loaded /\ ~stored[r] => loaded[r] = store[ConversationOf[r]]

\* Of the runs of a conversation one at a time is between load and store.
Exclusive ==
  CommitsHistory =>
    \A p, q \in Run : /\ ConversationOf[p] = ConversationOf[q]
                      /\ stage[p] \in Loaded /\ stage[q] \in Loaded
                      => p = q

Grows == \A c \in Conversation : IsPrefix(store[c], store'[c])

LEMMA PrefixOfAppend ==
  ASSUME NEW S, NEW s \in Seq(S), NEW e \in S
  PROVE  IsPrefix(s, Append(s, e))
<1> DEFINE u == Append(s, e)
<1>1. /\ u \in Seq(S) /\ Len(s) \in Nat /\ Len(u) = Len(s) + 1
      /\ \A i \in 1 .. Len(s) : u[i] = s[i]
  BY AppendProperties
<1> HIDE DEF u
<1>2. SubSeq(s, 1, Len(s)) = SubSeq(u, 1, Len(s))
  <2> DEFINE x == SubSeq(s, 1, Len(s))
             y == SubSeq(u, 1, Len(s))
  <2>1. x \in Seq(S) /\ Len(x) = Len(s) /\ \A i \in 1 .. Len(s) : x[i] = s[i]
    BY <1>1, SubSeqProperties
  <2>2. y \in Seq(S) /\ Len(y) = Len(s) /\ \A i \in 1 .. Len(s) : y[i] = u[i]
    BY <1>1, SubSeqProperties
  <2> HIDE DEF x, y
  <2>3. x = y
    BY <1>1, <2>1, <2>2, SeqEqual
  <2> QED
    BY <2>3 DEF x, y
<1> QED
  BY <1>1, <1>2 DEF IsPrefix, u

LEMMA SameGrows ==
  ASSUME RunTypes, UNCHANGED store
  PROVE  Grows
<1>1. ASSUME NEW c \in Conversation
      PROVE  IsPrefix(store[c], store'[c])
  <2>1. store[c] \in Seq(Run) /\ store'[c] = store[c]
    BY DEF RunTypes
  <2>2. Len(store[c]) \in Nat
    BY <2>1
  <2> QED
    BY <2>1, <2>2 DEF IsPrefix
<1> QED
  BY <1>1 DEF Grows

LEMMA HistoryQuiet ==
  ASSUME RunTypes, HistoryInv, UNCHANGED history,
         \A q \in Run : stage'[q] \in Loaded => stage[q] \in Loaded
  PROVE  HistoryInv' /\ Grows
<1>1. UNCHANGED <<store, loaded, stored>>
  BY DEF history
<1>2. Grows
  BY <1>1, SameGrows
<1> QED
  BY <1>1, <1>2 DEF HistoryInv

LEMMA FailHistory ==
  ASSUME RunTypes, HistoryInv, stage \in [Run -> Stages], NEW r \in Run, NEW error,
         Fail(r, error), UNCHANGED history
  PROVE  HistoryInv' /\ Grows
<1>1. \E next \in {"reporting", "done"} : stage' = [stage EXCEPT ![r] = next]
  BY PushStage DEF Fail
<1>2. \A q \in Run : stage'[q] \in Loaded => stage[q] \in Loaded
  BY <1>1 DEF Loaded
<1> QED
  BY <1>2, HistoryQuiet

\* A run moves on, to a stage before it loads or after it, or among those
\* between.
LEMMA MoveHistory ==
  ASSUME RunTypes, HistoryInv, stage \in [Run -> Stages], NEW r \in Run, NEW next,
         stage' = [stage EXCEPT ![r] = next], next \in Loaded => stage[r] \in Loaded,
         UNCHANGED history
  PROVE  HistoryInv' /\ Grows
<1>1. \A q \in Run : stage'[q] \in Loaded => stage[q] \in Loaded
  OBVIOUS
<1> QED
  BY <1>1, HistoryQuiet

LEMMA EnterHistory ==
  ASSUME RunTypes, HistoryInv, stage \in [Run -> Stages], NEW r \in Run, Enter(r)
  PROVE  HistoryInv' /\ Grows
<1>1. CASE UnknownAgent(r)
  BY <1>1, FailHistory DEF UnknownAgent
<1>2. CASE JoinLine(r)
  BY <1>2, MoveHistory DEF JoinLine, Loaded
<1> QED
  BY <1>1, <1>2 DEF Enter

LEMMA ResumeHistory ==
  ASSUME RunTypes, HistoryInv, stage \in [Run -> Stages], NEW r \in Run, stage[r] \in Sends,
         Resume(r), UNCHANGED history
  PROVE  HistoryInv' /\ Grows
<1>1. CASE UNCHANGED stage
  BY <1>1, HistoryQuiet
<1>2. CASE stage' = [stage EXCEPT ![r] = "reporting"]
  BY <1>2, MoveHistory DEF Loaded
<1>3. CASE stage[r] # "failed" /\ stage' = [stage EXCEPT ![r] =
                                    CASE @ = "sending" -> "streaming"
                                      [] @ = "usage" -> "persisting"
                                      [] @ = "reporting" -> "done"]
  <2>1. \E next \in {"streaming", "persisting", "done"} :
          /\ stage' = [stage EXCEPT ![r] = next]
          /\ next # "done" => stage[r] \in {"sending", "usage"}
    BY <1>3 DEF Sends
  <2> QED
    BY <2>1, MoveHistory DEF Loaded
<1> QED
  BY <1>1, <1>2, <1>3 DEF Resume

\* The run that loads knows the conversation, and the one that is stored only
\* adds to it, because no other run of the conversation came between.
LEMMA LoadHistory ==
  ASSUME ServerAssumption, RunTypes, HistoryInv, stage \in [Run -> Stages], NEW r \in Run, Load(r)
  PROVE  HistoryInv' /\ Grows
<1>1. /\ loaded' = [loaded EXCEPT ![r] = store[ConversationOf[r]]]
      /\ stage' = [stage EXCEPT ![r] = "preparing"] /\ UNCHANGED <<store, stored>>
  BY DEF Load
<1>2. Grows
  BY <1>1, SameGrows
<1>3. loaded'[r] = store[ConversationOf[r]]
  BY <1>1 DEF RunTypes
<1>4. \A q \in Run \ {r} : loaded'[q] = loaded[q] /\ stage'[q] = stage[q]
  BY <1>1 DEF RunTypes
<1> QED
  BY <1>1, <1>2, <1>3, <1>4 DEF HistoryInv

LEMMA StoreHistory ==
  ASSUME ServerAssumption, RunTypes, DurableInv, HistoryInv, Exclusive, NEW r \in Run, StoreApplies(r)
  PROVE  HistoryInv' /\ Grows
<1> DEFINE c == ConversationOf[r]
           new == Append(store[c], r)
<1>1. /\ stage[r] = "persisting" /\ ~stored[r] /\ store' = [store EXCEPT ![c] = Written(r)]
      /\ stored' = [stored EXCEPT ![r] = TRUE] /\ UNCHANGED <<stage, loaded>>
  BY DEF StoreApplies, control
<1>2. c \in Conversation /\ \A d \in Conversation : store[d] \in Seq(Run)
  BY DEF ServerAssumption, RunTypes
<1>3. stage[r] \in Loaded
  BY <1>1 DEF Loaded
<1>4. Written(r) = new
  <2>1. CASE CommitsHistory
    <3>1. loaded[r] = store[c]
      BY <1>1, <1>3, <2>1 DEF HistoryInv
    <3> QED
      BY <2>1, <3>1 DEF Written
  <2>2. CASE ~CommitsHistory
    BY <2>2 DEF Written
  <2> QED
    BY <2>1, <2>2
<1>5. store'[c] = new /\ \A d \in Conversation \ {c} : store'[d] = store[d]
  BY <1>1, <1>2, <1>4 DEF RunTypes
<1>6. Grows
  <2>1. ASSUME NEW d \in Conversation
        PROVE  IsPrefix(store[d], store'[d])
    <3>1. CASE d = c
      <4>1. store[c] \in Seq(Run)
        BY <1>2
      <4>2. IsPrefix(store[c], Append(store[c], r))
        BY <4>1, PrefixOfAppend
      <4> QED
        BY <1>5, <3>1, <4>2
    <3>2. CASE d # c
      <4>1. store[d] \in Seq(Run) /\ store'[d] = store[d]
        BY <1>2, <1>5, <3>2
      <4>2. Len(store[d]) \in Nat
        BY <4>1
      <4> QED
        BY <4>1, <4>2 DEF IsPrefix
    <3> QED
      BY <3>1, <3>2
  <2> QED
    BY <2>1 DEF Grows
<1> HIDE DEF c, new
<1>7. ASSUME CommitsHistory, NEW q \in Run, stage[q] \in Loaded, ~stored'[q]
      PROVE  loaded[q] = store'[ConversationOf[q]]
  <2>1. q # r /\ ~stored[q]
    BY <1>1, <1>7 DEF DurableInv
  <2>2. ConversationOf[q] # c
    BY <1>3, <1>7, <2>1 DEF Exclusive, c
  <2>3. ConversationOf[q] \in Conversation
    BY DEF ServerAssumption
  <2>4. loaded[q] = store[ConversationOf[q]]
    BY <1>7, <2>1 DEF HistoryInv
  <2> QED
    BY <1>5, <2>2, <2>3, <2>4
<1>8. HistoryInv'
  BY <1>1, <1>7 DEF HistoryInv
<1> QED
  BY <1>6, <1>8

LEMMA RunStepHistory ==
  ASSUME ServerAssumption, RunTypes, DurableInv, stage \in [Run -> Stages], HistoryInv, Exclusive,
         NEW r \in Run, RunStep(r)
  PROVE  HistoryInv' /\ Grows
<1>1. ASSUME NEW blocked \in Loaded, NEW after \in Loaded, NEW frames,
             Push(r, frames, blocked, after), stage[r] \in Loaded, UNCHANGED history
      PROVE  HistoryInv' /\ Grows
  BY <1>1, PushStage, MoveHistory
<1>2. CASE TakeServerSlot(r)
  BY <1>2, MoveHistory DEF TakeServerSlot, Loaded
<1>3. CASE TakeAgentSlot(r)
  BY <1>3, MoveHistory DEF TakeAgentSlot, Loaded
<1>4. CASE Authorize(r)
  BY <1>4, MoveHistory DEF Authorize, Loaded
<1>5. CASE Load(r)
  BY <1>5, LoadHistory
<1>6. CASE SessionFails(r) \/ PersistFails(r)
  BY <1>6, FailHistory DEF SessionFails, PersistFails
<1>7. CASE OpenStream(r) \/ StreamEvent(r) \/ StreamResult(r)
  BY <1>1, <1>7 DEF OpenStream, StreamEvent, StreamResult, EmitEvent, Loaded
<1>8. CASE StreamFails(r)
  <2>1. stage[r] \in Loaded /\ UNCHANGED history
    BY <1>8 DEF StreamFails, Loaded
  <2>2. Fail(r, "server_error") \/ Push(r, <<Frame("run_failed", seq[r])>>, "failed", "failed")
    BY <1>8 DEF StreamFails
  <2>3. "failed" \in Loaded
    BY DEF Loaded
  <2> QED
    BY <1>1, <2>1, <2>2, <2>3, FailHistory
<1>9. CASE StoreApplies(r)
  BY <1>9, StoreHistory
<1>10. CASE PersistReturns(r)
  <2>1. /\ UNCHANGED history
        /\ Push(r, CompletionFrames(r), "reporting", "done")
    BY <1>10 DEF PersistReturns
  <2>2. \E next \in {"reporting", "done"} : stage' = [stage EXCEPT ![r] = next]
    BY <2>1, PushStage
  <2> QED
    BY <2>1, <2>2, MoveHistory DEF Loaded
<1> QED
  BY <1>2, <1>3, <1>4, <1>5, <1>6, <1>7, <1>8, <1>9, <1>10 DEF RunStep

LEMMA InitHistory ==
  ASSUME RuntimeInit
  PROVE  HistoryInv
BY DEF RuntimeInit, HistoryInv, Loaded


=============================================================================
