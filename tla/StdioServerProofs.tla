------------------------- MODULE StdioServerProofs -------------------------
(***************************************************************************)
(* Theorems about the stdio transport, for any runs and commands: a        *)
(* completed run is durable, also when frames are cut off from their tasks *)
(* and when the task group is cancelled at shutdown; slots are conserved,  *)
(* requests execute and frames are written in order, no history loses      *)
(* anything, and the server implements RunOutcome.                         *)
(***************************************************************************)
EXTENDS StdioServer, ServerProofs

\* A task has frames to send only where it sends, and a task that holds the
\* write lock has the frame it wrote still at the head of what it has to send.
Holder(r) ==
  /\ todo[r] # <<>> => stage[r] \in Sends
  /\ lock = r => todo[r] # <<>>

HolderInv == stage \in [Run -> Stages] /\ \A r \in Run : Holder(r)

\* Frames that threads write are sendable, like those of the runtime.
StdioInv == DurableInv /\ Durable(threads)

-----------------------------------------------------------------------------
(* The holder of the lock *)

\* A step of the task of r that starts outside its sends: it is enough to look
\* at what r has to send.
LEMMA HolderStep ==
  ASSUME HolderInv, NEW r \in Run, stage' \in [Run -> Stages],
         \A q \in Run \ {r} : todo'[q] = todo[q] /\ stage'[q] = stage[q],
         todo'[r] # <<>> => stage'[r] \in Sends,
         lock' # r \/ todo'[r] # <<>>,
         \A q \in Run \ {r} : lock' = q => lock = q
  PROVE  HolderInv'
BY DEF HolderInv, Holder

\* A send begins.
LEMMA PushStep ==
  ASSUME HolderInv, DurableInv, NEW r \in Run,
         NEW frames \in Seq(Frames), frames # <<>>,
         NEW blocked \in Sends, NEW after \in Stages,
         Push(r, frames, blocked, after)
  PROVE  /\ stage' \in [Run -> Stages]
         /\ \A q \in Run \ {r} : todo'[q] = todo[q] /\ stage'[q] = stage[q]
         /\ todo'[r] # <<>> => stage'[r] \in Sends
<1>1. blocked \in Stages /\ stage \in [Run -> Stages] /\ todo \in [Run -> Seq(Frames)]
  BY DEF HolderInv, Stages, Sends, InSession, DurableInv, Durable
<1>2. CASE todo' = [todo EXCEPT ![r] = <<>>] /\ stage' = [stage EXCEPT ![r] = after]
  BY <1>1, <1>2
<1>3. CASE /\ todo' = [todo EXCEPT ![r] = Tail(frames)]
           /\ stage' = [stage EXCEPT ![r] = IF Len(frames) = 1 THEN after ELSE blocked]
  <2>1. Tail(frames) \in Seq(Frames) /\ Len(Tail(frames)) = Len(frames) - 1
    BY HeadTailProperties
  <2>2. Tail(frames) # <<>> => Len(frames) # 1
    BY <2>1, EmptySeq
  <2> QED
    BY <1>1, <1>3, <2>2
<1>4. CASE todo' = [todo EXCEPT ![r] = frames] /\ stage' = [stage EXCEPT ![r] = blocked]
  BY <1>1, <1>4
<1> QED
  BY <1>2, <1>3, <1>4 DEF Push

\* Outside its sends a task holds no lock.
LEMMA NoLockOutside ==
  ASSUME HolderInv, NEW r \in Run, stage[r] \notin Sends
  PROVE  lock # r
BY DEF HolderInv, Holder

\* A task that starts a send outside its sends.
LEMMA PushHolds ==
  ASSUME HolderInv, DurableInv, NEW r \in Run,
         NEW frames \in Seq(Frames), frames # <<>>,
         NEW blocked \in Sends, NEW after \in Stages,
         Push(r, frames, blocked, after), lock # r, UNCHANGED lock
  PROVE  HolderInv'
<1>1. /\ stage' \in [Run -> Stages]
      /\ \A q \in Run \ {r} : todo'[q] = todo[q] /\ stage'[q] = stage[q]
      /\ todo'[r] # <<>> => stage'[r] \in Sends
  BY PushStep
<1> QED
  BY <1>1, HolderStep

\* A task that fails outside its sends, or while it waits for the lock.
LEMMA FailHolds ==
  ASSUME ServerAssumption, HolderInv, DurableInv, NEW r \in Run,
         NEW error \in {"server_error", "run_cancelled"},
         Fail(r, error), lock # r, UNCHANGED lock
  PROVE  HolderInv'
<1>1. /\ FailureFrames(r, error) \in Seq(Sendable(r))
      /\ FailureFrames(r, error) # <<>>
  BY FailureIsSendable DEF DurableInv
<1>2. FailureFrames(r, error) \in Seq(Frames)
  BY <1>1, SeqMonotonic DEF Sendable
<1>3. Push(r, FailureFrames(r, error), "reporting", "done")
  BY DEF Fail
<1> QED
  BY <1>1, <1>2, <1>3, PushHolds DEF Sends, Stages

\* A task that moves on without frames to send.
LEMMA MoveHolds ==
  ASSUME HolderInv, NEW r \in Run, NEW next \in Stages,
         stage[r] \notin Sends, stage' = [stage EXCEPT ![r] = next],
         UNCHANGED <<todo, lock>>
  PROVE  HolderInv'
<1>1. todo[r] = <<>> /\ lock # r
  BY DEF HolderInv, Holder
<1> QED
  BY <1>1, HolderStep DEF HolderInv

\* An event is sent outside a send.
LEMMA EmitHolds ==
  ASSUME HolderInv, DurableInv, NEW r \in Run, NEW blocked \in Sends,
         NEW after \in Stages, EmitEvent(r, blocked, after), lock # r, UNCHANGED lock
  PROVE  HolderInv'
<1>1. Frame("event", seq[r]) \in Frames
  BY DEF DurableInv, Frame, Frames, Events
<1>2. <<Frame("event", seq[r])>> \in Seq(Frames) /\ <<Frame("event", seq[r])>> # <<>>
  BY <1>1
<1>3. Push(r, <<Frame("event", seq[r])>>, blocked, after)
  BY DEF EmitEvent
<1> QED
  BY <1>2, <1>3, PushHolds

\* A run whose turn has come.
LEMMA EnterHolds ==
  ASSUME ServerAssumption, HolderInv, DurableInv, NEW r \in Run, Enter(r),
         stage[r] \notin Sends, UNCHANGED lock
  PROVE  HolderInv'
<1>1. CASE UnknownAgent(r)
  BY <1>1, FailHolds, NoLockOutside DEF UnknownAgent
<1>2. CASE JoinLine(r)
  BY <1>2, MoveHolds DEF JoinLine, Stages
<1> QED
  BY <1>1, <1>2 DEF Enter

\* Steps of the runtime begin outside the sends.
LEMMA RunStepHolds ==
  ASSUME ServerAssumption, HolderInv, DurableInv, NEW r \in Run, RunStep(r),
         UNCHANGED lock
  PROVE  HolderInv'
<1>1. stage[r] \notin Sends
  BY DEF RunStep, TakeServerSlot, TakeAgentSlot, Authorize, Load, SessionFails,
         OpenStream, StreamEvent, StreamResult, StreamFails, StoreApplies,
         PersistReturns, PersistFails, Sends
<1>2. lock # r
  BY <1>1, NoLockOutside
<1>3. CASE TakeServerSlot(r)
  BY <1>1, <1>3, MoveHolds DEF TakeServerSlot, Stages
<1>4. CASE TakeAgentSlot(r)
  BY <1>1, <1>4, MoveHolds DEF TakeAgentSlot, Stages, InSession
<1>5. CASE Authorize(r)
  BY <1>1, <1>5, MoveHolds DEF Authorize, Stages, InSession
<1>6. CASE Load(r)
  BY <1>1, <1>6, MoveHolds DEF Load, Stages, InSession
<1>7. CASE SessionFails(r) \/ PersistFails(r)
  BY <1>2, <1>7, FailHolds DEF SessionFails, PersistFails
<1>8. CASE OpenStream(r) \/ StreamEvent(r) \/ StreamResult(r)
  BY <1>2, <1>8, EmitHolds
     DEF OpenStream, StreamEvent, StreamResult, Sends, Stages, InSession
<1>9. CASE StreamFails(r)
  <2>1. CASE Room(r)
    BY <1>2, <1>9, <2>1, FailHolds DEF StreamFails
  <2>2. CASE ~Room(r)
    <3>1. Frame("run_failed", seq[r]) \in Frames
      BY DEF DurableInv, Frame, Frames, Events
    <3>2. /\ <<Frame("run_failed", seq[r])>> \in Seq(Frames)
          /\ <<Frame("run_failed", seq[r])>> # <<>>
      BY <3>1
    <3>3. Push(r, <<Frame("run_failed", seq[r])>>, "failed", "failed")
      BY <1>9, <2>2 DEF StreamFails
    <3>4. "failed" \in Sends /\ "failed" \in Stages
      BY DEF Sends, Stages, InSession
    <3> QED
      BY <1>2, <3>2, <3>3, <3>4, PushHolds
  <2> QED
    BY <2>1, <2>2
<1>10. CASE StoreApplies(r)
  BY <1>10 DEF StoreApplies, control, HolderInv, Holder
<1>11. CASE PersistReturns(r)
  <2>1. /\ CompletionFrames(r) \in Seq(Sendable(r))
        /\ CompletionFrames(r) # <<>>
    BY <1>11, CompletionIsSendable DEF PersistReturns, DurableInv
  <2>2. CompletionFrames(r) \in Seq(Frames)
    BY <2>1, SeqMonotonic DEF Sendable
  <2>3. Push(r, CompletionFrames(r), "reporting", "done")
    BY <1>11 DEF PersistReturns
  <2> QED
    BY <1>2, <2>1, <2>2, <2>3, PushHolds DEF Sends, Stages
<1> QED
  BY <1>3, <1>4, <1>5, <1>6, <1>7, <1>8, <1>9, <1>10, <1>11 DEF RunStep

-----------------------------------------------------------------------------
(* The frames *)

\* A thread gets the frame at the head of what the task has to send.
LEMMA BeginFrameIsDurable ==
  ASSUME StdioInv, NEW r \in Run, BeginFrame(r)
  PROVE  StdioInv'
<1>1. UNCHANGED <<seq, stored, todo, queue, got>> /\ todo[r] # <<>>
  BY DEF BeginFrame, runtimeVars, control, progress, history
<1>2. Append(threads[r], Head(todo[r])) \in Seq(Sendable(r))
  BY <1>1, HeadTailProperties, AppendProperties DEF StdioInv, DurableInv, Durable
<1>3. Durable(threads)'
  BY <1>1, <1>2, ReplacedIsDurable DEF BeginFrame, StdioInv, Durable
<1> QED
  BY <1>1, <1>3, QuietIsDurable DEF StdioInv

\* A thread writes a frame, and the task it belongs to goes on.
LEMMA ThreadWritesIsDurable ==
  ASSUME ServerAssumption, StdioInv, HolderInv, NEW r \in Run,
         NEW i \in DOMAIN threads[r], ThreadWrites(r, i)
  PROVE  StdioInv'
<1>1. UNCHANGED <<seq, stored, queue>>
  BY DEF ThreadWrites, progress, history
<1>2. threads[r] \in Seq(Sendable(r)) /\ got[r] \in Seq(Sendable(r))
  BY DEF StdioInv, DurableInv, Durable
<1>3. i \in 1 .. Len(threads[r]) /\ threads[r][i] \in Sendable(r)
  BY <1>2
<1>4. Append(got[r], threads[r][i]) \in Seq(Sendable(r))
  BY <1>2, <1>3, AppendProperties
<1>5. Durable(got)'
  BY <1>1, <1>4, ReplacedIsDurable DEF ThreadWrites, StdioInv, DurableInv, Durable
<1>6. RemoveAt(threads[r], i) \in Seq(Sendable(r))
  <2>1. /\ SubSeq(threads[r], 1, i - 1) \in Seq(Sendable(r))
        /\ SubSeq(threads[r], i + 1, Len(threads[r])) \in Seq(Sendable(r))
    BY <1>2, <1>3, SubSeqProperties
  <2> QED
    BY <2>1, ConcatProperties DEF RemoveAt
<1>7. Durable(threads)'
  BY <1>1, <1>6, ReplacedIsDurable DEF ThreadWrites, StdioInv, Durable
<1>8. lock = r => todo[r] # <<>>
  BY DEF HolderInv, Holder
<1>9. Durable(queue)'
  BY <1>1 DEF StdioInv, DurableInv, Durable, Sendable
<1>10. Durable(todo)'
  <2>1. CASE UNCHANGED todo
    BY <1>1, <2>1 DEF StdioInv, DurableInv, Durable, Sendable
  <2>2. CASE lock = r /\ todo' = [todo EXCEPT ![r] = Tail(@)]
    <3>1. Tail(todo[r]) \in Seq(Sendable(r))
      BY <2>2, <1>8, HeadTailProperties DEF StdioInv, DurableInv, Durable
    <3> QED
      BY <1>1, <2>2, <3>1, ReplacedIsDurable DEF StdioInv, DurableInv, Durable
  <2>3. CASE lock = r /\ Resume(r)
    BY <1>1, <1>8, <2>3, ResumeIsDurable DEF StdioInv
  <2> QED
    BY <2>1, <2>2, <2>3 DEF ThreadWrites, FrameDone
<1> QED
  BY <1>1, <1>5, <1>7, <1>9, <1>10 DEF StdioInv, DurableInv

\* The task of a frame goes on with the rest of what it has to send, or ends.
LEMMA ThreadWritesHolds ==
  ASSUME StdioAssumption, HolderInv, DurableInv, NEW r \in Run,
         NEW i \in DOMAIN threads[r], ThreadWrites(r, i)
  PROVE  HolderInv'
<1>1. CASE UNCHANGED <<stage, todo>> /\ (lock' = lock \/ lock' = Nobody)
  <2>1. \A q \in Run : lock' = q => lock = q
    BY <1>1 DEF StdioAssumption, Request
  <2> QED
    BY <1>1, <2>1 DEF HolderInv, Holder
<1>2. CASE lock = r /\ lock' = Nobody /\ ~ UNCHANGED <<stage, todo>>
  <2>1. \A q \in Run : lock' # q
    BY <1>2 DEF StdioAssumption, Request
  <2>2. todo[r] # <<>> /\ stage[r] \in Sends
    BY <1>2 DEF HolderInv, Holder
  <2>3. stage \in [Run -> Stages] /\ todo \in [Run -> Seq(Frames)]
    BY DEF HolderInv, DurableInv, Durable
  <2>4. CASE stage[r] = "reporting" /\ todo' = [todo EXCEPT ![r] = Tail(@)] /\ UNCHANGED stage
    <3>1. /\ \A q \in Run \ {r} : todo'[q] = todo[q] /\ stage'[q] = stage[q]
          /\ stage'[r] \in Sends /\ stage' \in [Run -> Stages]
      BY <2>2, <2>3, <2>4
    <3> QED
      BY <2>1, <3>1, HolderStep
  <2>5. CASE Resume(r)
    <3>1. CASE todo' = [todo EXCEPT ![r] = Tail(@)] /\ UNCHANGED stage
      <4>1. /\ \A q \in Run \ {r} : todo'[q] = todo[q] /\ stage'[q] = stage[q]
            /\ stage'[r] \in Sends /\ stage' \in [Run -> Stages]
        BY <2>2, <2>3, <3>1
      <4> QED
        BY <2>1, <4>1, HolderStep
    <3>2. CASE /\ todo' = [todo EXCEPT ![r] = FailureFrames(r, "server_error")]
               /\ stage' = [stage EXCEPT ![r] = "reporting"]
      <4>1. "reporting" \in Stages /\ "reporting" \in Sends
        BY DEF Stages, Sends
      <4>2. /\ \A q \in Run \ {r} : todo'[q] = todo[q] /\ stage'[q] = stage[q]
            /\ stage'[r] \in Sends /\ stage' \in [Run -> Stages]
        BY <2>3, <3>2, <4>1
      <4> QED
        BY <2>1, <4>2, HolderStep
    <3>3. CASE /\ todo' = [todo EXCEPT ![r] = <<>>]
               /\ stage[r] # "failed"
               /\ stage' = [stage EXCEPT ![r] =
                              CASE @ = "sending" -> "streaming"
                                [] @ = "usage" -> "persisting"
                                [] @ = "reporting" -> "done"]
      <4>1. stage[r] \in {"sending", "usage", "reporting"}
        BY <2>2, <3>3 DEF Sends
      <4>2. PICK next \in Stages : stage' = [stage EXCEPT ![r] = next]
        <5>1. {"streaming", "persisting", "done"} \subseteq Stages
          BY DEF Stages, InSession
        <5> QED
          BY <3>3, <4>1, <5>1
      <4>3. /\ \A q \in Run \ {r} : todo'[q] = todo[q] /\ stage'[q] = stage[q]
            /\ todo'[r] = <<>> /\ stage' \in [Run -> Stages]
        BY <2>3, <3>3, <4>2
      <4> QED
        BY <2>1, <4>3, HolderStep
    <3> QED
      BY <2>5, <3>1, <3>2, <3>3 DEF Resume
  <2> QED
    BY <1>2, <2>4, <2>5 DEF ThreadWrites, FrameDone
<1> QED
  BY <1>1, <1>2 DEF ThreadWrites, FrameDone

-----------------------------------------------------------------------------
(* Steps of the server *)

\* Steps that leave frames, threads, the store and the holder alone, or only
\* give the lock away.
LEMMA QuietStep ==
  ASSUME StdioInv, HolderInv, UNCHANGED <<seq, stored, todo, queue, got, stage, threads>>,
         \A q \in Run : lock' = q => lock = q
  PROVE  StdioInv' /\ HolderInv'
<1>1. StdioInv'
  BY QuietIsDurable DEF StdioInv, Durable, Sendable
<1>2. HolderInv'
  BY DEF HolderInv, Holder
<1> QED
  BY <1>1, <1>2

\* The frame lists of the runtime stay durable, the threads are left alone.
LEMMA RuntimeStep ==
  ASSUME StdioInv, DurableInv', UNCHANGED threads,
         \A q \in Run : stored[q] => stored'[q]
  PROVE  StdioInv'
BY KeptIsDurable DEF StdioInv, Durable

\* A run that changes only what it has to send, where it sends, and holds no lock.
LEMMA TodoStep ==
  ASSUME StdioInv, HolderInv, NEW r \in Run, lock # r,
         NEW frames \in Seq(Sendable(r)), todo' = [todo EXCEPT ![r] = frames],
         stage' = [stage EXCEPT ![r] = "reporting"],
         UNCHANGED <<seq, stored, queue, got, threads, lock>>
  PROVE  StdioInv' /\ HolderInv'
<1>1. Durable(todo)'
  BY ReplacedIsDurable DEF StdioInv, DurableInv, Durable
<1>2. Durable(queue)' /\ Durable(got)' /\ Durable(threads)'
  BY DEF StdioInv, DurableInv, Durable, Sendable
<1>3. StdioInv'
  BY <1>1, <1>2 DEF StdioInv, DurableInv
<1>4. "reporting" \in Stages /\ "reporting" \in Sends
  BY DEF Stages, Sends
<1>5. todo \in [Run -> Seq(Frames)] /\ stage \in [Run -> Stages]
  BY DEF HolderInv, StdioInv, DurableInv, Durable
<1>6. /\ stage' \in [Run -> Stages] /\ stage'[r] \in Sends
      /\ \A q \in Run \ {r} : todo'[q] = todo[q] /\ stage'[q] = stage[q]
  BY <1>4, <1>5
<1>7. HolderInv'
  BY <1>6, HolderStep
<1> QED
  BY <1>3, <1>7

\* run_cancelled can be sent to any run.
LEMMA CancelledIsSendable ==
  ASSUME NEW r \in Run
  PROVE  /\ <<Frame("run_cancelled", 0)>> \in Seq(Sendable(r))
         /\ <<>> \in Seq(Sendable(r))
<1>1. Frame("run_cancelled", 0) \in Sendable(r)
  BY DEF Frame, Sendable, Frames, Events, Terminals, Completion
<1> QED
  BY <1>1

\* A step of the task of a run.
LEMMA TaskStepKeeps ==
  ASSUME ServerAssumption, StdioInv, HolderInv, NEW r \in Run, TaskStep(r)
  PROVE  StdioInv' /\ HolderInv'
<1>1. DurableInv
  BY DEF StdioInv
<1>2. CASE RunStep(r) /\ UNCHANGED stdioVars
  <2>1. DurableInv' /\ HolderInv'
    BY <1>1, <1>2, RunStepIsDurable, RunStepHolds DEF stdioVars, output
  <2>2. \A q \in Run : stored[q] => stored'[q]
    BY <1>1, <1>2, RunStepStores
  <2> QED
    BY <1>2, <2>1, <2>2, RuntimeStep DEF stdioVars, output
<1>3. CASE Dispatch(r)
  <2>1. DurableInv' /\ HolderInv'
    BY <1>1, <1>3, EnterIsDurable, EnterHolds DEF Dispatch, stdioVars, output, Sends
  <2>2. UNCHANGED stored
    BY <1>3 DEF Dispatch, Enter, UnknownAgent, JoinLine, history
  <2> QED
    BY <1>3, <2>1, <2>2, RuntimeStep DEF Dispatch, stdioVars, output
<1>4. CASE InterruptQueued(r)
  <2>1. lock # r
    BY <1>4, NoLockOutside DEF InterruptQueued, Sends
  <2> QED
    BY <1>4, <2>1, CancelledIsSendable, TodoStep
       DEF InterruptQueued, progress, history, stdioVars, output
<1>5. CASE Interrupted(r)
  <2>1. InterruptRun(r) /\ lock # r /\ UNCHANGED <<lock, threads>>
    BY <1>5 DEF Interrupted, stdioVars, output
  <2>2. DurableInv'
    BY <1>1, <2>1, InterruptIsDurable
  <2>3. HolderInv'
    <3>1. Cause(r) \in {"server_error", "run_cancelled"} /\ Fail(r, Cause(r))
      BY <2>1 DEF Cause, InterruptRun
    <3> QED
      BY <1>1, <2>1, <3>1, FailHolds
  <2>4. UNCHANGED stored
    BY <2>1 DEF InterruptRun, history
  <2> QED
    BY <2>1, <2>2, <2>3, <2>4, RuntimeStep
<1>6. CASE Drain(r)
  BY <1>6, QuietStep DEF Drain, progress, history
<1>7. CASE Finish(r)
  <2>1. UNCHANGED <<seq, stored, queue, got, todo, lock, threads>>
    BY <1>7 DEF Finish, progress, history, output
  <2>2. todo[r] = <<>> /\ stage' = [stage EXCEPT ![r] = "done"]
    BY <1>7 DEF Finish
  <2>3. stage' \in [Run -> Stages] /\ \A q \in Run \ {r} : stage'[q] = stage[q]
    BY <2>2 DEF HolderInv, Stages
  <2>4. HolderInv'
    BY <2>1, <2>2, <2>3, HolderStep DEF HolderInv, Holder
  <2> QED
    BY <1>1, <2>1, <2>4, QuietIsDurable, RuntimeStep
<1> QED
  BY <1>2, <1>3, <1>4, <1>5, <1>6, <1>7 DEF TaskStep

\* Whatever the server leaves out of Spec is included.
AnyNext ==
  \/ Next
  \/ Abort
  \/ \E r \in Run : AbandonFrame(r) \/ AnswerAgain(r)

\* Every step of the server preserves the invariant.
LEMMA StdioStep ==
  ASSUME ServerAssumption, StdioAssumption, StdioInv, HolderInv, [AnyNext]_vars
  PROVE  StdioInv' /\ HolderInv'
<1>1. DurableInv
  BY DEF StdioInv
<1>2. ASSUME NEW r \in Run, Start(r)
      PROVE  StdioInv' /\ HolderInv'
  <2>1. UNCHANGED <<lock, threads>> /\ stage[r] = "new"
    BY <1>2 DEF Start, output
  <2>2. CASE Enter(r)
    <3>1. DurableInv' /\ HolderInv'
      BY <1>1, <2>1, <2>2, EnterIsDurable, EnterHolds DEF Sends
    <3>2. UNCHANGED stored
      BY <2>2 DEF Enter, UnknownAgent, JoinLine, history
    <3> QED
      BY <2>1, <3>1, <3>2, RuntimeStep
  <2>3. CASE Queue(r)
    <3>1. UNCHANGED <<seq, stored, queue, got, todo>>
      BY <2>3 DEF Queue, progress, history
    <3>2. HolderInv'
      BY <2>1, <2>3, <3>1, MoveHolds DEF Queue, Sends, Stages
    <3> QED
      BY <1>1, <2>1, <3>1, <3>2, QuietIsDurable, RuntimeStep
  <2> QED
    BY <1>2, <2>2, <2>3 DEF Start
<1>3. ASSUME NEW r \in Run, TaskStep(r)
      PROVE  StdioInv' /\ HolderInv'
  BY <1>3, TaskStepKeeps
<1>4. ASSUME NEW r \in Run, BeginFrame(r)
      PROVE  StdioInv' /\ HolderInv'
  <2>1. UNCHANGED <<stage, todo>> /\ lock' = r /\ todo[r] # <<>>
    BY <1>4 DEF BeginFrame, runtimeVars, control
  <2>2. HolderInv'
    BY <2>1 DEF HolderInv, Holder
  <2> QED
    BY <1>4, <2>2, BeginFrameIsDurable
<1>5. ASSUME NEW r \in Run, Cancel(r)
      PROVE  StdioInv' /\ HolderInv'
  BY <1>5, QuietStep DEF Cancel, progress, history, output
<1>6. ASSUME NEW r \in Run, Expire(r), UNCHANGED stdioVars
      PROVE  StdioInv' /\ HolderInv'
  BY <1>6, QuietStep DEF Expire, progress, history, stdioVars, output
<1>7. ASSUME NEW r \in Run, NEW i \in DOMAIN threads[r], ThreadWrites(r, i)
      PROVE  StdioInv' /\ HolderInv'
  BY <1>1, <1>7, ThreadWritesIsDurable, ThreadWritesHolds
<1>8. ASSUME NEW c \in Command, Issue(c) \/ CommandStep(c) \/ BeginAnswer(c)
      PROVE  StdioInv' /\ HolderInv'
  <2>1. UNCHANGED runtimeVars /\ UNCHANGED threads /\ lock' \in {lock, Nobody, c}
    BY <1>8 DEF Issue, CommandStep, DispatchCommand, EndAnswer, BeginAnswer, output
  <2>2. \A q \in Run : lock' = q => lock = q
    BY <2>1 DEF StdioAssumption, Request
  <2> QED
    BY <2>1, <2>2, QuietStep DEF runtimeVars, control, progress, history
<1>9. CASE Initialize \/ ReaderLocks \/ ReaderStep
  <2>1. UNCHANGED runtimeVars /\ UNCHANGED threads /\ lock' \in {lock, Nobody, Reader}
    BY <1>9 DEF Initialize, ReaderLocks, ReaderStep, ReaderAnswers, CancelReturns, output
  <2>2. \A q \in Run : lock' = q => lock = q
    BY <2>1 DEF StdioAssumption, Request
  <2> QED
    BY <2>1, <2>2, QuietStep DEF runtimeVars, control, progress, history
<1>10. CASE Close \/ Abort
  BY <1>10, QuietStep DEF Close, Abort, progress, history, output
<1>11. ASSUME NEW r \in Run, AbandonFrame(r)
       PROVE  StdioInv' /\ HolderInv'
  <2>1. UNCHANGED runtimeVars /\ UNCHANGED threads /\ lock' = Nobody
    BY <1>11 DEF AbandonFrame
  <2>2. \A q \in Run : lock' = q => lock = q
    BY <2>1 DEF StdioAssumption, Request
  <2> QED
    BY <2>1, <2>2, QuietStep DEF runtimeVars, control, progress, history
<1>12. ASSUME NEW r \in Run, AnswerAgain(r)
       PROVE  StdioInv' /\ HolderInv'
  <2>1. /\ lock # r /\ UNCHANGED <<seq, stored, queue, got, threads, lock, stage>>
        /\ stage[r] = "reporting"
    BY <1>12 DEF AnswerAgain, progress, history, stdioVars, output
  <2>2. stage' = [stage EXCEPT ![r] = "reporting"]
    BY <2>1 DEF HolderInv
  <2>3. PICK frames \in Seq(Sendable(r)) : todo' = [todo EXCEPT ![r] = frames]
    BY <1>12, CancelledIsSendable DEF AnswerAgain
  <2> QED
    BY <2>1, <2>2, <2>3, TodoStep
<1>13. CASE UNCHANGED vars
  BY <1>13, QuietStep DEF vars, runtimeVars, control, progress, history, stdioVars, output
<1> QED
  BY <1>2, <1>3, <1>4, <1>5, <1>6, <1>7, <1>8, <1>9, <1>10, <1>11, <1>12, <1>13
     DEF AnyNext, Next

\* A new server satisfies the invariant.
LEMMA StdioInit ==
  ASSUME Init
  PROVE  StdioInv /\ HolderInv
<1>1. /\ RuntimeInit /\ threads = [r \in Run |-> <<>>]
      /\ stage = [r \in Run |-> "new"] /\ todo = [r \in Run |-> <<>>]
      /\ lock = Nobody
  BY DEF Init, RuntimeInit
<1>2. \A r \in Run : lock # r
  BY <1>1, StdioAssumption DEF StdioAssumption, Request
<1>3. StdioInv
  BY <1>1, InitIsDurable DEF StdioInv, Durable
<1>4. HolderInv
  BY <1>1, <1>2 DEF HolderInv, Holder, Stages
<1> QED
  BY <1>3, <1>4

\* For any requests, capacities and stores: run_completed and run_result are
\* written to stdout only when the conversation has the run's messages.
THEOREM StdioCompletedIsDurable == Spec => []CompletedIsDurable
<1>1. Init => StdioInv /\ HolderInv
  BY StdioInit
<1>2. StdioInv /\ HolderInv /\ [Next]_vars => (StdioInv /\ HolderInv)'
  BY ServerAssumption, StdioAssumption, StdioStep DEF AnyNext
<1>3. StdioInv /\ HolderInv => CompletedIsDurable
  BY DurableImplies DEF StdioInv
<1> QED
  BY <1>1, <1>2, <1>3, PTL DEF Spec

\* The same when the shutdown outlasts its grace period.
THEOREM AbortedCompletedIsDurable == AbortSpec => []CompletedIsDurable
<1>1. Init => StdioInv /\ HolderInv
  BY StdioInit
<1>2. /\ StdioInv /\ HolderInv
      /\ [Next \/ Abort \/ \E r \in Run : AnswerAgain(r)]_vars
      => (StdioInv /\ HolderInv)'
  BY ServerAssumption, StdioAssumption, StdioStep DEF AnyNext
<1>3. StdioInv /\ HolderInv => CompletedIsDurable
  BY DurableImplies DEF StdioInv
<1> QED
  BY <1>1, <1>2, <1>3, PTL DEF AbortSpec

\* The same when frames are cut off from their tasks.
THEOREM ImpatientCompletedIsDurable == ImpatientSpec => []CompletedIsDurable
<1>1. Init => StdioInv /\ HolderInv
  BY StdioInit
<1>2. /\ StdioInv /\ HolderInv
      /\ [Next \/ \E r \in Run : AbandonFrame(r)]_vars
      => (StdioInv /\ HolderInv)'
  BY ServerAssumption, StdioAssumption, StdioStep DEF AnyNext
<1>3. StdioInv /\ HolderInv => CompletedIsDurable
  BY DurableImplies DEF StdioInv
<1> QED
  BY <1>1, <1>2, <1>3, PTL DEF ImpatientSpec
-----------------------------------------------------------------------------
(* Runs, their frames and the order of the requests *)

\* Where the task of a run stands: before it reports, its client has no
\* terminal frame, nor is it sending one; a task that reports has the terminal
\* frame behind what it still has to send, or has sent it, and nothing
\* interrupts it any more.
Course(r) ==
  /\ ~gone[r] /\ queue[r] = <<>>
  /\ stage[r] = "new" => ~kick[r]
  /\ stage[r] = "queued" => (kick[r] => cancelled[r])
  /\ stage[r] \notin {"reporting", "done"} => ~terminal[r] /\ ~Some(got[r], Terminals)
  /\ stage[r] \in {"sending", "usage", "failed"} => ~Some(todo[r], Terminals)
  /\ stage[r] = "reporting" =>
       /\ ~kick[r] /\ ~draining[r] /\ (terminal[r] \/ cancelled[r])
       /\ \A i \in 1 .. Len(todo[r]) : todo[r][i].kind \in Terminals <=> i = Len(todo[r])
       /\ Some(got[r], Terminals) <=> todo[r] = <<>>
  /\ stage[r] = "done" => Some(got[r], Terminals)

\* A thread writes the frame that the holder of the lock sends.
Writer(r) ==
  /\ threads[r] = IF lock = r THEN <<Head(todo[r])>> ELSE <<>>
  /\ draining[r] => lock = r

Courses == \A r \in Run : Course(r) /\ Writer(r)

\* Requests that have arrived and not finished.
Active(q) == IF q \in Run THEN Live(q) ELSE command[q] \notin {"new", "done"}

\* `pending` holds each active request once, each knows all that are before it,
\* and none but the first executes.
OrderInv ==
  /\ pending \in Seq(Request) /\ Distinct(pending)
  /\ previous \in [Request -> Seq(Request)]
  /\ \A q \in Request : Active(q) <=> \E i \in 1 .. Len(pending) : pending[i] = q
  /\ \A j \in 1 .. Len(pending) :
       /\ \A i \in 1 .. j - 1 :
            \E k \in 1 .. Len(previous[pending[j]]) : previous[pending[j]][k] = pending[i]
       /\ pending[j] \in Executing => j = 1

StdioTypes ==
  /\ RunTypes
  /\ command \in [Command -> CommandStages]
  /\ reader \in {"idle", "answering", "closing", "aborted"} \cup Run
  /\ lock \in Request \cup {Reader, Nobody}
  /\ draining \in [Run -> BOOLEAN]
  /\ \A c \in Command : command[c] = "writing" => lock = c

ConnectionInv ==
  StdioInv /\ HolderInv /\ SlotInv /\ StdioTypes /\ OrderInv /\ Courses

\* A run that a step leaves alone, or cancels before it reports.
Untouched(q) ==
  /\ stage'[q] = stage[q] /\ todo'[q] = todo[q] /\ queue'[q] = queue[q]
  /\ got'[q] = got[q] /\ gone'[q] = gone[q] /\ terminal'[q] = terminal[q]
  /\ draining'[q] = draining[q] /\ threads'[q] = threads[q]
  /\ lock' = q <=> lock = q
  /\ cancelled[q] => cancelled'[q]
  /\ \/ kick'[q] = kick[q]
     \/ cancelled'[q] /\ ~cancelled[q] /\ ~terminal[q] /\ stage[q] # "new"

LEMMA UntouchedKeeps ==
  ASSUME NEW q, Course(q), Writer(q), Untouched(q)
  PROVE  Course(q)' /\ Writer(q)'
<1>1. Course(q)'
  BY DEF Course, Untouched
<1>2. Writer(q)'
  BY DEF Writer, Untouched
<1> QED
  BY <1>1, <1>2

LEMMA OneCourse ==
  ASSUME Courses, NEW r \in Run, Course(r)', Writer(r)', \A q \in Run \ {r} : Untouched(q)
  PROVE  Courses'
<1>1. \A q \in Run \ {r} : Course(q)' /\ Writer(q)'
  BY UntouchedKeeps DEF Courses
<1> QED
  BY <1>1 DEF Courses

\* A task that sends nothing and waits for no frame of its own.
LEMMA NoFrame ==
  ASSUME NEW r, Writer(r), lock # r
  PROVE  threads[r] = <<>> /\ ~draining[r]
BY DEF Writer

\* A send suspends the task.
LEMMA PushSuspends ==
  ASSUME StdioAssumption, DurableInv, HolderInv, NEW r \in Run, Course(r),
         NEW frames, NEW blocked, NEW after, Push(r, frames, blocked, after)
  PROVE  /\ todo'[r] = frames /\ stage'[r] = blocked /\ queue' = queue
         /\ \A q \in Run \ {r} : todo'[q] = todo[q] /\ stage'[q] = stage[q]
<1>1. ~gone[r] /\ queue[r] = <<>> /\ todo \in [Run -> Seq(Frames)] /\ stage \in [Run -> Stages]
  BY DEF Course, DurableInv, Durable, HolderInv
<1>2. ~Room(r)
  BY <1>1 DEF Room, StdioAssumption
<1>3. todo' = [todo EXCEPT ![r] = frames] /\ stage' = [stage EXCEPT ![r] = blocked] /\ queue' = queue
  BY <1>1, <1>2 DEF Push
<1> QED
  BY <1>1, <1>3

\* What the runtime sends at the end has its terminal frame last.
Closing(frames) ==
  /\ frames # <<>>
  /\ \A i \in 1 .. Len(frames) : frames[i].kind \in Terminals <=> i = Len(frames)

LEMMA ClosingFrames ==
  ASSUME StdioAssumption, NEW r, seq[r] \in Nat, NEW error \in {"server_error", "run_cancelled"}
  PROVE  /\ Closing(FailureFrames(r, error)) /\ Closing(CompletionFrames(r))
         /\ Closing(<<Frame("run_cancelled", 0)>>)
<1> DEFINE f == Frame("run_failed", seq[r])
           g == Frame(error, 0)
           h == Frame("run_completed", seq[r])
           k == Frame("run_result", 0)
           c == Frame("run_cancelled", 0)
<1>1. /\ f \in Frames /\ g \in Frames /\ h \in Frames /\ k \in Frames
      /\ f.kind \notin Terminals /\ h.kind \notin Terminals
      /\ g.kind \in Terminals /\ k.kind \in Terminals /\ c.kind \in Terminals
  BY DEF Frame, Frames, Events, Terminals
<1>2. FailureFrames(r, error) = ((IF last[r] = "event" THEN <<f>> ELSE <<>>) \o <<g>>) \o <<>>
  BY DEF FailureFrames, StdioAssumption
<1>3. CompletionFrames(r) = <<h, k>> \o <<>>
  BY DEF CompletionFrames, StdioAssumption
<1> HIDE DEF f, g, h, k, c
<1>4. \A x \in Frames : x.kind \in Terminals => Closing(<<x>>)
  BY DEF Closing
<1>5. Closing(<<c>>)
  BY <1>1 DEF Closing
<1>6. ASSUME NEW x \in Frames, NEW y \in Frames, x.kind \notin Terminals, y.kind \in Terminals
      PROVE  Closing(<<x, y>>)
  <2> DEFINE p == <<x, y>>
  <2>1. Len(p) = 2 /\ p[1] = x /\ p[2] = y /\ p # <<>>
    BY Pair
  <2> HIDE DEF p
  <2>2. \A i \in 1 .. Len(p) : i = 1 \/ i = 2
    BY <2>1
  <2>3. Closing(p)
    BY <1>6, <2>1, <2>2 DEF Closing
  <2> QED
    BY <2>3 DEF p
<1>7. Closing(CompletionFrames(r))
  <2>1. <<h, k>> \in Seq(Frames)
    BY <1>1
  <2>2. <<h, k>> \o <<>> = <<h, k>>
    BY <2>1, ConcatEmptySeq
  <2> QED
    BY <1>1, <1>3, <1>6, <2>2
<1>8. Closing(FailureFrames(r, error))
  <2>1. CASE last[r] = "event"
    <3>1. FailureFrames(r, error) = (<<f>> \o <<g>>) \o <<>>
      BY <1>2, <2>1
    <3>2. <<f>> \o <<g>> = <<f, g>> /\ <<f, g>> \in Seq(Frames)
      BY <1>1, Pair
    <3>3. <<f, g>> \o <<>> = <<f, g>>
      BY <3>2, ConcatEmptySeq
    <3> QED
      BY <1>1, <1>6, <3>1, <3>2, <3>3
  <2>2. CASE last[r] # "event"
    <3>1. FailureFrames(r, error) = (<<>> \o <<g>>) \o <<>>
      BY <1>2, <2>2
    <3>2. <<g>> \in Seq(Frames)
      BY <1>1
    <3>3. <<>> \o <<g>> = <<g>> /\ <<g>> \o <<>> = <<g>>
      BY <3>2, ConcatEmptySeq
    <3> QED
      BY <1>1, <1>4, <3>1, <3>3
  <2> QED
    BY <2>1, <2>2
<1> QED
  BY <1>5, <1>7, <1>8 DEF c

\* A run begins to report.
LEMMA ReportBegins ==
  ASSUME NEW r \in Run, Course(r), Writer(r), lock # r, stage[r] \notin {"reporting", "done"},
         NEW frames, Closing(frames), todo'[r] = frames, stage'[r] = "reporting",
         queue'[r] = queue[r], got'[r] = got[r], gone'[r] = gone[r],
         threads'[r] = threads[r], draining'[r] = draining[r], lock' = lock,
         ~kick'[r], terminal'[r] \/ cancelled'[r]
  PROVE  Course(r)' /\ Writer(r)'
<1>1. ~draining[r] /\ threads[r] = <<>> /\ ~Some(got[r], Terminals)
  BY NoFrame DEF Course
<1>2. Some(got[r], Terminals)' <=> todo'[r] = <<>>
  BY <1>1 DEF Some, Closing
<1>3. Course(r)'
  BY <1>1, <1>2 DEF Course, Closing
<1>4. Writer(r)'
  BY <1>1 DEF Writer
<1> QED
  BY <1>3, <1>4

LEMMA FailCourse ==
  ASSUME StdioAssumption, DurableInv, HolderInv, StdioTypes, Courses, NEW r \in Run,
         NEW error \in {"server_error", "run_cancelled"}, Fail(r, error), lock # r,
         stage[r] \notin {"reporting", "done"},
         UNCHANGED <<got, gone, cancelled, lock, threads, draining>>
  PROVE  Courses' /\ stage'[r] = "reporting" /\ terminal'[r]
         /\ \A q \in Run \ {r} : Untouched(q)
<1> DEFINE frames == FailureFrames(r, error)
<1>1. Course(r) /\ Writer(r) /\ seq[r] \in Nat
  BY DEF Courses, DurableInv
<1>2. Closing(frames)
  BY <1>1, ClosingFrames
<1>3. Push(r, frames, "reporting", "done")
  BY DEF Fail
<1> HIDE DEF frames
<1>4. /\ todo'[r] = frames /\ stage'[r] = "reporting" /\ queue' = queue
      /\ \A q \in Run \ {r} : todo'[q] = todo[q] /\ stage'[q] = stage[q]
  BY <1>1, <1>3, PushSuspends
<1>5. terminal'[r] /\ ~kick'[r] /\ \A q \in Run \ {r} : terminal'[q] = terminal[q] /\ kick'[q] = kick[q]
  BY DEF Fail, StdioTypes, RunTypes
<1>6. Course(r)' /\ Writer(r)'
  BY <1>1, <1>2, <1>4, <1>5, ReportBegins
<1>7. \A q \in Run \ {r} : Untouched(q)
  BY <1>4, <1>5 DEF Untouched
<1>8. Courses'
  BY <1>6, <1>7, OneCourse
<1> QED
  BY <1>4, <1>5, <1>7, <1>8

\* A run that goes on without frames to send.
LEMMA MoveCourse ==
  ASSUME HolderInv, Courses, NEW r \in Run, NEW next, next \notin Sends \cup {"done", "new"},
         stage[r] \notin Sends \cup {"done"}, stage' = [stage EXCEPT ![r] = next],
         next = "queued" => stage[r] = "new",
         UNCHANGED <<todo, queue, terminal, kick, got, cancelled, gone, lock, threads, draining>>
  PROVE  Courses' /\ \A q \in Run \ {r} : Untouched(q)
<1>1. stage'[r] = next /\ \A q \in Run \ {r} : stage'[q] = stage[q]
  BY DEF HolderInv
<1>2. Course(r) /\ Writer(r)
  BY DEF Courses
<1>3. Course(r)'
  BY <1>1, <1>2 DEF Course, Sends
<1>4. Writer(r)'
  BY <1>2 DEF Writer
<1>5. \A q \in Run \ {r} : Untouched(q)
  BY <1>1 DEF Untouched
<1> QED
  BY <1>3, <1>4, <1>5, OneCourse

LEMMA EnterCourse ==
  ASSUME StdioAssumption, DurableInv, HolderInv, StdioTypes, Courses, NEW r \in Run,
         stage[r] \in {"new", "queued"}, Enter(r), UNCHANGED <<lock, threads, draining>>
  PROVE  Courses' /\ (\A q \in Run \ {r} : Untouched(q))
         /\ (stage'[r] = "slot" \/ (stage'[r] = "reporting" /\ terminal'[r]))
<1>1. lock # r
  BY NoLockOutside DEF Sends
<1>2. CASE UnknownAgent(r)
  BY <1>1, <1>2, FailCourse DEF UnknownAgent
<1>3. CASE JoinLine(r)
  <2>1. stage'[r] = "slot"
    BY <1>3 DEF JoinLine, HolderInv
  <2> QED
    BY <1>3, <2>1, MoveCourse DEF JoinLine, Sends
<1> QED
  BY <1>2, <1>3 DEF Enter

\* An event, or the agent's own run_failed, is sent.
LEMMA EmitCourse ==
  ASSUME StdioAssumption, DurableInv, HolderInv, Courses, NEW r \in Run,
         stage[r] \notin Sends \cup {"new", "done"}, NEW kind \in {"event", "run_failed"},
         NEW blocked \in {"sending", "usage", "failed"}, NEW after,
         Push(r, <<Frame(kind, seq[r])>>, blocked, after),
         UNCHANGED <<terminal, kick, got, cancelled, gone, lock, threads, draining>>
  PROVE  Courses' /\ stage'[r] = blocked /\ \A q \in Run \ {r} : Untouched(q)
<1> DEFINE frames == <<Frame(kind, seq[r])>>
<1>1. Course(r) /\ Writer(r) /\ lock # r /\ threads[r] = <<>> /\ ~draining[r]
  BY NoLockOutside, NoFrame DEF Courses
<1>2. Len(frames) = 1 /\ frames[1].kind \notin Terminals
  BY DEF Frame, Terminals
<1>3. Push(r, frames, blocked, after)
  OBVIOUS
<1> HIDE DEF frames
<1>4. ~Some(frames, Terminals)
  BY <1>2 DEF Some
<1>5. /\ todo'[r] = frames /\ stage'[r] = blocked /\ queue' = queue
      /\ \A q \in Run \ {r} : todo'[q] = todo[q] /\ stage'[q] = stage[q]
  BY <1>1, <1>3, PushSuspends
<1>6. ~terminal[r] /\ ~Some(got[r], Terminals)
  BY <1>1 DEF Course, Sends
<1>7. Some(got[r], Terminals)' <=> Some(got[r], Terminals)
  BY DEF Some
<1>8. ~Some(todo[r], Terminals)'
  BY <1>4, <1>5 DEF Some
<1>9. Course(r)'
  BY <1>1, <1>5, <1>6, <1>7, <1>8 DEF Course
<1>10. Writer(r)'
  BY <1>1 DEF Writer
<1>11. \A q \in Run \ {r} : Untouched(q)
  BY <1>5 DEF Untouched
<1> QED
  BY <1>5, <1>9, <1>10, <1>11, OneCourse

\* The stages in which a run executes, before it reports.
Working == InSession \cup {"slot", "agentSlot"}

\* A step of the runtime keeps a run executing.
LEMMA RunStepCourse ==
  ASSUME StdioAssumption, DurableInv, HolderInv, StdioTypes, Courses, NEW r \in Run,
         RunStep(r), UNCHANGED <<lock, threads, draining>>
  PROVE  /\ Courses' /\ stage[r] \in Working
         /\ stage'[r] \in Working \/ (stage'[r] = "reporting" /\ terminal'[r])
         /\ \A q \in Run \ {r} : Untouched(q)
<1>0. /\ stage[r] \notin Sends \cup {"new", "queued", "done"} /\ stage[r] \in Working
      /\ stage \in [Run -> Stages]
  BY DEF RunStep, TakeServerSlot, TakeAgentSlot, Authorize, Load, SessionFails,
         OpenStream, StreamEvent, StreamResult, StreamFails, StoreApplies,
         PersistReturns, PersistFails, Sends, Working, InSession, HolderInv
<1>1. lock # r /\ stage[r] \notin {"reporting", "done"}
  BY <1>0, NoLockOutside DEF Sends
<1>2. ASSUME NEW next \in {"agentSlot", "authorizing", "loading", "preparing"},
             stage' = [stage EXCEPT ![r] = next],
             UNCHANGED <<todo, queue, terminal, kick, got, cancelled, gone>>
      PROVE  /\ Courses' /\ stage'[r] \in Working
             /\ \A q \in Run \ {r} : Untouched(q)
  <2>1. stage'[r] \in Working
    BY <1>0, <1>2 DEF Working, InSession
  <2>2. next \notin Sends \cup {"done", "new"} /\ next # "queued"
    BY <1>2 DEF Sends
  <2> QED
    BY <1>0, <1>2, <2>1, <2>2, MoveCourse
<1>3. CASE TakeServerSlot(r) \/ TakeAgentSlot(r) \/ Authorize(r) \/ Load(r)
  <2>1. \E next \in {"agentSlot", "authorizing", "loading", "preparing"} :
          stage' = [stage EXCEPT ![r] = next]
    BY <1>3 DEF TakeServerSlot, TakeAgentSlot, Authorize, Load
  <2>2. UNCHANGED <<todo, queue, terminal, kick, got, cancelled, gone>>
    BY <1>3 DEF TakeServerSlot, TakeAgentSlot, Authorize, Load
  <2> QED
    BY <1>0, <1>2, <2>1, <2>2
<1>4. ASSUME Fail(r, "server_error"), UNCHANGED <<got, gone, cancelled>>
      PROVE  /\ Courses' /\ stage'[r] = "reporting" /\ terminal'[r]
             /\ \A q \in Run \ {r} : Untouched(q)
  BY <1>1, <1>4, FailCourse
<1>5. CASE SessionFails(r) \/ PersistFails(r)
  BY <1>0, <1>4, <1>5 DEF SessionFails, PersistFails
<1>6. ASSUME NEW kind \in {"event", "run_failed"}, NEW blocked \in {"sending", "usage", "failed"},
             NEW after, Push(r, <<Frame(kind, seq[r])>>, blocked, after),
             UNCHANGED <<terminal, kick, got, cancelled, gone>>
      PROVE  /\ Courses' /\ stage'[r] \in Working
             /\ \A q \in Run \ {r} : Untouched(q)
  <2>1. blocked \in Working
    BY <1>6 DEF Working, InSession
  <2> QED
    BY <1>0, <1>6, <2>1, EmitCourse
<1>7. CASE OpenStream(r) \/ StreamEvent(r) \/ StreamResult(r)
  BY <1>0, <1>6, <1>7 DEF OpenStream, StreamEvent, StreamResult, EmitEvent
<1>8. CASE StreamFails(r)
  BY <1>0, <1>4, <1>6, <1>8 DEF StreamFails
<1>9. CASE StoreApplies(r)
  <2>1. UNCHANGED <<stage, todo, queue, terminal, kick, got, cancelled, gone>>
    BY <1>9 DEF StoreApplies, control
  <2>2. \A q \in Run : Untouched(q)
    BY <2>1 DEF Untouched
  <2>3. Courses'
    BY <2>2, UntouchedKeeps DEF Courses
  <2> QED
    BY <1>0, <2>1, <2>2, <2>3
<1>10. CASE PersistReturns(r)
  <2> DEFINE frames == CompletionFrames(r)
  <2>1. /\ Push(r, frames, "reporting", "done") /\ terminal' = [terminal EXCEPT ![r] = TRUE]
        /\ UNCHANGED <<kick, got, cancelled, gone>> /\ ~kick[r] /\ seq[r] \in Nat
    BY <1>10 DEF PersistReturns, DurableInv
  <2>2. Closing(frames)
    BY <2>1, ClosingFrames
  <2> HIDE DEF frames
  <2>3. Course(r) /\ Writer(r)
    BY DEF Courses
  <2>4. /\ todo'[r] = frames /\ stage'[r] = "reporting" /\ queue' = queue
        /\ \A q \in Run \ {r} : todo'[q] = todo[q] /\ stage'[q] = stage[q]
    BY <2>1, <2>3, PushSuspends
  <2>5. terminal'[r] /\ \A q \in Run \ {r} : terminal'[q] = terminal[q]
    BY <2>1 DEF StdioTypes, RunTypes
  <2>6. Course(r)' /\ Writer(r)'
    BY <1>1, <2>1, <2>2, <2>3, <2>4, <2>5, ReportBegins
  <2>7. \A q \in Run \ {r} : Untouched(q)
    BY <2>1, <2>4, <2>5 DEF Untouched
  <2> QED
    BY <1>0, <2>4, <2>5, <2>6, <2>7, OneCourse
<1> QED
  BY <1>0, <1>3, <1>5, <1>7, <1>8, <1>9, <1>10 DEF RunStep

-----------------------------------------------------------------------------
(* The frame of a task *)

LEMMA SomeAppended ==
  ASSUME NEW s \in Seq(Frames), NEW f \in Frames, NEW kinds
  PROVE  Some(Append(s, f), kinds) <=> Some(s, kinds) \/ f.kind \in kinds
<1> DEFINE u == Append(s, f)
<1>1. /\ Len(s) \in Nat /\ Len(u) = Len(s) + 1 /\ u[Len(s) + 1] = f
      /\ \A i \in 1 .. Len(s) : u[i] = s[i]
  BY AppendProperties
<1> HIDE DEF u
<1>2. \A i \in 1 .. Len(u) : i \in 1 .. Len(s) \/ i = Len(s) + 1
  BY <1>1
<1>3. (\A i \in 1 .. Len(s) : i \in 1 .. Len(u)) /\ Len(s) + 1 \in 1 .. Len(u)
  BY <1>1
<1>4. Some(u, kinds) => Some(s, kinds) \/ f.kind \in kinds
  BY <1>1, <1>2 DEF Some
<1>5. Some(s, kinds) \/ f.kind \in kinds => Some(u, kinds)
  BY <1>1, <1>3 DEF Some
<1> QED
  BY <1>4, <1>5 DEF u

\* The thread of the lock's holder writes the head of what the task sends.
LEMMA FrameWritten ==
  ASSUME StdioAssumption, StdioInv, HolderInv, StdioTypes, Courses, NEW r \in Run,
         NEW i \in DOMAIN threads[r], ThreadWrites(r, i)
  PROVE  /\ lock = r /\ lock' = Nobody /\ Nobody \notin Run /\ stage[r] \in Sends
         /\ FrameDone(r) /\ todo[r] \in Seq(Frames) /\ todo[r] # <<>>
         /\ Head(todo[r]) \in Frames /\ got[r] \in Seq(Frames)
         /\ got'[r] = Append(got[r], Head(todo[r])) /\ threads'[r] = <<>> /\ ~draining'[r]
         /\ (kick'[r] <=> kick[r] \/ draining[r])
         /\ UNCHANGED <<queue, cancelled, gone>>
         /\ \A q \in Run \ {r} :
              /\ got'[q] = got[q] /\ threads'[q] = threads[q]
              /\ draining'[q] = draining[q] /\ kick'[q] = kick[q]
<1> DEFINE h == Head(todo[r])
<1>1. /\ Writer(r) /\ todo[r] \in Seq(Frames) /\ got[r] \in Seq(Frames)
      /\ got \in [Run -> Seq(Frames)] /\ threads \in [Run -> Seq(Frames)]
      /\ kick \in [Run -> BOOLEAN] /\ draining \in [Run -> BOOLEAN]
  BY DEF Courses, StdioInv, DurableInv, Durable, StdioTypes, RunTypes
<1>2. threads[r] # <<>>
  OBVIOUS
<1>3. lock = r /\ threads[r] = <<h>>
  BY <1>1, <1>2 DEF Writer
<1>4. todo[r] # <<>> /\ stage[r] \in Sends
  BY <1>3 DEF HolderInv, Holder
<1>5. h \in Frames
  BY <1>1, <1>4, HeadTailProperties
<1>6. Len(threads[r]) = 1 /\ i = 1 /\ threads[r][i] = h
  BY <1>3
<1>7. /\ got' = [got EXCEPT ![r] = Append(@, threads[r][i])]
      /\ threads' = [threads EXCEPT ![r] = RemoveAt(@, i)]
      /\ FrameDone(r) /\ UNCHANGED <<queue, cancelled, gone>>
  BY <1>3, <1>6 DEF ThreadWrites
<1>8. got'[r] = Append(got[r], h) /\ \A q \in Run \ {r} : got'[q] = got[q]
  BY <1>1, <1>6, <1>7
<1>9. RemoveAt(threads[r], i) = <<>>
  <2> DEFINE s == threads[r]
  <2>1. s \in Seq(Frames) /\ Len(s) = 1 /\ i = 1
    BY <1>1, <1>6
  <2> HIDE DEF s
  <2>2. /\ SubSeq(s, 1, 0) \in Seq(Frames) /\ Len(SubSeq(s, 1, 0)) = 0
        /\ SubSeq(s, 2, 1) \in Seq(Frames) /\ Len(SubSeq(s, 2, 1)) = 0
    BY <2>1, SubSeqProperties
  <2>3. SubSeq(s, 1, 0) = <<>> /\ SubSeq(s, 2, 1) = <<>>
    BY <2>2, EmptySeq
  <2>4. RemoveAt(s, 1) = SubSeq(s, 1, 0) \o SubSeq(s, 2, 1)
    BY <2>1 DEF RemoveAt
  <2>5. <<>> \o <<>> = <<>>
    OBVIOUS
  <2> QED
    BY <2>1, <2>3, <2>4, <2>5 DEF s
<1>10. threads'[r] = <<>> /\ \A q \in Run \ {r} : threads'[q] = threads[q]
  BY <1>1, <1>7, <1>9
<1>11. /\ ~draining'[r] /\ (kick'[r] <=> kick[r] \/ draining[r])
       /\ \A q \in Run \ {r} : draining'[q] = draining[q] /\ kick'[q] = kick[q]
  BY <1>1, <1>7 DEF FrameDone
<1> QED
  BY <1>1, <1>3, <1>4, <1>5, <1>7, <1>8, <1>10, <1>11 DEF FrameDone, StdioAssumption, Request

\* An interrupted task goes on only to fail, others go on.
LEMMA FrameCourse ==
  ASSUME StdioAssumption, StdioInv, HolderInv, StdioTypes, Courses, NEW r \in Run,
         NEW i \in DOMAIN threads[r], ThreadWrites(r, i)
  PROVE  /\ Courses' /\ (\A q \in Run \ {r} : Untouched(q))
         /\ \/ /\ stage[r] \in Working
               /\ stage'[r] \in Working \/ (stage'[r] = "reporting" /\ terminal'[r])
            \/ /\ stage[r] = "reporting" /\ stage'[r] = "reporting"
               /\ terminal'[r] = terminal[r]
<1> DEFINE h == Head(todo[r])
           g == got[r]
<1>1. /\ lock = r /\ lock' = Nobody /\ Nobody \notin Run /\ stage[r] \in Sends
      /\ FrameDone(r) /\ todo[r] \in Seq(Frames) /\ todo[r] # <<>> /\ h \in Frames /\ g \in Seq(Frames)
      /\ got'[r] = Append(g, h) /\ threads'[r] = <<>> /\ ~draining'[r]
      /\ (kick'[r] <=> kick[r] \/ draining[r])
      /\ UNCHANGED <<queue, cancelled, gone>>
      /\ \A q \in Run \ {r} :
           /\ got'[q] = got[q] /\ threads'[q] = threads[q]
           /\ draining'[q] = draining[q] /\ kick'[q] = kick[q]
  BY FrameWritten
<1>2. /\ Course(r) /\ stage \in [Run -> Stages] /\ todo \in [Run -> Seq(Frames)]
      /\ terminal \in [Run -> BOOLEAN] /\ seq[r] \in Nat
  BY DEF Courses, HolderInv, StdioInv, DurableInv, Durable, StdioTypes, RunTypes
<1>3. /\ h = todo[r][1] /\ Len(todo[r]) \in Nat \ {0}
      /\ Tail(todo[r]) \in Seq(Frames) /\ Len(Tail(todo[r])) = Len(todo[r]) - 1
      /\ \A k \in 1 .. Len(Tail(todo[r])) : Tail(todo[r])[k] = todo[r][k + 1]
  BY <1>1, HeadTailProperties, EmptySeq
<1>4. Some(got[r], Terminals)' <=> Some(g, Terminals) \/ h.kind \in Terminals
  <2>1. Some(got[r], Terminals)' <=> Some(Append(g, h), Terminals)
    BY <1>1 DEF Some
  <2> QED
    BY <1>1, <2>1, SomeAppended
<1>5. Writer(r)'
  BY <1>1 DEF Writer
<1>6. ASSUME \A q \in Run \ {r} : stage'[q] = stage[q] /\ todo'[q] = todo[q] /\ terminal'[q] = terminal[q]
      PROVE  \A q \in Run \ {r} : Untouched(q)
  BY <1>1, <1>6 DEF Untouched
<1> HIDE DEF h, g
<1>7. ASSUME stage[r] \in {"sending", "usage", "failed"}
      PROVE  ~Some(got[r], Terminals)' /\ ~Some(todo[r], Terminals) /\ stage[r] \in Working /\ ~terminal[r]
  <2>1. ~Some(todo[r], Terminals) /\ ~Some(g, Terminals) /\ ~terminal[r]
    BY <1>2, <1>7 DEF Course, g
  <2>2. h.kind \notin Terminals
    BY <1>3, <2>1 DEF Some
  <2> QED
    BY <1>4, <1>7, <2>1, <2>2 DEF Working, InSession
<1>8. CASE kick[r] \/ draining[r]
  <2>1. UNCHANGED <<stage, todo, terminal>>
    BY <1>1, <1>8 DEF FrameDone
  <2>2. stage[r] \in {"sending", "usage", "failed"}
    BY <1>1, <1>2, <1>8 DEF Course, Sends
  <2>3. ~Some(todo[r], Terminals)'
    BY <1>7, <2>1, <2>2 DEF Some
  <2>4. Course(r)'
    BY <1>1, <1>2, <1>7, <2>1, <2>2, <2>3 DEF Course
  <2> QED
    BY <1>5, <1>6, <1>7, <2>1, <2>2, <2>4, OneCourse
<1>9. CASE ~(kick[r] \/ draining[r]) /\ stage[r] = "reporting"
  <2>1. todo' = [todo EXCEPT ![r] = Tail(@)] /\ UNCHANGED <<stage, terminal>>
    BY <1>1, <1>9 DEF FrameDone
  <2>2. todo'[r] = Tail(todo[r]) /\ \A q \in Run \ {r} : todo'[q] = todo[q]
    BY <1>2, <2>1
  <2>3. ~Some(g, Terminals) /\ (h.kind \in Terminals <=> Len(todo[r]) = 1)
    <3>1. /\ \A k \in 1 .. Len(todo[r]) : todo[r][k].kind \in Terminals <=> k = Len(todo[r])
          /\ Some(got[r], Terminals) <=> todo[r] = <<>>
      BY <1>2, <1>9 DEF Course
    <3>2. 1 \in 1 .. Len(todo[r])
      BY <1>3
    <3>3. h.kind \in Terminals <=> 1 = Len(todo[r])
      BY <1>3, <3>1, <3>2
    <3> QED
      BY <1>1, <1>3, <3>1, <3>3 DEF g
  <2>4. Some(got[r], Terminals)' <=> todo'[r] = <<>>
    <3>1. Tail(todo[r]) = <<>> <=> Len(todo[r]) = 1
      <4>1. Tail(todo[r]) = <<>> <=> Len(Tail(todo[r])) = 0
        BY <1>3, EmptySeq
      <4> QED
        BY <1>3, <4>1
    <3> QED
      BY <1>4, <2>2, <2>3, <3>1
  <2>5. \A k \in 1 .. Len(todo'[r]) : todo'[r][k].kind \in Terminals <=> k = Len(todo'[r])
    <3> SUFFICES ASSUME NEW k \in 1 .. Len(Tail(todo[r]))
                 PROVE  Tail(todo[r])[k].kind \in Terminals <=> k = Len(Tail(todo[r]))
      BY <2>2
    <3>1. k + 1 \in 1 .. Len(todo[r]) /\ Tail(todo[r])[k] = todo[r][k + 1]
      BY <1>3
    <3>2. todo[r][k + 1].kind \in Terminals <=> k + 1 = Len(todo[r])
      BY <1>2, <1>9, <3>1 DEF Course
    <3> QED
      BY <1>3, <3>1, <3>2
  <2>6. Course(r)'
    BY <1>1, <1>2, <1>9, <2>1, <2>4, <2>5 DEF Course
  <2> QED
    BY <1>5, <1>6, <1>9, <2>1, <2>2, <2>6, OneCourse
<1>10. CASE ~(kick[r] \/ draining[r]) /\ stage[r] # "reporting"
  <2>1. Resume(r) /\ stage[r] \in {"sending", "usage", "failed"} /\ ~kick'[r]
    BY <1>1, <1>10 DEF FrameDone, Sends
  <2>2. /\ ~Some(got[r], Terminals)' /\ ~Some(todo[r], Terminals) /\ stage[r] \in Working /\ ~terminal[r]
    BY <1>7, <2>1
  <2>3. CASE Len(todo[r]) > 1
    <3>1. todo' = [todo EXCEPT ![r] = Tail(@)] /\ UNCHANGED <<stage, terminal>>
      BY <2>1, <2>3 DEF Resume
    <3>2. todo'[r] = Tail(todo[r]) /\ \A q \in Run \ {r} : todo'[q] = todo[q]
      BY <1>2, <3>1
    <3>3. ~Some(todo[r], Terminals)'
      <4>1. \A k \in 1 .. Len(Tail(todo[r])) : k + 1 \in 1 .. Len(todo[r])
        BY <1>3
      <4> QED
        BY <1>3, <2>2, <3>2, <4>1 DEF Some
    <3>4. Course(r)'
      BY <1>1, <1>2, <2>1, <2>2, <3>1, <3>3 DEF Course
    <3> QED
      BY <1>5, <1>6, <2>2, <3>1, <3>2, <3>4, OneCourse
  <2>4. CASE ~(Len(todo[r]) > 1) /\ stage[r] = "failed"
    <3> DEFINE frames == FailureFrames(r, "server_error")
    <3>1. /\ todo' = [todo EXCEPT ![r] = frames] /\ stage' = [stage EXCEPT ![r] = "reporting"]
          /\ terminal' = [terminal EXCEPT ![r] = TRUE]
      BY <2>1, <2>4 DEF Resume
    <3>2. Closing(frames)
      BY <1>2, ClosingFrames
    <3> HIDE DEF frames
    <3>3. /\ todo'[r] = frames /\ stage'[r] = "reporting" /\ terminal'[r]
          /\ \A q \in Run \ {r} : todo'[q] = todo[q] /\ stage'[q] = stage[q] /\ terminal'[q] = terminal[q]
      BY <1>2, <3>1
    <3>4. Course(r)'
      BY <1>1, <1>2, <2>1, <2>2, <3>2, <3>3 DEF Course, Closing
    <3> QED
      BY <1>5, <1>6, <2>2, <3>3, <3>4, OneCourse
  <2>5. CASE ~(Len(todo[r]) > 1) /\ stage[r] # "failed"
    <3>1. /\ todo' = [todo EXCEPT ![r] = <<>>] /\ UNCHANGED terminal
          /\ stage' = [stage EXCEPT ![r] = CASE @ = "sending" -> "streaming"
                                             [] @ = "usage" -> "persisting"
                                             [] @ = "reporting" -> "done"]
      BY <2>1, <2>5 DEF Resume
    <3>2. stage[r] \in {"sending", "usage"}
      BY <2>1, <2>5
    <3>3. /\ stage'[r] \in {"streaming", "persisting"}
          /\ \A q \in Run \ {r} : todo'[q] = todo[q] /\ stage'[q] = stage[q]
      BY <1>2, <3>1, <3>2
    <3>4. Course(r)'
      BY <1>1, <1>2, <2>2, <3>1, <3>3 DEF Course
    <3>5. stage'[r] \in Working
      BY <3>3 DEF Working, InSession
    <3> QED
      BY <1>5, <1>6, <2>2, <3>1, <3>3, <3>4, <3>5, OneCourse
  <2> QED
    BY <2>3, <2>4, <2>5
<1> QED
  BY <1>8, <1>9, <1>10

-----------------------------------------------------------------------------
(* The order of the requests *)

LEMMA ExecutingRun ==
  ASSUME StdioAssumption
  PROVE  /\ \A r \in Run : r \in Executing <=>
              stage[r] \in Working \/ (stage[r] = "reporting" /\ terminal[r])
         /\ \A c \in Command : c \in Executing <=> command[c] \in {"running", "writing"}
         /\ \A r \in Run : Active(r) <=> stage[r] \notin {"new", "done"}
         /\ \A c \in Command : Active(c) <=> command[c] \notin {"new", "done"}
         /\ Executing \subseteq Request
         /\ \A q \in Executing : Active(q)
<1>1. Run \cap Command = {}
  BY DEF StdioAssumption
<1>2. \A r \in Run : r \in Executing <=>
              stage[r] \in Working \/ (stage[r] = "reporting" /\ terminal[r])
  BY <1>1 DEF Executing, Working
<1>3. \A c \in Command : c \in Executing <=> command[c] \in {"running", "writing"}
  BY <1>1 DEF Executing
<1>4. \A r \in Run : Active(r) <=> stage[r] \notin {"new", "done"}
  BY DEF Active, Live
<1>5. \A c \in Command : Active(c) <=> command[c] \notin {"new", "done"}
  BY <1>1 DEF Active
<1>6. Executing \subseteq Request
  BY DEF Executing, Request
<1>7. \A r \in Run : stage[r] \in Working => stage[r] \notin {"new", "done"}
  BY DEF Working, InSession
<1> QED
  BY <1>2, <1>3, <1>4, <1>5, <1>6, <1>7 DEF Request

LEMMA PendingIsListed ==
  ASSUME pending \in Seq(Request), NEW q
  PROVE  IsPending(q) <=> \E i \in 1 .. Len(pending) : pending[i] = q
BY DEF IsPending, Contains

\* No request begins to execute but when its turn has come.
LEMMA OrderKept ==
  ASSUME OrderInv, UNCHANGED <<pending, previous>>,
         \A q \in Request : Active(q)' <=> Active(q),
         \A q \in Request : q \in Executing' => q \in Executing \/ Turn(q)
  PROVE  OrderInv'
<1> USE DEF OrderInv
<1>1. ASSUME NEW j \in 1 .. Len(pending), pending[j] \in Executing'
      PROVE  j = 1
  <2>1. pending[j] \in Request
    OBVIOUS
  <2>2. CASE pending[j] \in Executing
    BY <2>2
  <2>3. CASE Turn(pending[j])
    <3> SUFFICES ASSUME j # 1 PROVE FALSE
      OBVIOUS
    <3>1. 1 \in 1 .. j - 1 /\ 1 \in 1 .. Len(pending)
      OBVIOUS
    <3>2. PICK k \in 1 .. Len(previous[pending[j]]) : previous[pending[j]][k] = pending[1]
      BY <3>1
    <3>3. IsPending(pending[1])
      BY <3>1, PendingIsListed
    <3>4. k \in DOMAIN previous[pending[j]]
      BY <2>1, <3>2
    <3> QED
      BY <2>3, <3>2, <3>3, <3>4 DEF Turn
  <2> QED
    BY <1>1, <2>1, <2>2, <2>3
<1>2. \A q \in Request : Active(q)' <=> \E i \in 1 .. Len(pending) : pending[i] = q
  OBVIOUS
<1> QED
  BY <1>1, <1>2

\* A request that arrives.
LEMMA OrderAdded ==
  ASSUME OrderInv, NEW p \in Request, ~Active(p), Active(p)', p \notin Executing,
         pending' = Append(pending, p), previous' = [previous EXCEPT ![p] = pending],
         \A q \in Request \ {p} : Active(q)' <=> Active(q),
         \A q \in Request : q \in Executing' => q \in Executing \/ (q = p /\ pending = <<>>)
  PROVE  OrderInv'
<1> DEFINE new == pending'
<1>1. /\ pending \in Seq(Request) /\ Distinct(pending) /\ previous \in [Request -> Seq(Request)]
      /\ \A q \in Request : Active(q) <=> \E i \in 1 .. Len(pending) : pending[i] = q
      /\ \A j \in 1 .. Len(pending) :
           /\ \A i \in 1 .. j - 1 :
                \E k \in 1 .. Len(previous[pending[j]]) : previous[pending[j]][k] = pending[i]
           /\ pending[j] \in Executing => j = 1
  BY DEF OrderInv
<1>2. /\ new \in Seq(Request) /\ Len(pending) \in Nat /\ Len(new) = Len(pending) + 1
      /\ new[Len(pending) + 1] = p /\ \A i \in 1 .. Len(pending) : new[i] = pending[i]
  BY <1>1, AppendProperties
<1>3. \A i \in 1 .. Len(pending) : pending[i] # p /\ pending[i] \in Request
  BY <1>1
<1>4. previous' \in [Request -> Seq(Request)]
  BY <1>1
<1>5. previous'[p] = pending /\ \A q \in Request \ {p} : previous'[q] = previous[q]
  BY <1>1
<1>6. \A i \in 1 .. Len(new) : i \in 1 .. Len(pending) \/ i = Len(pending) + 1
  BY <1>2
<1> HIDE DEF new
<1>7. Distinct(new)
  <2> SUFFICES ASSUME NEW i \in 1 .. Len(new), NEW j \in 1 .. Len(new), new[i] = new[j]
               PROVE  i = j
    BY DEF Distinct
  <2>1. CASE i \in 1 .. Len(pending) /\ j \in 1 .. Len(pending)
    <3>1. pending[i] = pending[j]
      BY <1>2, <2>1
    <3> QED
      BY <1>1, <2>1, <3>1 DEF Distinct
  <2>2. CASE i = Len(pending) + 1 /\ j = Len(pending) + 1
    BY <2>2
  <2>3. CASE i \in 1 .. Len(pending) /\ j = Len(pending) + 1
    BY <1>2, <1>3, <2>3
  <2>4. CASE i = Len(pending) + 1 /\ j \in 1 .. Len(pending)
    BY <1>2, <1>3, <2>4
  <2> QED
    BY <1>6, <2>1, <2>2, <2>3, <2>4
<1>8. \A q \in Request : Active(q)' <=> \E i \in 1 .. Len(new) : new[i] = q
  <2> SUFFICES ASSUME NEW q \in Request
               PROVE  Active(q)' <=> \E i \in 1 .. Len(new) : new[i] = q
    OBVIOUS
  <2>1. (\A i \in 1 .. Len(pending) : i \in 1 .. Len(new)) /\ Len(pending) + 1 \in 1 .. Len(new)
    BY <1>2
  <2>2. CASE q = p
    BY <1>2, <2>1, <2>2
  <2>3. CASE q # p
    BY <1>1, <1>2, <1>6, <2>1, <2>3
  <2> QED
    BY <2>2, <2>3
<1>9. ASSUME NEW j \in 1 .. Len(new)
      PROVE  /\ \A i \in 1 .. j - 1 :
                  \E k \in 1 .. Len(previous'[new[j]]) : previous'[new[j]][k] = new[i]
             /\ new[j] \in Executing' => j = 1
  <2>1. CASE j \in 1 .. Len(pending)
    <3>1. new[j] = pending[j] /\ pending[j] \in Request \ {p} /\ previous'[new[j]] = previous[pending[j]]
      BY <1>2, <1>3, <1>5, <2>1
    <3>2. \A i \in 1 .. j - 1 : new[i] = pending[i]
      BY <1>2, <2>1
    <3>3. new[j] \in Executing' => j = 1
      BY <1>1, <2>1, <3>1
    <3>4. \A i \in 1 .. j - 1 :
            \E k \in 1 .. Len(previous[pending[j]]) : previous[pending[j]][k] = pending[i]
      BY <1>1, <2>1
    <3> QED
      BY <3>1, <3>2, <3>3, <3>4
  <2>2. CASE j = Len(pending) + 1
    <3>1. new[j] = p /\ previous'[new[j]] = pending
      BY <1>2, <1>5, <2>2
    <3>2. \A i \in 1 .. j - 1 : i \in 1 .. Len(pending) /\ new[i] = pending[i]
      BY <1>2, <2>2
    <3>3. new[j] \in Executing' => j = 1
      <4>1. new[j] \in Executing' => pending = <<>>
        BY <3>1
      <4>2. pending = <<>> => Len(pending) = 0
        OBVIOUS
      <4> QED
        BY <2>2, <4>1, <4>2
    <3> QED
      BY <3>1, <3>2, <3>3
  <2> QED
    BY <1>6, <2>1, <2>2
<1> QED
  BY <1>2, <1>4, <1>7, <1>8, <1>9 DEF new, OrderInv

\* A request that finishes.
LEMMA OrderRemoved ==
  ASSUME OrderInv, NEW p \in Request, ~Active(p)', pending' = RemoveFirst(pending, p),
         UNCHANGED previous, \A q \in Request \ {p} : Active(q)' <=> Active(q),
         \A q \in Request : q \in Executing' => q \in Executing
  PROVE  OrderInv'
<1> DEFINE new == RemoveFirst(pending, p)
<1>1. /\ pending \in Seq(Request) /\ Distinct(pending) /\ previous \in [Request -> Seq(Request)]
      /\ \A q \in Request : Active(q) <=> \E i \in 1 .. Len(pending) : pending[i] = q
      /\ \A j \in 1 .. Len(pending) :
           /\ \A i \in 1 .. j - 1 :
                \E k \in 1 .. Len(previous[pending[j]]) : previous[pending[j]][k] = pending[i]
           /\ pending[j] \in Executing => j = 1
  BY DEF OrderInv
<1>2. /\ pending' = new /\ new \in Seq(Request) /\ Distinct(new)
      /\ \A i \in 1 .. Len(new) : new[i] # p /\ \E j \in 1 .. Len(pending) : pending[j] = new[i]
      /\ \A j \in 1 .. Len(pending) : pending[j] # p => \E i \in 1 .. Len(new) : new[i] = pending[j]
  <2>1. pending \in Seq(Request) /\ Distinct(pending) /\ pending' = new
    BY <1>1
  <2>2. /\ new \in Seq(Request) /\ Distinct(new)
        /\ \A i \in 1 .. Len(new) : new[i] # p /\ \E j \in 1 .. Len(pending) : pending[j] = new[i]
        /\ \A j \in 1 .. Len(pending) : pending[j] # p => \E i \in 1 .. Len(new) : new[i] = pending[j]
    BY ONLY <2>1, RemovedFromDistinct
  <2> QED
    BY <2>1, <2>2
<1>3. \E k \in 1 .. Len(pending) + 1 :
        /\ Len(new) <= Len(pending) /\ Len(pending) \in Nat /\ Len(new) \in Nat
        /\ \A i \in 1 .. Len(new) :
             /\ new[i] = IF i < k THEN pending[i] ELSE pending[i + 1]
             /\ i >= k => i + 1 \in 1 .. Len(pending)
  <2>1. Len(pending) \in Nat /\ Len(new) \in Nat
    BY <1>1, <1>2
  <2>2. CASE new = pending
    <3>1. Len(pending) + 1 \in 1 .. Len(pending) + 1
      BY <2>1
    <3>2. \A i \in 1 .. Len(new) : i < Len(pending) + 1 /\ new[i] = pending[i]
      BY <2>1, <2>2
    <3> QED
      BY <2>1, <2>2, <3>1, <3>2
  <2>3. ASSUME NEW k \in 1 .. Len(pending), Len(new) = Len(pending) - 1,
               \A i \in 1 .. Len(pending) - 1 :
                 new[i] = IF i < k THEN pending[i] ELSE pending[i + 1]
        PROVE  \E n \in 1 .. Len(pending) + 1 :
                 /\ Len(new) <= Len(pending) /\ Len(pending) \in Nat /\ Len(new) \in Nat
                 /\ \A i \in 1 .. Len(new) :
                      /\ new[i] = IF i < n THEN pending[i] ELSE pending[i + 1]
                      /\ i >= n => i + 1 \in 1 .. Len(pending)
    <3>1. k \in 1 .. Len(pending) + 1
      BY <2>1
    <3> QED
      BY <2>1, <2>3, <3>1
  <2>4. \/ new = pending
        \/ \E k \in 1 .. Len(pending) :
             /\ Len(new) = Len(pending) - 1
             /\ \A i \in 1 .. Len(pending) - 1 :
                  new[i] = IF i < k THEN pending[i] ELSE pending[i + 1]
    <3>1. pending \in Seq(Request)
      BY <1>1
    <3> QED
      BY ONLY <3>1, RemovedFirst
  <2> QED
    BY <2>2, <2>3, <2>4
<1> HIDE DEF new
<1>4. PICK k \in 1 .. Len(pending) + 1 :
        /\ Len(new) <= Len(pending) /\ Len(pending) \in Nat /\ Len(new) \in Nat
        /\ \A i \in 1 .. Len(new) :
             /\ new[i] = IF i < k THEN pending[i] ELSE pending[i + 1]
             /\ i >= k => i + 1 \in 1 .. Len(pending)
  BY <1>3
<1> DEFINE place(i) == IF i < k THEN i ELSE i + 1
<1>5. \A i \in 1 .. Len(new) : place(i) \in 1 .. Len(pending) /\ new[i] = pending[place(i)]
  BY <1>4
<1>6. \A j \in 1 .. Len(new) : (place(j) = 1 => j = 1) /\ \A i \in 1 .. j - 1 : place(i) \in 1 .. place(j) - 1
  BY <1>4
<1> HIDE DEF place
<1>7. \A q \in Request : Active(q)' <=> \E i \in 1 .. Len(new) : new[i] = q
  <2> SUFFICES ASSUME NEW q \in Request
               PROVE  Active(q)' <=> \E i \in 1 .. Len(new) : new[i] = q
    OBVIOUS
  <2>1. CASE q = p
    BY <1>2, <2>1
  <2>2. CASE q # p
    <3>1. Active(q)' <=> \E i \in 1 .. Len(pending) : pending[i] = q
      BY <1>1, <2>2
    <3>2. (\E i \in 1 .. Len(pending) : pending[i] = q) => \E i \in 1 .. Len(new) : new[i] = q
      BY <1>2, <2>2
    <3>3. (\E i \in 1 .. Len(new) : new[i] = q) => \E i \in 1 .. Len(pending) : pending[i] = q
      BY <1>2
    <3> QED
      BY <3>1, <3>2, <3>3
  <2> QED
    BY <2>1, <2>2
<1>8. ASSUME NEW j \in 1 .. Len(new)
      PROVE  /\ \A i \in 1 .. j - 1 :
                  \E n \in 1 .. Len(previous[new[j]]) : previous[new[j]][n] = new[i]
             /\ new[j] \in Executing' => j = 1
  <2>1. place(j) \in 1 .. Len(pending) /\ new[j] = pending[place(j)] /\ pending[place(j)] \in Request
    BY <1>1, <1>5
  <2>2. ASSUME NEW i \in 1 .. j - 1
        PROVE  \E n \in 1 .. Len(previous[new[j]]) : previous[new[j]][n] = new[i]
    <3>1. place(i) \in 1 .. place(j) - 1 /\ i \in 1 .. Len(new)
      BY <1>4, <1>6
    <3>2. new[i] = pending[place(i)]
      BY <1>5, <3>1
    <3>3. \A m \in 1 .. place(j) - 1 :
            \E n \in 1 .. Len(previous[pending[place(j)]]) : previous[pending[place(j)]][n] = pending[m]
      BY <1>1, <2>1
    <3>4. \E n \in 1 .. Len(previous[new[j]]) : previous[new[j]][n] = pending[place(i)]
      BY <2>1, <3>1, <3>3
    <3> QED
      BY <3>2, <3>4
  <2>3. new[j] \in Executing' => j = 1
    BY <1>1, <1>6, <2>1
  <2> QED
    BY <2>2, <2>3
<1>9. pending' = new /\ previous' = previous
  BY <1>2
<1>10. pending' \in Seq(Request) /\ previous' \in [Request -> Seq(Request)]
  BY <1>1, <1>2, <1>9
<1>11. Distinct(pending)'
  BY <1>2, <1>9 DEF Distinct
<1>12. \A q \in Request : Active(q)' <=> \E i \in 1 .. Len(pending') : pending'[i] = q
  BY <1>7, <1>9
<1>13. \A j \in 1 .. Len(pending') :
         /\ \A i \in 1 .. j - 1 :
              \E n \in 1 .. Len(previous'[pending'[j]]) : previous'[pending'[j]][n] = pending'[i]
         /\ pending'[j] \in Executing' => j = 1
  <2> SUFFICES ASSUME NEW j \in 1 .. Len(pending')
               PROVE  /\ \A i \in 1 .. j - 1 :
                           \E n \in 1 .. Len(previous'[pending'[j]]) : previous'[pending'[j]][n] = pending'[i]
                      /\ pending'[j] \in Executing' => j = 1
    OBVIOUS
  <2>1. j \in 1 .. Len(new) /\ pending'[j] = new[j] /\ \A i \in 1 .. j - 1 : pending'[i] = new[i]
    BY <1>9
  <2>2. previous'[pending'[j]] = previous[new[j]]
    BY <1>9
  <2>3. pending'[j] \in Executing' => j = 1
    BY <1>8, <2>1
  <2>4. \A i \in 1 .. j - 1 : \E n \in 1 .. Len(previous[new[j]]) : previous[new[j]][n] = new[i]
    BY <1>8, <2>1
  <2>5. \A i \in 1 .. j - 1 :
          \E n \in 1 .. Len(previous'[pending'[j]]) : previous'[pending'[j]][n] = pending'[i]
    <3> SUFFICES ASSUME NEW i \in 1 .. j - 1
                 PROVE  \E n \in 1 .. Len(previous'[pending'[j]]) : previous'[pending'[j]][n] = pending'[i]
      OBVIOUS
    <3>1. PICK n \in 1 .. Len(previous[new[j]]) : previous[new[j]][n] = new[i]
      BY <2>4
    <3> QED
      BY <2>1, <2>2, <3>1
  <2> QED
    BY <2>3, <2>5
<1> QED
  BY <1>10, <1>11, <1>12, <1>13 DEF OrderInv
-----------------------------------------------------------------------------
(* Every step keeps the slots and the types *)

\* Slots change hands only in steps of the runtime.
LEMMA SlotsStep ==
  ASSUME ServerAssumption, StdioAssumption, ConnectionInv, [Next]_vars
  PROVE  SlotInv'
<1>1. SlotInv /\ StdioInv /\ HolderInv /\ StdioTypes /\ Courses
  BY DEF ConnectionInv
<1>2. ASSUME NEW r \in Run, Start(r)
      PROVE  SlotInv'
  <2>1. CASE Enter(r)
    BY <1>1, <1>2, <2>1, EnterSlots DEF Start, Outside
  <2>2. CASE Queue(r)
    BY <1>1, <1>2, <2>2, SlotsKept DEF Start, Queue, Outside
  <2> QED
    BY <1>2, <2>1, <2>2 DEF Start
<1>3. ASSUME NEW r \in Run, TaskStep(r)
      PROVE  SlotInv'
  <2>1. CASE RunStep(r)
    BY <1>1, <2>1, RunStepSlots
  <2>2. CASE Dispatch(r)
    BY <1>1, <2>2, EnterSlots DEF Dispatch, Outside
  <2>3. CASE InterruptQueued(r)
    BY <1>1, <2>3, SlotsKept DEF InterruptQueued, Outside
  <2>4. CASE Interrupted(r)
    BY <1>1, <2>4, FailSlots DEF Interrupted, InterruptRun
  <2>5. CASE Drain(r)
    BY <1>1, <2>5, SlotsQuiet DEF Drain
  <2>6. CASE Finish(r)
    BY <1>1, <2>6, SlotsKept DEF Finish, Outside
  <2> QED
    BY <1>3, <2>1, <2>2, <2>3, <2>4, <2>5, <2>6 DEF TaskStep
<1>4. ASSUME NEW r \in Run, BeginFrame(r) \/ Cancel(r) \/ Expire(r)
      PROVE  SlotInv'
  BY <1>1, <1>4, SlotsQuiet DEF BeginFrame, Cancel, Expire, runtimeVars, control
<1>5. ASSUME NEW r \in Run, NEW i \in DOMAIN threads[r], ThreadWrites(r, i)
      PROVE  SlotInv'
  <2>1. FrameDone(r) /\ stage[r] \in Sends
    BY <1>1, <1>5, FrameWritten
  <2>2. CASE UNCHANGED <<stage, slots>>
    BY <1>1, <2>2, SlotsQuiet
  <2>3. CASE Resume(r)
    BY <1>1, <2>1, <2>3, ResumeSlots
  <2> QED
    BY <2>1, <2>2, <2>3 DEF FrameDone
<1>6. ASSUME NEW c \in Command, Issue(c) \/ CommandStep(c) \/ BeginAnswer(c)
      PROVE  SlotInv'
  BY <1>1, <1>6, SlotsQuiet
     DEF Issue, CommandStep, DispatchCommand, EndAnswer, BeginAnswer, runtimeVars, control
<1>7. CASE Initialize \/ ReaderLocks \/ ReaderStep \/ Close
  BY <1>1, <1>7, SlotsQuiet
     DEF Initialize, ReaderLocks, ReaderStep, ReaderAnswers, CancelReturns, Close,
         runtimeVars, control
<1>8. CASE UNCHANGED vars
  BY <1>1, <1>8, SlotsQuiet DEF vars, runtimeVars, control
<1> QED
  BY <1>2, <1>3, <1>4, <1>5, <1>6, <1>7, <1>8 DEF Next

\* Steps that change only flags of the runs.
LEMMA FlagTypes ==
  ASSUME RunTypes, cancelled' \in [Run -> BOOLEAN], kick' \in [Run -> BOOLEAN],
         terminal' \in [Run -> BOOLEAN], UNCHANGED <<gone, authorized, last, store, loaded>>
  PROVE  RunTypes'
BY DEF RunTypes

LEMMA CancelTypes ==
  ASSUME RunTypes, NEW S, CancelRuns(S)
  PROVE  cancelled' \in [Run -> BOOLEAN] /\ kick' \in [Run -> BOOLEAN]
BY DEF RunTypes, CancelRuns

LEMMA RunTypesStep ==
  ASSUME ServerAssumption, StdioAssumption, ConnectionInv, [Next]_vars
  PROVE  RunTypes'
<1>1. RunTypes /\ StdioInv /\ HolderInv /\ StdioTypes /\ Courses
  BY DEF ConnectionInv, StdioTypes
<1>2. /\ cancelled \in [Run -> BOOLEAN] /\ kick \in [Run -> BOOLEAN]
      /\ terminal \in [Run -> BOOLEAN]
  BY <1>1 DEF RunTypes
<1>3. ASSUME NEW r \in Run, Start(r)
      PROVE  RunTypes'
  <2>1. CASE Enter(r)
    BY <1>1, <2>1, EnterTypes
  <2>2. CASE Queue(r)
    BY <1>1, <1>2, <2>2, FlagTypes DEF Queue, progress, history
  <2> QED
    BY <1>3, <2>1, <2>2 DEF Start
<1>4. ASSUME NEW r \in Run, TaskStep(r)
      PROVE  RunTypes'
  <2>1. CASE RunStep(r)
    BY <1>1, <2>1, RunStepTypes
  <2>2. CASE Dispatch(r)
    BY <1>1, <2>2, EnterTypes DEF Dispatch
  <2>3. CASE InterruptQueued(r)
    BY <1>1, <1>2, <2>3, FlagTypes DEF InterruptQueued, progress, history
  <2>4. CASE Interrupted(r)
    BY <1>1, <2>4, InterruptTypes DEF Interrupted
  <2>5. CASE Drain(r)
    BY <1>1, <1>2, <2>5, FlagTypes DEF Drain, progress, history
  <2>6. CASE Finish(r)
    BY <1>1, <1>2, <2>6, FlagTypes DEF Finish, progress, history
  <2> QED
    BY <1>4, <2>1, <2>2, <2>3, <2>4, <2>5, <2>6 DEF TaskStep
<1>5. ASSUME NEW r \in Run, BeginFrame(r) \/ Cancel(r) \/ Expire(r)
      PROVE  RunTypes'
  <2>1. CASE BeginFrame(r)
    BY <1>1, <1>2, <2>1, FlagTypes DEF BeginFrame, runtimeVars, control, progress, history
  <2>2. CASE Cancel(r)
    BY <1>1, <1>2, <2>2, FlagTypes, CancelTypes DEF Cancel, progress, history
  <2>3. CASE Expire(r)
    BY <1>1, <1>2, <2>3, FlagTypes DEF Expire, progress, history
  <2> QED
    BY <1>5, <2>1, <2>2, <2>3
<1>6. ASSUME NEW r \in Run, NEW i \in DOMAIN threads[r], ThreadWrites(r, i)
      PROVE  RunTypes'
  <2>1. /\ kick' \in [Run -> BOOLEAN] /\ terminal' \in [Run -> BOOLEAN]
        /\ UNCHANGED <<cancelled, gone, authorized, last, store, loaded>>
    <3>1. FrameDone(r)
      BY <1>1, <1>6, FrameWritten
    <3>2. UNCHANGED <<cancelled, gone, authorized, last, store, loaded>>
      BY <1>6 DEF ThreadWrites, progress, history
    <3>3. draining \in [Run -> BOOLEAN]
      BY <1>1 DEF StdioTypes
    <3>4. kick' \in [Run -> BOOLEAN]
      BY <1>2, <3>1, <3>3 DEF FrameDone
    <3>5. terminal' = terminal \/ terminal' = [terminal EXCEPT ![r] = TRUE]
      BY <3>1 DEF FrameDone, Resume
    <3> QED
      BY <1>2, <3>2, <3>4, <3>5
  <2> QED
    BY <1>1, <1>2, <2>1, FlagTypes
<1>7. ASSUME NEW c \in Command, Issue(c) \/ CommandStep(c) \/ BeginAnswer(c)
      PROVE  RunTypes'
  <2>1. UNCHANGED runtimeVars
    BY <1>7 DEF Issue, CommandStep, DispatchCommand, EndAnswer, BeginAnswer
  <2> QED
    BY <1>1, <1>2, <2>1, FlagTypes DEF runtimeVars, control, progress, history
<1>8. CASE Initialize \/ ReaderLocks \/ ReaderStep
  <2>1. UNCHANGED runtimeVars
    BY <1>8 DEF Initialize, ReaderLocks, ReaderStep, ReaderAnswers, CancelReturns
  <2> QED
    BY <1>1, <1>2, <2>1, FlagTypes DEF runtimeVars, control, progress, history
<1>9. CASE Close
  BY <1>1, <1>2, <1>9, FlagTypes, CancelTypes DEF Close, progress, history
<1>10. CASE UNCHANGED vars
  BY <1>1, <1>2, <1>10, FlagTypes DEF vars, runtimeVars, control, progress, history
<1> QED
  BY <1>3, <1>4, <1>5, <1>6, <1>7, <1>8, <1>9, <1>10 DEF Next

LEMMA StdioTypesStep ==
  ASSUME ServerAssumption, StdioAssumption, ConnectionInv, [Next]_vars
  PROVE  StdioTypes'
<1> USE DEF StdioTypes
<1>1. StdioTypes /\ HolderInv /\ StdioInv /\ Courses
  BY DEF ConnectionInv
<1>2. RunTypes'
  BY RunTypesStep
<1>3. Nobody \notin Request /\ Reader \notin Request /\ Reader # Nobody /\ Run \cap Command = {}
      /\ Run \subseteq Request /\ Command \subseteq Request
  BY DEF StdioAssumption, Request
<1>4. ASSUME NEW r \in Run, Start(r) \/ (Expire(r) /\ UNCHANGED stdioVars)
      PROVE  StdioTypes'
  BY <1>1, <1>2, <1>4 DEF Start, stdioVars, commands, output
<1>5. ASSUME NEW r \in Run, TaskStep(r)
      PROVE  StdioTypes'
  <2>1. UNCHANGED <<command, reader, lock>>
    BY <1>5 DEF TaskStep, Dispatch, InterruptQueued, Interrupted, Drain, Finish,
                stdioVars, commands, output
  <2>2. draining' \in [Run -> BOOLEAN]
    BY <1>1, <1>5 DEF TaskStep, Dispatch, InterruptQueued, Interrupted, Drain, Finish,
                      stdioVars, output
  <2> QED
    BY <1>1, <1>2, <2>1, <2>2
<1>6. ASSUME NEW r \in Run, BeginFrame(r)
      PROVE  StdioTypes'
  BY <1>1, <1>2, <1>3, <1>6 DEF BeginFrame, commands
<1>7. ASSUME NEW r \in Run, NEW i \in DOMAIN threads[r], ThreadWrites(r, i)
      PROVE  StdioTypes'
  <2>1. FrameDone(r) /\ lock = r /\ UNCHANGED <<command, reader>>
    BY <1>1, <1>7, FrameWritten DEF ThreadWrites, commands
  <2>2. lock' = Nobody /\ draining' \in [Run -> BOOLEAN]
    BY <1>1, <2>1 DEF FrameDone
  <2>3. \A c \in Command : command[c] # "writing"
    BY <1>1, <1>3, <2>1
  <2> QED
    BY <1>1, <1>2, <2>1, <2>2, <2>3
<1>8. ASSUME NEW c \in Command, Issue(c) \/ CommandStep(c) \/ BeginAnswer(c)
      PROVE  StdioTypes'
  <2>1. UNCHANGED <<reader, draining>>
    BY <1>8 DEF Issue, CommandStep, DispatchCommand, EndAnswer, BeginAnswer, output
  <2>2. CASE Issue(c) \/ DispatchCommand(c)
    BY <1>1, <1>2, <2>1, <2>2 DEF Issue, DispatchCommand, output, CommandStages
  <2>3. CASE BeginAnswer(c)
    BY <1>1, <1>2, <1>3, <2>1, <2>3 DEF BeginAnswer, CommandStages
  <2>4. CASE EndAnswer(c)
    BY <1>1, <1>2, <1>3, <2>1, <2>4 DEF EndAnswer, CommandStages
  <2> QED
    BY <1>8, <2>2, <2>3, <2>4 DEF CommandStep
<1>9. CASE Initialize \/ ReaderStep \/ ReaderLocks
  <2>1. UNCHANGED <<command, draining>>
    BY <1>9 DEF Initialize, ReaderLocks, ReaderStep, ReaderAnswers, CancelReturns, commands, output
  <2>2. \/ lock' = lock
        \/ lock' \in {Reader, Nobody} /\ lock \in {Reader, Nobody}
    BY <1>9 DEF Initialize, ReaderLocks, ReaderStep, ReaderAnswers, CancelReturns, output
  <2>3. reader' \in {reader, "answering", "idle"}
    BY <1>9 DEF Initialize, ReaderLocks, ReaderStep, ReaderAnswers, CancelReturns
  <2> QED
    BY <1>1, <1>2, <1>3, <2>1, <2>2, <2>3
<1>10. ASSUME Close \/ (\E r \in Run : Cancel(r)) \/ UNCHANGED vars
       PROVE  StdioTypes'
  BY <1>1, <1>2, <1>10 DEF Close, Cancel, commands, output, vars, stdioVars
<1> QED
  BY <1>4, <1>5, <1>6, <1>7, <1>8, <1>9, <1>10 DEF Next

-----------------------------------------------------------------------------
(* Every step keeps the runs on their course and the requests in their order *)

LEMMA ExecutingRunNext ==
  ASSUME StdioAssumption
  PROVE  /\ \A r \in Run : r \in Executing' <=>
              stage'[r] \in Working \/ (stage'[r] = "reporting" /\ terminal'[r])
         /\ \A c \in Command : c \in Executing' <=> command'[c] \in {"running", "writing"}
         /\ \A r \in Run : Active(r)' <=> stage'[r] \notin {"new", "done"}
         /\ \A c \in Command : Active(c)' <=> command'[c] \notin {"new", "done"}
<1>1. Run \cap Command = {}
  BY DEF StdioAssumption
<1>2. \A r \in Run : r \in Executing' <=>
              stage'[r] \in Working \/ (stage'[r] = "reporting" /\ terminal'[r])
  BY <1>1 DEF Executing, Working
<1>3. \A c \in Command : c \in Executing' <=> command'[c] \in {"running", "writing"}
  BY <1>1 DEF Executing
<1>4. \A r \in Run : Active(r)' <=> stage'[r] \notin {"new", "done"}
  BY DEF Active, Live
<1>5. \A c \in Command : Active(c)' <=> command'[c] \notin {"new", "done"}
  BY <1>1 DEF Active
<1> QED
  BY <1>2, <1>3, <1>4, <1>5

\* What a request does is none of the others' business.
Still(q) == (Active(q)' <=> Active(q)) /\ (q \in Executing' <=> q \in Executing)

LEMMA OthersStill ==
  ASSUME StdioAssumption, UNCHANGED command, NEW r, \A q \in Run \ {r} : Untouched(q)
  PROVE  \A q \in Request \ {r} : Still(q)
<1>1. \A q \in Run \ {r} : Still(q)
  BY ExecutingRun, ExecutingRunNext DEF Untouched, Still
<1>2. \A q \in Command : Still(q)
  BY ExecutingRun, ExecutingRunNext DEF Still
<1> QED
  BY <1>1, <1>2 DEF Request

\* A step of a run that stays active and does not begin to execute.
LEMMA GoesOn ==
  ASSUME StdioAssumption, OrderInv, NEW r \in Run, \A q \in Run \ {r} : Untouched(q),
         UNCHANGED commands, Active(r), Active(r)', r \in Executing' => r \in Executing
  PROVE  OrderInv'
<1>1. UNCHANGED <<command, pending, previous>>
  BY DEF commands
<1>2. \A q \in Request \ {r} : Still(q)
  BY <1>1, OthersStill
<1> QED
  BY <1>1, <1>2, OrderKept DEF Still

\* A step of none of the runs.
LEMMA NoneMoves ==
  ASSUME StdioAssumption, OrderInv, Courses, \A q \in Run : Untouched(q), UNCHANGED commands
  PROVE  Courses' /\ OrderInv'
<1>1. UNCHANGED <<command, pending, previous>>
  BY DEF commands
<1>2. \A q \in Request : Still(q)
  <2>1. \A q \in Run : Still(q)
    BY ExecutingRun, ExecutingRunNext DEF Untouched, Still
  <2>2. \A q \in Command : Still(q)
    BY <1>1, ExecutingRun, ExecutingRunNext DEF Still
  <2> QED
    BY <2>1, <2>2 DEF Request
<1>3. OrderInv'
  BY <1>1, <1>2, OrderKept DEF Still
<1>4. Courses'
  BY UntouchedKeeps DEF Courses
<1> QED
  BY <1>3, <1>4

LEMMA StartCourse ==
  ASSUME StdioAssumption, ConnectionInv, NEW r \in Run, Start(r)
  PROVE  Courses' /\ OrderInv' /\ \A q \in Run \ {r} : Untouched(q)
<1>1. DurableInv /\ HolderInv /\ StdioTypes /\ Courses /\ OrderInv
  BY DEF ConnectionInv, StdioInv
<1>2. /\ stage[r] = "new" /\ UNCHANGED <<command, lock, threads, draining>> /\ r \in Request
      /\ pending' = Append(pending, r) /\ previous' = [previous EXCEPT ![r] = pending]
  BY DEF Start, Schedule, output, Request
<1>3. ~Active(r) /\ r \notin Executing
  BY <1>2, ExecutingRun DEF Working, InSession
<1>4. /\ Courses' /\ (\A q \in Run \ {r} : Untouched(q)) /\ Active(r)'
      /\ r \in Executing' => pending = <<>>
  <2>1. CASE pending = <<>>
    <3>1. Enter(r)
      BY <2>1 DEF Start
    <3>2. /\ Courses' /\ \A q \in Run \ {r} : Untouched(q)
          /\ stage'[r] = "slot" \/ (stage'[r] = "reporting" /\ terminal'[r])
      BY <1>1, <1>2, <3>1, EnterCourse
    <3> QED
      BY <2>1, <3>2, ExecutingRunNext
  <2>2. CASE pending # <<>>
    <3>1. /\ stage' = [stage EXCEPT ![r] = "queued"]
          /\ UNCHANGED <<todo, queue, terminal, kick, got, cancelled, gone>>
      BY <2>2 DEF Start, Queue
    <3>2. Courses' /\ \A q \in Run \ {r} : Untouched(q)
      BY <1>1, <1>2, <3>1, MoveCourse DEF Sends
    <3>3. stage'[r] = "queued"
      BY <1>1, <3>1 DEF HolderInv
    <3> QED
      BY <3>2, <3>3, ExecutingRunNext DEF Working, InSession
  <2> QED
    BY <2>1, <2>2
<1>5. \A q \in Request \ {r} : Still(q)
  BY <1>2, <1>4, OthersStill
<1>6. OrderInv'
  BY <1>1, <1>2, <1>3, <1>4, <1>5, OrderAdded DEF Still
<1> QED
  BY <1>4, <1>6

\* The steps of a queued run: its turn has come, or it is cancelled.
LEMMA DispatchCourse ==
  ASSUME StdioAssumption, ConnectionInv, NEW r \in Run, Dispatch(r)
  PROVE  Courses' /\ OrderInv' /\ \A q \in Run \ {r} : Untouched(q)
<1>1. DurableInv /\ HolderInv /\ StdioTypes /\ Courses /\ OrderInv
  BY DEF ConnectionInv, StdioInv
<1>2. /\ stage[r] = "queued" /\ Enter(r) /\ Turn(r) /\ r \in Request
      /\ UNCHANGED <<command, lock, threads, draining, pending, previous>>
  BY DEF Dispatch, stdioVars, commands, output, Request
<1>3. /\ Courses' /\ \A q \in Run \ {r} : Untouched(q)
      /\ stage'[r] = "slot" \/ (stage'[r] = "reporting" /\ terminal'[r])
  BY <1>1, <1>2, EnterCourse
<1>4. Active(r) /\ Active(r)'
  BY <1>2, <1>3, ExecutingRun, ExecutingRunNext
<1>5. \A q \in Request \ {r} : Still(q)
  BY <1>2, <1>3, OthersStill
<1>6. OrderInv'
  BY <1>1, <1>2, <1>4, <1>5, OrderKept DEF Still
<1> QED
  BY <1>3, <1>6

LEMMA InterruptQueuedCourse ==
  ASSUME StdioAssumption, ConnectionInv, NEW r \in Run, InterruptQueued(r)
  PROVE  Courses' /\ OrderInv' /\ \A q \in Run \ {r} : Untouched(q)
<1>1. DurableInv /\ HolderInv /\ StdioTypes /\ Courses /\ OrderInv
  BY DEF ConnectionInv, StdioInv
<1>2. /\ stage \in [Run -> Stages] /\ todo \in [Run -> Seq(Frames)] /\ kick \in [Run -> BOOLEAN]
      /\ seq[r] \in Nat /\ Course(r) /\ Writer(r) /\ lock # r
  BY <1>1, NoLockOutside DEF HolderInv, DurableInv, Durable, StdioTypes, RunTypes, Courses,
                             InterruptQueued, Sends
<1> DEFINE frames == <<Frame("run_cancelled", 0)>>
<1>3. /\ stage[r] = "queued" /\ kick[r]
      /\ stage' = [stage EXCEPT ![r] = "reporting"] /\ todo' = [todo EXCEPT ![r] = frames]
      /\ kick' = [kick EXCEPT ![r] = FALSE]
      /\ UNCHANGED <<queue, terminal, got, cancelled, gone, commands, lock, threads, draining>>
  BY DEF InterruptQueued, stdioVars, output
<1>4. Closing(frames)
  BY <1>2, ClosingFrames
<1> HIDE DEF frames
<1>5. /\ stage'[r] = "reporting" /\ todo'[r] = frames /\ ~kick'[r]
      /\ \A q \in Run \ {r} : stage'[q] = stage[q] /\ todo'[q] = todo[q] /\ kick'[q] = kick[q]
  BY <1>2, <1>3
<1>6. \A q \in Run \ {r} : Untouched(q)
  BY <1>3, <1>5 DEF Untouched
<1>7. Course(r)' /\ Writer(r)'
  <2>1. cancelled'[r] /\ ~terminal'[r]
    BY <1>2, <1>3 DEF Course
  <2> QED
    BY <1>2, <1>3, <1>4, <1>5, <2>1, ReportBegins
<1>8. Active(r) /\ Active(r)' /\ r \notin Executing'
  <2>1. ~terminal'[r]
    BY <1>2, <1>3 DEF Course
  <2> QED
    BY <1>3, <1>5, <2>1, ExecutingRun, ExecutingRunNext DEF Working, InSession
<1> QED
  BY <1>1, <1>3, <1>6, <1>7, <1>8, GoesOn, OneCourse

\* A run that executes is interrupted, outside its sends or waiting for the lock.
LEMMA InterruptedCourse ==
  ASSUME StdioAssumption, ConnectionInv, NEW r \in Run, Interrupted(r)
  PROVE  Courses' /\ OrderInv' /\ \A q \in Run \ {r} : Untouched(q)
<1>1. DurableInv /\ HolderInv /\ StdioTypes /\ Courses /\ OrderInv
  BY DEF ConnectionInv, StdioInv
<1>2. /\ stage[r] \in Working /\ lock # r /\ Fail(r, Cause(r))
      /\ Cause(r) \in {"server_error", "run_cancelled"}
      /\ UNCHANGED <<got, gone, cancelled, commands, lock, threads, draining>>
  BY DEF Interrupted, InterruptRun, Working, Cause, stdioVars, output
<1>3. stage[r] \notin {"reporting", "done", "new"}
  BY <1>2 DEF Working, InSession
<1>4. Courses' /\ stage'[r] = "reporting" /\ \A q \in Run \ {r} : Untouched(q)
  BY <1>1, <1>2, <1>3, FailCourse
<1>5. r \in Executing /\ Active(r) /\ Active(r)'
  BY <1>2, <1>3, <1>4, ExecutingRun, ExecutingRunNext
<1> QED
  BY <1>1, <1>2, <1>4, <1>5, GoesOn

\* An interrupted task waits for its frame.
LEMMA DrainCourse ==
  ASSUME StdioAssumption, ConnectionInv, NEW r \in Run, Drain(r)
  PROVE  Courses' /\ OrderInv' /\ \A q \in Run \ {r} : Untouched(q)
<1>1. HolderInv /\ StdioTypes /\ Courses /\ OrderInv
  BY DEF ConnectionInv
<1>2. /\ kick \in [Run -> BOOLEAN] /\ draining \in [Run -> BOOLEAN] /\ Course(r) /\ Writer(r)
  BY <1>1 DEF StdioTypes, RunTypes, Courses
<1>3. /\ lock = r /\ kick[r] /\ kick' = [kick EXCEPT ![r] = FALSE]
      /\ draining' = [draining EXCEPT ![r] = TRUE]
      /\ UNCHANGED <<stage, todo, queue, terminal, got, cancelled, gone, commands, lock, threads>>
  BY DEF Drain
<1>4. stage[r] \in {"sending", "usage", "failed"}
  <2>1. stage[r] \in Sends
    BY <1>1, <1>3 DEF HolderInv, Holder
  <2> QED
    BY <1>2, <1>3, <2>1 DEF Course, Sends
<1>5. Course(r)'
  BY <1>2, <1>3, <1>4 DEF Course, Some
<1>6. Writer(r)'
  BY <1>2, <1>3 DEF Writer
<1>7. \A q \in Run \ {r} : Untouched(q)
  BY <1>2, <1>3 DEF Untouched
<1>8. Active(r) /\ Active(r)' /\ r \in Executing
  BY <1>3, <1>4, ExecutingRun, ExecutingRunNext DEF Working, InSession
<1> QED
  BY <1>1, <1>3, <1>5, <1>6, <1>7, <1>8, GoesOn, OneCourse

\* The task of a run ends when everything it had to send was sent.
LEMMA FinishCourse ==
  ASSUME StdioAssumption, ConnectionInv, NEW r \in Run, Finish(r)
  PROVE  Courses' /\ OrderInv' /\ Some(got[r], Terminals) /\ \A q \in Run \ {r} : Untouched(q)
<1>1. HolderInv /\ StdioTypes /\ Courses /\ OrderInv
  BY DEF ConnectionInv
<1>2. stage \in [Run -> Stages] /\ Course(r) /\ Writer(r) /\ r \in Request
  BY <1>1 DEF HolderInv, Courses, Request
<1>3. /\ stage[r] = "reporting" /\ todo[r] = <<>> /\ stage' = [stage EXCEPT ![r] = "done"]
      /\ pending' = RemoveFirst(pending, r) /\ UNCHANGED previous
      /\ UNCHANGED <<todo, queue, terminal, kick, got, cancelled, gone, command, lock, threads, draining>>
  BY DEF Finish, output
<1>4. stage'[r] = "done" /\ \A q \in Run \ {r} : stage'[q] = stage[q]
  BY <1>2, <1>3
<1>5. Some(got[r], Terminals)
  BY <1>2, <1>3 DEF Course
<1>6. Course(r)'
  BY <1>2, <1>3, <1>4, <1>5 DEF Course, Some
<1>7. Writer(r)'
  BY <1>2, <1>3 DEF Writer
<1>8. \A q \in Run \ {r} : Untouched(q)
  BY <1>3, <1>4 DEF Untouched
<1>9. ~Active(r)' /\ r \notin Executing'
  BY <1>4, ExecutingRunNext DEF Working, InSession
<1>10. \A q \in Request \ {r} : Still(q)
  BY <1>3, <1>8, OthersStill
<1>11. OrderInv'
  BY <1>1, <1>2, <1>3, <1>9, <1>10, OrderRemoved DEF Still
<1> QED
  BY <1>1, <1>5, <1>6, <1>7, <1>8, <1>11, OneCourse

LEMMA RuntimeCourse ==
  ASSUME StdioAssumption, ConnectionInv, NEW r \in Run, RunStep(r), UNCHANGED stdioVars
  PROVE  Courses' /\ OrderInv' /\ \A q \in Run \ {r} : Untouched(q)
<1>1. DurableInv /\ HolderInv /\ StdioTypes /\ Courses /\ OrderInv
  BY DEF ConnectionInv, StdioInv
<1>2. UNCHANGED <<commands, lock, threads, draining>>
  BY DEF stdioVars, output
<1>3. /\ Courses' /\ stage[r] \in Working
      /\ stage'[r] \in Working \/ (stage'[r] = "reporting" /\ terminal'[r])
      /\ \A q \in Run \ {r} : Untouched(q)
  BY <1>1, <1>2, RunStepCourse
<1>4. r \in Executing /\ Active(r) /\ Active(r)'
  BY <1>3, ExecutingRun, ExecutingRunNext DEF Working, InSession
<1> QED
  BY <1>1, <1>2, <1>3, <1>4, GoesOn

\* A thread begins to write the head of what a task sends.
LEMMA BeginFrameCourse ==
  ASSUME StdioAssumption, ConnectionInv, NEW r \in Run, BeginFrame(r)
  PROVE  Courses' /\ OrderInv' /\ \A q \in Run \ {r} : Untouched(q)
<1>1. HolderInv /\ StdioTypes /\ Courses /\ OrderInv /\ StdioInv
  BY DEF ConnectionInv
<1>2. /\ lock = Nobody /\ lock' = r /\ todo[r] # <<>> /\ Nobody \notin Run
      /\ threads' = [threads EXCEPT ![r] = Append(@, Head(todo[r]))]
      /\ UNCHANGED <<stage, todo, queue, terminal, kick, got, cancelled, gone, commands, draining>>
  BY DEF BeginFrame, runtimeVars, control, StdioAssumption, Request
<1>3. Course(r) /\ Writer(r) /\ threads[r] = <<>> /\ threads \in [Run -> Seq(Frames)]
  BY <1>1, <1>2, NoFrame DEF Courses, StdioInv, Durable
<1>4. threads'[r] = <<Head(todo[r])>> /\ \A q \in Run \ {r} : threads'[q] = threads[q]
  <2>1. Append(<<>>, Head(todo[r])) = <<Head(todo[r])>>
    OBVIOUS
  <2> QED
    BY <1>2, <1>3, <2>1
<1>5. \A q \in Run \ {r} : Untouched(q)
  BY <1>2, <1>4 DEF Untouched
<1>6. Course(r)'
  BY <1>2, <1>3 DEF Course, Some
<1>7. Writer(r)'
  BY <1>2, <1>4 DEF Writer
<1>8. stage[r] \in Sends
  BY <1>1, <1>2 DEF HolderInv, Holder
<1>9. /\ Active(r) /\ Active(r)'
      /\ r \in Executing' => r \in Executing
  BY <1>2, <1>8, ExecutingRun, ExecutingRunNext DEF Sends
<1> QED
  BY <1>1, <1>2, <1>5, <1>6, <1>7, <1>9, GoesOn, OneCourse

LEMMA ThreadCourse ==
  ASSUME StdioAssumption, ConnectionInv, NEW r \in Run,
         NEW i \in DOMAIN threads[r], ThreadWrites(r, i)
  PROVE  Courses' /\ OrderInv' /\ \A q \in Run \ {r} : Untouched(q)
<1>1. HolderInv /\ StdioTypes /\ Courses /\ OrderInv /\ StdioInv
  BY DEF ConnectionInv
<1>2. /\ Courses' /\ (\A q \in Run \ {r} : Untouched(q))
      /\ \/ /\ stage[r] \in Working
            /\ stage'[r] \in Working \/ (stage'[r] = "reporting" /\ terminal'[r])
         \/ /\ stage[r] = "reporting" /\ stage'[r] = "reporting"
            /\ terminal'[r] = terminal[r]
  BY <1>1, FrameCourse
<1>3. Active(r) /\ Active(r)' /\ (r \in Executing' => r \in Executing)
  BY <1>2, ExecutingRun, ExecutingRunNext DEF Working, InSession
<1>4. UNCHANGED commands
  BY DEF ThreadWrites
<1> QED
  BY <1>1, <1>2, <1>3, <1>4, GoesOn

\* Cancelling a set of runs only marks those that are live.
LEMMA CancelUntouched ==
  ASSUME RunTypes, NEW S, \A q \in S : Live(q), CancelRuns(S),
         UNCHANGED <<stage, todo, queue, got, gone, terminal, draining, threads, lock>>
  PROVE  \A q \in Run : Untouched(q)
<1> SUFFICES ASSUME NEW q \in Run PROVE Untouched(q)
  OBVIOUS
<1>1. /\ cancelled'[q] <=> cancelled[q] \/ (q \in S /\ CanCancel(q))
      /\ kick'[q] <=> kick[q] \/ (q \in S /\ CanCancel(q))
      /\ kick[q] \in BOOLEAN /\ kick'[q] \in BOOLEAN
  BY DEF CancelRuns, RunTypes
<1>2. q \in S => stage[q] # "new"
  BY DEF Live
<1> QED
  BY <1>1, <1>2 DEF Untouched, CanCancel

\* The session timeout.
LEMMA ExpireCourse ==
  ASSUME StdioAssumption, ConnectionInv, NEW r \in Run, Expire(r), UNCHANGED stdioVars
  PROVE  Courses' /\ OrderInv' /\ \A q \in Run \ {r} : Untouched(q)
<1>1. HolderInv /\ StdioTypes /\ Courses /\ OrderInv
  BY DEF ConnectionInv
<1>2. kick \in [Run -> BOOLEAN] /\ Course(r) /\ Writer(r)
  BY <1>1 DEF StdioTypes, RunTypes, Courses
<1>3. /\ stage[r] \in InSession /\ kick' = [kick EXCEPT ![r] = TRUE]
      /\ UNCHANGED <<stage, todo, queue, terminal, got, cancelled, gone, commands, lock, threads, draining>>
  BY DEF Expire, stdioVars, output
<1>4. Course(r)'
  BY <1>2, <1>3 DEF Course, InSession, Some
<1>5. Writer(r)'
  BY <1>2, <1>3 DEF Writer
<1>6. \A q \in Run \ {r} : Untouched(q)
  BY <1>2, <1>3 DEF Untouched
<1>7. /\ Active(r) /\ Active(r)'
      /\ r \in Executing' => r \in Executing
  BY <1>3, ExecutingRun, ExecutingRunNext DEF InSession, Working
<1> QED
  BY <1>1, <1>3, <1>4, <1>5, <1>6, <1>7, GoesOn, OneCourse

\* Commands, and the reader.
LEMMA CommandCourse ==
  ASSUME StdioAssumption, ConnectionInv, NEW c \in Command,
         Issue(c) \/ CommandStep(c) \/ BeginAnswer(c)
  PROVE  Courses' /\ OrderInv' /\ \A q \in Run : Untouched(q)
<1>1. StdioTypes /\ Courses /\ OrderInv
  BY DEF ConnectionInv
<1>2. /\ Nobody \notin Run /\ c \notin Run /\ c \in Request /\ Run \cap Command = {}
      /\ command \in [Command -> CommandStages]
  BY <1>1 DEF StdioAssumption, Request, StdioTypes
<1>3. UNCHANGED <<stage, todo, queue, got, gone, terminal, kick, cancelled, draining, threads>>
  BY DEF Issue, CommandStep, DispatchCommand, EndAnswer, BeginAnswer, runtimeVars, control, output
<1>4. lock' = lock \/ (lock \in {c, Nobody} /\ lock' \in {c, Nobody})
  <2>1. command[c] = "writing" => lock = c
    BY <1>1 DEF StdioTypes
  <2> QED
    BY <2>1 DEF Issue, CommandStep, DispatchCommand, EndAnswer, BeginAnswer, output
<1>5. \A q \in Run : Untouched(q)
  BY <1>2, <1>3, <1>4 DEF Untouched
<1>6. Courses'
  BY <1>1, <1>5, UntouchedKeeps DEF Courses
<1>7. ASSUME \A d \in Command \ {c} : command'[d] = command[d]
      PROVE  \A q \in Request \ {c} : Still(q)
  <2>1. \A q \in Run : Still(q)
    BY <1>3, ExecutingRun, ExecutingRunNext DEF Still
  <2>2. \A d \in Command \ {c} : Still(d)
    BY <1>7, ExecutingRun, ExecutingRunNext DEF Still
  <2> QED
    BY <2>1, <2>2 DEF Request
<1>8. CASE Issue(c)
  <2>1. /\ command[c] = "new" /\ pending' = Append(pending, c)
        /\ previous' = [previous EXCEPT ![c] = pending]
        /\ command'[c] = IF pending = <<>> THEN "running" ELSE "queued"
        /\ \A d \in Command \ {c} : command'[d] = command[d]
    BY <1>2, <1>8 DEF Issue, Schedule
  <2>2. \A q \in Request \ {c} : Still(q)
    BY <1>7, <2>1
  <2>3. /\ ~Active(c) /\ c \notin Executing /\ Active(c)'
        /\ c \in Executing' => pending = <<>>
    BY <2>1, ExecutingRun, ExecutingRunNext
  <2>4. OrderInv'
    BY <1>1, <1>2, <2>1, <2>2, <2>3, OrderAdded DEF Still
  <2> QED
    BY <1>5, <1>6, <2>4
<1>9. CASE DispatchCommand(c)
  <2>1. /\ command[c] = "queued" /\ Turn(c) /\ command'[c] = "running"
        /\ \A d \in Command \ {c} : command'[d] = command[d]
        /\ UNCHANGED <<pending, previous>>
    BY <1>2, <1>9 DEF DispatchCommand
  <2>2. \A q \in Request \ {c} : Still(q)
    BY <1>7, <2>1
  <2>3. Active(c) /\ Active(c)'
    BY <2>1, ExecutingRun, ExecutingRunNext
  <2>4. OrderInv'
    BY <1>1, <1>2, <2>1, <2>2, <2>3, OrderKept DEF Still
  <2> QED
    BY <1>5, <1>6, <2>4
<1>10. CASE BeginAnswer(c)
  <2>1. /\ command[c] = "running" /\ command'[c] = "writing"
        /\ \A d \in Command \ {c} : command'[d] = command[d]
        /\ UNCHANGED <<pending, previous>>
    BY <1>2, <1>10 DEF BeginAnswer
  <2>2. \A q \in Request \ {c} : Still(q)
    BY <1>7, <2>1
  <2>3. Active(c) /\ Active(c)' /\ c \in Executing
    BY <2>1, ExecutingRun, ExecutingRunNext
  <2>4. OrderInv'
    BY <1>1, <1>2, <2>1, <2>2, <2>3, OrderKept DEF Still
  <2> QED
    BY <1>5, <1>6, <2>4
<1>11. CASE EndAnswer(c)
  <2>1. /\ command[c] = "writing" /\ command'[c] = "done"
        /\ \A d \in Command \ {c} : command'[d] = command[d]
        /\ pending' = RemoveFirst(pending, c) /\ UNCHANGED previous
    BY <1>2, <1>11 DEF EndAnswer
  <2>2. \A q \in Request \ {c} : Still(q)
    BY <1>7, <2>1
  <2>3. ~Active(c)' /\ c \notin Executing'
    BY <2>1, ExecutingRunNext
  <2>4. OrderInv'
    BY <1>1, <1>2, <2>1, <2>2, <2>3, OrderRemoved DEF Still
  <2> QED
    BY <1>5, <1>6, <2>4
<1> QED
  BY <1>8, <1>9, <1>10, <1>11 DEF CommandStep

LEMMA ReaderCourse ==
  ASSUME StdioAssumption, ConnectionInv,
         Initialize \/ ReaderLocks \/ ReaderStep \/ Close \/ (\E r \in Run : Cancel(r))
           \/ UNCHANGED vars
  PROVE  Courses' /\ OrderInv' /\ \A q \in Run : Untouched(q)
<1>1. StdioTypes /\ Courses /\ OrderInv /\ RunTypes
  BY DEF ConnectionInv, StdioTypes
<1>2. Nobody \notin Run /\ Reader \notin Run
  BY DEF StdioAssumption, Request
<1>3. UNCHANGED commands
  BY DEF Initialize, ReaderLocks, ReaderStep, ReaderAnswers, CancelReturns, Close, Cancel,
         vars, stdioVars
<1>4. \A q \in Run : Untouched(q)
  <2>1. CASE Initialize \/ ReaderLocks \/ ReaderStep \/ UNCHANGED vars
    <3>1. UNCHANGED <<stage, todo, queue, got, gone, terminal, kick, cancelled, draining, threads>>
      BY <2>1 DEF Initialize, ReaderLocks, ReaderStep, ReaderAnswers, CancelReturns, output,
                  vars, stdioVars, runtimeVars, control
    <3>2. lock' = lock \/ (lock \in {Reader, Nobody} /\ lock' \in {Reader, Nobody})
      BY <2>1 DEF Initialize, ReaderLocks, ReaderStep, ReaderAnswers, CancelReturns, output,
                  vars, stdioVars
    <3> QED
      BY <1>2, <3>1, <3>2 DEF Untouched
  <2>2. CASE Close
    BY <1>1, <2>2, CancelUntouched DEF Close, output
  <2>3. ASSUME NEW r \in Run, Cancel(r)
        PROVE  \A q \in Run : Untouched(q)
    BY <1>1, <2>3, CancelUntouched DEF Cancel, output
  <2> QED
    BY <2>1, <2>2, <2>3
<1> QED
  BY <1>1, <1>3, <1>4, NoneMoves

-----------------------------------------------------------------------------
(* What holds of every connection *)

LEMMA TaskStepCourse ==
  ASSUME StdioAssumption, ConnectionInv, NEW r \in Run, TaskStep(r)
  PROVE  Courses' /\ OrderInv' /\ \A q \in Run \ {r} : Untouched(q)
BY RuntimeCourse, DispatchCourse, InterruptQueuedCourse, InterruptedCourse, DrainCourse,
   FinishCourse DEF TaskStep

LEMMA ConnectionStep ==
  ASSUME ServerAssumption, StdioAssumption, ConnectionInv, [Next]_vars
  PROVE  ConnectionInv'
<1>1. StdioInv' /\ HolderInv'
  BY StdioStep DEF ConnectionInv, AnyNext
<1>2. SlotInv' /\ StdioTypes'
  BY SlotsStep, StdioTypesStep
<1>3. ASSUME NEW r \in Run, Start(r) \/ TaskStep(r) \/ BeginFrame(r)
      PROVE  Courses' /\ OrderInv'
  BY <1>3, StartCourse, TaskStepCourse, BeginFrameCourse
<1>4. ASSUME NEW r \in Run, Expire(r), UNCHANGED stdioVars
      PROVE  Courses' /\ OrderInv'
  BY <1>4, ExpireCourse
<1>5. ASSUME NEW r \in Run, NEW i \in DOMAIN threads[r], ThreadWrites(r, i)
      PROVE  Courses' /\ OrderInv'
  BY <1>5, ThreadCourse
<1>6. ASSUME NEW c \in Command, Issue(c) \/ CommandStep(c) \/ BeginAnswer(c)
      PROVE  Courses' /\ OrderInv'
  BY <1>6, CommandCourse
<1>7. ASSUME \/ Initialize \/ ReaderLocks \/ ReaderStep \/ Close
             \/ (\E r \in Run : Cancel(r)) \/ UNCHANGED vars
      PROVE  Courses' /\ OrderInv'
  BY <1>7, ReaderCourse
<1>8. Courses' /\ OrderInv'
  BY <1>3, <1>4, <1>5, <1>6, <1>7 DEF Next
<1> QED
  BY <1>1, <1>2, <1>8 DEF ConnectionInv

LEMMA ConnectionInit ==
  ASSUME ServerAssumption, StdioAssumption, Init
  PROVE  ConnectionInv
<1>1. /\ RuntimeInit /\ command = [c \in Command |-> "new"] /\ pending = <<>>
      /\ previous = [q \in Request |-> <<>>] /\ reader = "idle" /\ lock = Nobody
      /\ threads = [r \in Run |-> <<>>] /\ draining = [r \in Run |-> FALSE]
  BY DEF Init
<1>2. StdioInv /\ HolderInv /\ SlotInv /\ RunTypes
  BY <1>1, StdioInit, InitSlots, InitTypes
<1>3. StdioTypes
  BY <1>1, <1>2 DEF StdioTypes, CommandStages
<1>4. ASSUME NEW r \in Run
      PROVE  /\ ~gone[r] /\ queue[r] = <<>> /\ got[r] = <<>> /\ stage[r] = "new" /\ ~kick[r]
             /\ ~terminal[r] /\ lock # r /\ threads[r] = <<>> /\ ~draining[r]
  BY <1>1 DEF RuntimeInit, StdioAssumption, Request
<1>5. \A r \in Run : Some(got[r], Terminals) = FALSE
  BY <1>4 DEF Some
<1>6. Courses
  BY <1>4, <1>5 DEF Courses, Course, Writer
<1>7. OrderInv
  <2>1. /\ pending \in Seq(Request) /\ Len(pending) = 0
        /\ previous \in [Request -> Seq(Request)] /\ Distinct(pending)
    BY <1>1 DEF Distinct
  <2>2. \A q \in Request : ~Active(q)
    BY <1>1, <1>4, ExecutingRun DEF Request
  <2> QED
    BY <2>1, <2>2 DEF OrderInv
<1> QED
  BY <1>2, <1>3, <1>6, <1>7 DEF ConnectionInv

LEMMA ConnectionInvariant == Spec => []ConnectionInv
<1>1. Init => ConnectionInv
  BY ServerAssumption, StdioAssumption, ConnectionInit
<1>2. ConnectionInv /\ [Next]_vars => ConnectionInv'
  BY ServerAssumption, StdioAssumption, ConnectionStep
<1> QED
  BY <1>1, <1>2, PTL DEF Spec

\* The variables of a connection have the types they are meant to have, and no
\* run has two frames in threads.
THEOREM StdioTypeCorrect == Spec => []TypeOK
<1>1. ConnectionInv => TypeOK
  <2> SUFFICES ASSUME ConnectionInv PROVE TypeOK
    OBVIOUS
  <2>1. DurableInv /\ Durable(threads) /\ SlotInv /\ StdioTypes /\ OrderInv /\ Courses
    BY DEF ConnectionInv, StdioInv
  <2>2. RuntimeTypeOK
    BY <2>1, TypesImply DEF StdioTypes
  <2>3. \A r \in Run : threads[r] \in Seq(Frames) /\ Len(threads[r]) <= 1
    <3> SUFFICES ASSUME NEW r \in Run
                 PROVE  threads[r] \in Seq(Frames) /\ Len(threads[r]) <= 1
      OBVIOUS
    <3>1. threads[r] = <<>> \/ threads[r] = <<Head(todo[r])>>
      BY <2>1 DEF Courses, Writer
    <3>2. threads[r] \in Seq(Frames)
      BY <2>1 DEF Durable
    <3>3. CASE threads[r] = <<>>
      BY <3>2, <3>3
    <3>4. CASE threads[r] = <<Head(todo[r])>>
      <4>1. Len(threads[r]) = 1
        BY <3>4
      <4> QED
        BY <3>2, <4>1
    <3> QED
      BY <3>1, <3>3, <3>4
  <2> QED
    BY <2>1, <2>2, <2>3 DEF TypeOK, StdioTypes, OrderInv
<1> QED
  BY <1>1, ConnectionInvariant, PTL

\* However a run of a connection ends, its slots are free again, and runs wait
\* in a line exactly while their tasks wait for a slot.
THEOREM StdioSlotsConserved == Spec => []SlotsAreConserved
<1>1. ConnectionInv => SlotsAreConserved
  BY SlotsImply DEF ConnectionInv
<1> QED
  BY <1>1, ConnectionInvariant, PTL

\* Frames are written one at a time, for any number of requests, while none is
\* interrupted twice during a frame: exactly the run that holds the write lock
\* has a frame in a thread, and it has one (_write_response).
THEOREM FramesInTurn == Spec => []FramesAreWrittenInTurn
<1>1. ConnectionInv => FramesAreWrittenInTurn
  <2> SUFFICES ASSUME ConnectionInv, NEW r \in Run
               PROVE  Len(threads[r]) = IF lock = r THEN 1 ELSE 0
    BY DEF FramesAreWrittenInTurn
  <2>1. threads[r] = IF lock = r THEN <<Head(todo[r])>> ELSE <<>>
    BY DEF ConnectionInv, Courses, Writer
  <2> QED
    BY <2>1
<1> QED
  BY <1>1, ConnectionInvariant, PTL

\* Runs and commands execute one after another, in the order of their arrival,
\* whatever is cancelled between them.
THEOREM RequestsInOrder == Spec => []ExecutesInOrder
<1>1. ConnectionInv => ExecutesInOrder
  <2> SUFFICES ASSUME ConnectionInv, NEW q \in Executing
               PROVE  Head(pending) = q
    BY DEF ExecutesInOrder
  <2>1. q \in Request /\ Active(q)
    BY StdioAssumption, ExecutingRun
  <2>2. PICK i \in 1 .. Len(pending) : pending[i] = q
    BY <2>1 DEF ConnectionInv, OrderInv
  <2>3. i = 1
    BY <2>2 DEF ConnectionInv, OrderInv
  <2> QED
    BY <2>2, <2>3
<1> QED
  BY <1>1, ConnectionInvariant, PTL

-----------------------------------------------------------------------------
(* The outcome of the runs of a connection *)

\* What the client was told is all that was sent.
LEMMA ToldIsSent ==
  ASSUME Courses, NEW r \in Run, got[r] \in Seq(Frames)
  PROVE  /\ AnswerOf(r) = AnswerIn(got[r])
         /\ AnswerOf(r) # "none" <=> Some(got[r], Terminals)
<1>1. queue[r] = <<>>
  BY DEF Courses, Course
<1>2. Sent(r) = got[r]
  BY <1>1 DEF Sent
<1>3. AnswerOf(r) = AnswerIn(got[r])
  BY <1>2 DEF AnswerOf, AnswerIn
<1>4. Frame("event", 0) \in Frames /\ Frame("event", 0).kind \notin Terminals
  BY DEF Frame, Frames, Events, Terminals
<1> QED
  BY <1>3, <1>4, AnswerGrows

LEMMA AnswerStays ==
  ASSUME Courses, Courses', RunTypes, RunTypes', NEW q \in Run, got'[q] = got[q]
  PROVE  AnswerOf(q)' = AnswerOf(q) /\ gone'[q] = gone[q]
<1>1. gone'[q] = gone[q] /\ queue[q] = <<>> /\ queue'[q] = <<>>
  BY DEF Courses, Course, RunTypes
<1>2. Sent(q)' = Sent(q)
  BY <1>1 DEF Sent
<1> QED
  BY <1>1, <1>2 DEF AnswerOf

\* A run that ends has an answer, so a step that tells the client nothing does
\* not end a run that does not report.
LEMMA SilentRefines ==
  ASSUME Courses, Courses', RunTypes, RunTypes', UNCHANGED <<got, stored>>,
         \A q \in Run : stage'[q] = stage[q] \/ stage[q] \notin {"reporting", "done"}
  PROVE  [Outcome!Next]_(Outcome!vars)
<1>1. ASSUME NEW q \in Run
      PROVE  Unseen(q)
  <2>1. AnswerOf(q)' = AnswerOf(q) /\ gone'[q] = gone[q]
    BY AnswerStays
  <2>2. stage'[q] = "done" <=> stage[q] = "done"
    <3>1. Some(got[q], Terminals)' <=> Some(got[q], Terminals)
      BY DEF Some
    <3>2. stage'[q] = "done" => Some(got[q], Terminals)'
      BY DEF Courses, Course
    <3>3. stage[q] \notin {"reporting", "done"} => ~Some(got[q], Terminals)
      BY DEF Courses, Course
    <3> QED
      BY <3>1, <3>2, <3>3
  <2> QED
    BY <2>1, <2>2 DEF Unseen
<1> QED
  BY <1>1, MuteRefines

\* The runs that a step leaves alone.
LEMMA UntouchedIsUnseen ==
  ASSUME Courses, Courses', RunTypes, RunTypes', NEW q \in Run, Untouched(q), stored'[q] = stored[q]
  PROVE  Unseen(q)
BY AnswerStays DEF Untouched, Unseen

LEMMA ThreadRefines ==
  ASSUME ServerAssumption, StdioAssumption, ConnectionInv, ConnectionInv', NEW r \in Run,
         NEW i \in DOMAIN threads[r], ThreadWrites(r, i)
  PROVE  [Outcome!Next]_(Outcome!vars)
<1> DEFINE h == Head(todo[r])
<1>1. /\ Courses /\ Courses' /\ RunTypes /\ RunTypes' /\ DurableInv /\ DurableInv'
      /\ StdioInv /\ HolderInv /\ StdioTypes
  BY DEF ConnectionInv, StdioInv, StdioTypes
<1>2. UNCHANGED stored
  BY DEF ThreadWrites, history
<1>3. \A q \in Run \ {r} : Unseen(q)
  BY <1>1, <1>2, ThreadCourse, UntouchedIsUnseen
<1>4. stage[r] # "done" /\ stage'[r] # "done"
  BY <1>1, FrameCourse DEF Working, InSession
<1>5. /\ todo[r] \in Seq(Frames) /\ todo[r] # <<>> /\ h \in Frames /\ got[r] \in Seq(Frames)
      /\ got'[r] = Append(got[r], h) /\ got'[r] \in Seq(Frames) /\ stage[r] \in Sends
  BY <1>1, FrameWritten DEF DurableInv, Durable
<1>6. h \in Sendable(r)
  <2>1. todo[r] \in Seq(Sendable(r))
    BY <1>1 DEF DurableInv, Durable
  <2> QED
    BY <1>5, <2>1, HeadTailProperties
<1>7. h = todo[r][1] /\ 1 \in 1 .. Len(todo[r])
  BY <1>5, HeadTailProperties, EmptySeq
<1>8. h.kind \in Terminals => ~Some(got[r], Terminals)
  <2>1. Course(r)
    BY <1>1 DEF Courses
  <2>2. CASE stage[r] = "reporting"
    BY <1>5, <2>1, <2>2 DEF Course
  <2>3. CASE stage[r] \in {"sending", "usage", "failed"}
    BY <2>1, <2>3 DEF Course
  <2> QED
    BY <1>5, <2>2, <2>3 DEF Sends
<1>9. /\ AnswerOf(r) = AnswerIn(got[r]) /\ AnswerOf(r)' = AnswerIn(got'[r])
  <2>1. queue[r] = <<>> /\ queue'[r] = <<>>
    BY <1>1 DEF Courses, Course
  <2>2. Sent(r) = got[r] /\ Sent(r)' = got'[r]
    BY <1>5, <2>1 DEF Sent
  <2> QED
    BY <2>2 DEF AnswerOf, AnswerIn
<1> HIDE DEF h
<1>10. /\ h.kind \notin Terminals => AnswerIn(Append(got[r], h)) = AnswerIn(got[r])
       /\ h.kind \in Terminals =>
            /\ AnswerIn(got[r]) = "none"
            /\ AnswerIn(Append(got[r], h)) = IF h.kind = "run_result" THEN "result" ELSE "error"
  BY <1>5, <1>8, AnswerGrows
<1>11. gone'[r] = gone[r] /\ stored'[r] = stored[r]
  BY <1>1, <1>2 DEF Courses, Course, RunTypes
<1>12. CASE h.kind \notin Terminals
  <2>1. Unseen(r)
    BY <1>4, <1>5, <1>9, <1>10, <1>11, <1>12 DEF Unseen
  <2> QED
    BY <1>3, <2>1, MuteRefines
<1>13. CASE h.kind \in Terminals
  <2>1. /\ AnswerOf(r) = "none" /\ AnswerOf(r)' \in {"result", "error"}
        /\ AnswerOf(r)' = "result" => h.kind = "run_result"
    BY <1>5, <1>9, <1>10, <1>13
  <2>2. h.kind = "run_result" => stored[r]
    BY <1>6 DEF Sendable, Completion
  <2>3. AnswerOf(r)' = "result" => stored[r]
    BY <2>1, <2>2
  <2> QED
    BY <1>3, <1>4, <1>11, <2>1, <2>3, AnswerRefines
<1> QED
  BY <1>12, <1>13

LEMMA RunRefines ==
  ASSUME ServerAssumption, StdioAssumption, ConnectionInv, ConnectionInv', NEW r \in Run,
         TaskStep(r)
  PROVE  [Outcome!Next]_(Outcome!vars)
<1>1. /\ Courses /\ Courses' /\ RunTypes /\ RunTypes' /\ DurableInv /\ Course(r)
      /\ \A q \in Run \ {r} : Untouched(q)
  BY TaskStepCourse DEF ConnectionInv, StdioInv, StdioTypes, Courses
<1>2. \A q \in Run \ {r} : stage'[q] = stage[q]
  BY <1>1 DEF Untouched
<1>3. got[r] \in Seq(Frames)
  BY <1>1 DEF DurableInv, Durable
<1>4. ASSUME UNCHANGED <<got, stored>>, stage[r] \notin {"reporting", "done"} \/ stage'[r] = stage[r]
      PROVE  [Outcome!Next]_(Outcome!vars)
  BY <1>1, <1>2, <1>4, SilentRefines
<1>5. CASE RunStep(r) /\ ~StoreApplies(r)
  <2>1. UNCHANGED <<got, stored>>
    BY <1>5 DEF RunStep, TakeServerSlot, TakeAgentSlot, Authorize, Load, SessionFails,
                OpenStream, StreamEvent, StreamResult, StreamFails, EmitEvent,
                PersistReturns, PersistFails, history
  <2>2. stage[r] \notin {"reporting", "done"}
    BY <1>5 DEF RunStep, TakeServerSlot, TakeAgentSlot, Authorize, Load, SessionFails,
                OpenStream, StreamEvent, StreamResult, StreamFails, PersistReturns, PersistFails
  <2> QED
    BY <1>4, <2>1, <2>2
<1>6. CASE StoreApplies(r)
  <2>1. /\ stage[r] = "persisting" /\ ~stored[r] /\ stored' = [stored EXCEPT ![r] = TRUE]
        /\ UNCHANGED <<stage, got>>
    BY <1>6 DEF StoreApplies, control
  <2>2. stored'[r] /\ \A q \in Run \ {r} : stored'[q] = stored[q]
    BY <1>1, <2>1 DEF DurableInv
  <2>3. \A q \in Run \ {r} : Unseen(q)
    BY <1>1, <2>2, UntouchedIsUnseen
  <2>4. AnswerOf(r)' = AnswerOf(r) /\ gone'[r] = gone[r]
    BY <1>1, <2>1, AnswerStays
  <2>5. AnswerOf(r) = "none"
    BY <1>1, <1>3, <2>1, ToldIsSent DEF Course
  <2> QED
    BY <2>1, <2>2, <2>3, <2>4, <2>5, PersistRefines
<1>7. CASE Dispatch(r)
  BY <1>4, <1>7 DEF Dispatch, Enter, UnknownAgent, JoinLine, history
<1>8. CASE InterruptQueued(r)
  BY <1>4, <1>8 DEF InterruptQueued, history
<1>9. CASE Interrupted(r)
  BY <1>4, <1>9 DEF Interrupted, InterruptRun, InSession, history
<1>10. CASE Drain(r)
  BY <1>4, <1>10 DEF Drain, history
<1>11. CASE Finish(r)
  <2>1. stage' = [stage EXCEPT ![r] = "done"] /\ UNCHANGED <<got, stored>>
    BY <1>11 DEF Finish, history
  <2>2. stage'[r] = "done" /\ Some(got[r], Terminals)
    BY <1>11, <2>1, FinishCourse DEF ConnectionInv, HolderInv
  <2>3. \A q \in Run \ {r} : Unseen(q)
    BY <1>1, <2>1, UntouchedIsUnseen
  <2>4. AnswerOf(r)' = AnswerOf(r) /\ gone'[r] = gone[r] /\ AnswerOf(r) # "none"
    BY <1>1, <1>3, <2>1, <2>2, AnswerStays, ToldIsSent
  <2> QED
    BY <2>1, <2>2, <2>3, <2>4, EndRefines
<1> QED
  BY <1>5, <1>6, <1>7, <1>8, <1>9, <1>10, <1>11 DEF TaskStep

LEMMA ConnectionRefines ==
  ASSUME ServerAssumption, StdioAssumption, ConnectionInv, [Next]_vars
  PROVE  [Outcome!Next]_(Outcome!vars)
<1>0. ConnectionInv' /\ Courses /\ Courses' /\ RunTypes /\ RunTypes'
  BY ConnectionStep DEF ConnectionInv, StdioTypes
<1>1. ASSUME NEW r \in Run, Start(r)
      PROVE  [Outcome!Next]_(Outcome!vars)
  <2>1. stage[r] = "new" /\ \A q \in Run \ {r} : stage'[q] = stage[q]
    BY <1>1, StartCourse DEF Start, Untouched
  <2>2. UNCHANGED <<got, stored>>
    BY <1>1 DEF Start, Queue, Enter, UnknownAgent, JoinLine, history
  <2> QED
    BY <1>0, <2>1, <2>2, SilentRefines
<1>2. ASSUME NEW r \in Run, TaskStep(r)
      PROVE  [Outcome!Next]_(Outcome!vars)
  BY <1>0, <1>2, RunRefines
<1>3. ASSUME NEW r \in Run, NEW i \in DOMAIN threads[r], ThreadWrites(r, i)
      PROVE  [Outcome!Next]_(Outcome!vars)
  BY <1>0, <1>3, ThreadRefines
<1>4. ASSUME UNCHANGED <<stage, got, stored>>
      PROVE  [Outcome!Next]_(Outcome!vars)
  BY <1>0, <1>4, SilentRefines
<1>5. ASSUME NEW r \in Run, BeginFrame(r) \/ Cancel(r) \/ Expire(r)
      PROVE  [Outcome!Next]_(Outcome!vars)
  BY <1>4, <1>5 DEF BeginFrame, Cancel, Expire, runtimeVars, control, history
<1>6. ASSUME NEW c \in Command, Issue(c) \/ CommandStep(c) \/ BeginAnswer(c)
      PROVE  [Outcome!Next]_(Outcome!vars)
  BY <1>4, <1>6 DEF Issue, CommandStep, DispatchCommand, EndAnswer, BeginAnswer,
                    runtimeVars, control, history
<1>7. CASE Initialize \/ ReaderLocks \/ ReaderStep \/ Close \/ UNCHANGED vars
  BY <1>4, <1>7 DEF Initialize, ReaderLocks, ReaderStep, ReaderAnswers, CancelReturns, Close,
                    vars, runtimeVars, control, history
<1> QED
  BY <1>1, <1>2, <1>3, <1>5, <1>6, <1>7 DEF Next

\* The connection implements RunOutcome: each run has exactly one answer when
\* it ends, a result only after its messages were stored, and neither the
\* answer nor what is stored of the run changes afterwards.
THEOREM StdioImplementsOutcome == Spec => OutcomeSpec
<1>1. Init => Outcome!Init
  <2> SUFFICES ASSUME Init PROVE Outcome!Init
    OBVIOUS
  <2>1. ASSUME NEW r \in Run
        PROVE  ~stored[r] /\ ~gone[r] /\ stage[r] # "done" /\ AnswerOf(r) = "none"
    <3>1. got[r] = <<>> /\ queue[r] = <<>> /\ ~stored[r] /\ ~gone[r] /\ stage[r] = "new"
      BY DEF Init, RuntimeInit
    <3>2. Sent(r) = <<>>
      BY <3>1 DEF Sent
    <3>3. {Sent(r)[i].kind : i \in DOMAIN Sent(r)} = {}
      BY <3>2
    <3>4. AnswerOf(r) = "none"
      BY <3>3 DEF AnswerOf
    <3> QED
      BY <3>1, <3>4
  <2> QED
    BY <2>1 DEF Outcome!Init
<1>2. ConnectionInv /\ [Next]_vars => [Outcome!Next]_(Outcome!vars)
  BY ServerAssumption, StdioAssumption, ConnectionRefines
<1> QED
  BY <1>1, <1>2, ConnectionInvariant, PTL DEF Spec, OutcomeSpec, Outcome!Spec

-----------------------------------------------------------------------------
(* The history of a conversation *)

\* Requests execute one after another, so no other run of the connection comes
\* between the load and the store of a run.
LEMMA OneExecutes ==
  ASSUME StdioAssumption, ConnectionInv
  PROVE  Exclusive
<1>1. ASSUME NEW p \in Run, stage[p] \in Loaded
      PROVE  pending[1] = p
  <2>1. p \in Executing
    BY <1>1, ExecutingRun DEF Loaded, Working, InSession
  <2>2. p \in Request /\ Active(p)
    BY <2>1, ExecutingRun
  <2>3. PICK i \in 1 .. Len(pending) : pending[i] = p
    BY <2>2 DEF ConnectionInv, OrderInv
  <2>4. i = 1
    BY <2>1, <2>3 DEF ConnectionInv, OrderInv
  <2> QED
    BY <2>3, <2>4
<1> QED
  BY <1>1 DEF Exclusive

LEMMA HistoryStep ==
  ASSUME ServerAssumption, StdioAssumption, ConnectionInv, HistoryInv, [Next]_vars
  PROVE  HistoryInv' /\ Grows
<1>1. /\ RunTypes /\ DurableInv /\ stage \in [Run -> Stages] /\ Exclusive
      /\ Courses /\ StdioInv /\ HolderInv /\ StdioTypes
  BY OneExecutes DEF ConnectionInv, StdioTypes, StdioInv, HolderInv
<1>2. ASSUME NEW r \in Run, Start(r)
      PROVE  HistoryInv' /\ Grows
  <2>1. CASE Enter(r)
    BY <1>1, <2>1, EnterHistory
  <2>2. CASE Queue(r)
    BY <1>1, <2>2, MoveHistory DEF Queue, Loaded
  <2> QED
    BY <1>2, <2>1, <2>2 DEF Start
<1>3. ASSUME NEW r \in Run, TaskStep(r)
      PROVE  HistoryInv' /\ Grows
  <2>1. CASE RunStep(r)
    BY <1>1, <2>1, RunStepHistory
  <2>2. CASE Dispatch(r)
    BY <1>1, <2>2, EnterHistory DEF Dispatch
  <2>3. CASE InterruptQueued(r)
    BY <1>1, <2>3, MoveHistory DEF InterruptQueued, Loaded
  <2>4. CASE Interrupted(r)
    BY <1>1, <2>4, FailHistory DEF Interrupted, InterruptRun
  <2>5. CASE Drain(r)
    BY <1>1, <2>5, HistoryQuiet DEF Drain
  <2>6. CASE Finish(r)
    BY <1>1, <2>6, MoveHistory DEF Finish, Loaded
  <2> QED
    BY <1>3, <2>1, <2>2, <2>3, <2>4, <2>5, <2>6 DEF TaskStep
<1>4. ASSUME NEW r \in Run, NEW i \in DOMAIN threads[r], ThreadWrites(r, i)
      PROVE  HistoryInv' /\ Grows
  <2>1. FrameDone(r) /\ stage[r] \in Sends /\ UNCHANGED history
    BY <1>1, <1>4, FrameWritten DEF ThreadWrites
  <2>2. CASE UNCHANGED stage
    BY <1>1, <2>1, <2>2, HistoryQuiet
  <2>3. CASE Resume(r)
    BY <1>1, <2>1, <2>3, ResumeHistory
  <2> QED
    BY <2>1, <2>2, <2>3 DEF FrameDone
<1>5. ASSUME UNCHANGED stage, UNCHANGED history
      PROVE  HistoryInv' /\ Grows
  BY <1>1, <1>5, HistoryQuiet
<1>6. ASSUME NEW r \in Run, BeginFrame(r) \/ Cancel(r) \/ Expire(r)
      PROVE  HistoryInv' /\ Grows
  BY <1>5, <1>6 DEF BeginFrame, Cancel, Expire, runtimeVars, control
<1>7. ASSUME NEW c \in Command, Issue(c) \/ CommandStep(c) \/ BeginAnswer(c)
      PROVE  HistoryInv' /\ Grows
  BY <1>5, <1>7 DEF Issue, CommandStep, DispatchCommand, EndAnswer, BeginAnswer,
                    runtimeVars, control
<1>8. CASE Initialize \/ ReaderLocks \/ ReaderStep \/ Close \/ UNCHANGED vars
  BY <1>5, <1>8 DEF Initialize, ReaderLocks, ReaderStep, ReaderAnswers, CancelReturns, Close,
                    vars, runtimeVars, control
<1> QED
  BY <1>2, <1>3, <1>4, <1>6, <1>7, <1>8 DEF Next

\* No history of a conversation is overwritten by a run of the connection that
\* had loaded it before another was stored.
THEOREM StdioHistoryGrows == Spec => HistoryGrows
<1>1. Init => HistoryInv
  BY InitHistory DEF Init
<1>2. ConnectionInv /\ HistoryInv /\ [Next]_vars => HistoryInv'
  BY ServerAssumption, StdioAssumption, HistoryStep
<1>3. ConnectionInv /\ HistoryInv /\ [Next]_vars
      => [\A c \in Conversation : IsPrefix(store[c], store'[c])]_history
  BY ServerAssumption, StdioAssumption, HistoryStep DEF Grows
<1> QED
  BY <1>1, <1>2, <1>3, ConnectionInvariant, PTL DEF Spec, HistoryGrows


=============================================================================
