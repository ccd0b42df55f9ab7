---------------------------- MODULE StdioServer ----------------------------
(***************************************************************************)
(* The stdio transport over the server runtime: one connection whose       *)
(* reader starts runs and commands, which execute one after another, and   *)
(* cancels runs; every response is a frame written to stdout by a thread   *)
(* while the writing task holds the write lock.                            *)
(*                                                                         *)
(* A send always suspends (Buffer = 0, no trailer).  Requests that are     *)
(* invalid, or reuse the identifier of an active run, only get an error    *)
(* from the reader and are the `Initialize` of the model.  Every request   *)
(* has an identifier of its own.                                           *)
(***************************************************************************)
EXTENDS ServerRuntime

CONSTANTS Command,  \* command requests
          Reader,   \* the task that reads stdin, as holder of the lock
          Nobody

Request == Run \cup Command

ASSUME StdioAssumption ==
  /\ Run \cap Command = {}
  /\ Reader \notin Request /\ Nobody \notin Request /\ Reader # Nobody
  /\ Buffer = 0 /\ Trailer = <<>>

VARIABLES
  command,   \* per command: "new", "queued", "running", "writing", "done"
  pending,   \* requests that have not finished, in order of arrival
  previous,  \* per request: what was pending when it arrived
  reader,    \* "idle", "answering", "closing", "aborted", or the run whose end it awaits
  lock,      \* holder of the write lock
  threads,   \* per run: frames that threads are writing to stdout
  draining   \* the task was interrupted and awaits the end of its frame

commands == <<command, pending, previous>>
output == <<lock, threads, draining>>
stdioVars == <<commands, reader, output>>
vars == <<runtimeVars, stdioVars>>

Init ==
  /\ RuntimeInit
  /\ command = [c \in Command |-> "new"]
  /\ pending = <<>>
  /\ previous = [q \in Request |-> <<>>]
  /\ reader = "idle" /\ lock = Nobody
  /\ threads = [r \in Run |-> <<>>]
  /\ draining = [r \in Run |-> FALSE]

IsPending(q) == Contains(pending, q)

-----------------------------------------------------------------------------
(* The queue of runs and commands *)

\* _schedule(): the request remembers everything pending before it.
Schedule(q) ==
  /\ reader = "idle"
  /\ pending' = Append(pending, q)
  /\ previous' = [previous EXCEPT ![q] = pending]

\* Seeded fault: a request only waits for the one before it.
TurnFault(q) == previous[q] = <<>> \/ ~IsPending(Last(previous[q]))

Turn(q) == \A i \in DOMAIN previous[q] : ~IsPending(previous[q][i])

Queue(r) ==
  /\ stage' = [stage EXCEPT ![r] = "queued"]
  /\ UNCHANGED <<todo, queue, terminal, kick, got, cancelled, gone, progress,
                 slots, history>>

Start(r) ==
  /\ stage[r] = "new"
  /\ Schedule(r)
  /\ IF pending = <<>> THEN Enter(r) ELSE Queue(r)
  /\ UNCHANGED <<command, reader, output>>

\* Seeded fault: a queued run does not wait.
DispatchFault(r) ==
  /\ stage[r] = "queued" /\ ~kick[r]
  /\ Enter(r)
  /\ UNCHANGED stdioVars

Dispatch(r) ==
  /\ stage[r] = "queued" /\ ~kick[r]
  /\ Turn(r)
  /\ Enter(r)
  /\ UNCHANGED stdioVars

\* A queued run is cancelled: it answers at once, its `terminal` stays unset.
InterruptQueued(r) ==
  /\ stage[r] = "queued" /\ kick[r]
  /\ stage' = [stage EXCEPT ![r] = "reporting"]
  /\ todo' = [todo EXCEPT ![r] = <<Frame("run_cancelled", 0)>>]
  /\ kick' = [kick EXCEPT ![r] = FALSE]
  /\ UNCHANGED <<queue, terminal, got, cancelled, gone, progress, slots,
                 history, stdioVars>>

\* Seeded fault: a run cancelled in the queue stays in it.
FinishFault(r) ==
  /\ stage[r] = "reporting" /\ todo[r] = <<>> /\ ~kick[r]
  /\ stage' = [stage EXCEPT ![r] = "done"]
  /\ pending' = IF terminal[r] THEN RemoveFirst(pending, r) ELSE pending
  /\ UNCHANGED <<todo, queue, terminal, kick, got, cancelled, gone, progress,
                 slots, history, command, previous, reader, output>>

\* The task's finally clause; all it had to send was sent.
Finish(r) ==
  /\ stage[r] = "reporting" /\ todo[r] = <<>> /\ ~kick[r]
  /\ stage' = [stage EXCEPT ![r] = "done"]
  /\ pending' = RemoveFirst(pending, r)
  /\ UNCHANGED <<todo, queue, terminal, kick, got, cancelled, gone, progress,
                 slots, history, command, previous, reader, output>>

Issue(c) ==
  /\ command[c] = "new"
  /\ Schedule(c)
  /\ command' = [command EXCEPT ![c] = IF pending = <<>> THEN "running" ELSE "queued"]
  /\ UNCHANGED <<runtimeVars, reader, output>>

DispatchCommand(c) ==
  /\ command[c] = "queued"
  /\ Turn(c)
  /\ command' = [command EXCEPT ![c] = "running"]
  /\ UNCHANGED <<runtimeVars, pending, previous, reader, output>>

\* The handler returned, raised or timed out: one frame answers.
BeginAnswer(c) ==
  /\ command[c] = "running"
  /\ lock = Nobody
  /\ lock' = c
  /\ command' = [command EXCEPT ![c] = "writing"]
  /\ UNCHANGED <<runtimeVars, pending, previous, reader, threads, draining>>

EndAnswer(c) ==
  /\ command[c] = "writing"
  /\ lock' = Nobody
  /\ command' = [command EXCEPT ![c] = "done"]
  /\ pending' = RemoveFirst(pending, c)
  /\ UNCHANGED <<runtimeVars, previous, reader, threads, draining>>

-----------------------------------------------------------------------------
(* Frames *)

BeginFrame(r) ==
  /\ todo[r] # <<>> /\ ~kick[r]
  /\ lock = Nobody
  /\ lock' = r
  /\ threads' = [threads EXCEPT ![r] = Append(@, Head(todo[r]))]
  /\ UNCHANGED <<runtimeVars, commands, reader, draining>>

\* Seeded fault: an interrupted task does not wait for its frame.
DrainFault(r) ==
  /\ lock = r /\ kick[r]
  /\ lock' = Nobody
  /\ UNCHANGED <<runtimeVars, commands, reader, threads, draining>>

\* CancelledError at `await asyncio.shield(frame)`: the task awaits the frame,
\* which is not shielded then; for a second CancelledError see AbandonFrame.
Drain(r) ==
  /\ lock = r /\ kick[r] /\ ~draining[r]
  /\ draining' = [draining EXCEPT ![r] = TRUE]
  /\ kick' = [kick EXCEPT ![r] = FALSE]
  /\ UNCHANGED <<stage, todo, queue, terminal, got, cancelled, gone, progress,
                 slots, history, commands, reader, lock, threads>>

\* The frame of the task was written: the task goes on, or raises the
\* CancelledError it kept, the frame being out.
FrameDone(r) ==
  /\ lock' = Nobody
  /\ draining' = [draining EXCEPT ![r] = FALSE]
  /\ kick' = [kick EXCEPT ![r] = (@ \/ draining[r])]
  /\ IF kick[r] \/ draining[r]
       THEN UNCHANGED <<stage, todo, terminal, slots>>
     ELSE IF stage[r] = "reporting"
       THEN /\ todo' = [todo EXCEPT ![r] = Tail(@)]
            /\ UNCHANGED <<stage, terminal, slots>>
       ELSE Resume(r)

\* A thread finishes a frame; the last frame of a lock holder is its own.
ThreadWrites(r, i) ==
  /\ got' = [got EXCEPT ![r] = Append(@, threads[r][i])]
  /\ threads' = [threads EXCEPT ![r] = RemoveAt(@, i)]
  /\ IF lock = r /\ i = Len(threads[r])
       THEN FrameDone(r)
       ELSE UNCHANGED <<stage, todo, terminal, kick, slots, lock, draining>>
  /\ UNCHANGED <<queue, cancelled, gone, progress, history, commands, reader>>

\* CancelledError where the task sends nothing or waits for the lock.
Interrupted(r) ==
  /\ lock # r
  /\ InterruptRun(r)
  /\ UNCHANGED stdioVars

-----------------------------------------------------------------------------
(* The reader *)

Initialize ==
  /\ reader = "idle"
  /\ reader' = "answering"
  /\ UNCHANGED <<runtimeVars, commands, output>>

ReaderLocks ==
  /\ reader = "answering" /\ lock = Nobody
  /\ lock' = Reader
  /\ UNCHANGED <<runtimeVars, commands, reader, threads, draining>>

ReaderAnswers ==
  /\ reader = "answering" /\ lock = Reader
  /\ lock' = Nobody
  /\ reader' = "idle"
  /\ UNCHANGED <<runtimeVars, commands, threads, draining>>

\* cancel_owned(): the reader waits for the end of the run.
Cancel(r) ==
  /\ reader = "idle"
  /\ Live(r) /\ ~terminal[r]
  /\ reader' = r
  /\ CancelRuns({r})
  /\ UNCHANGED <<stage, todo, queue, terminal, got, gone, progress, slots,
                 history, commands, output>>

CancelReturns ==
  /\ reader \in Run /\ ~Live(reader)
  /\ reader' = "idle"
  /\ UNCHANGED <<runtimeVars, commands, output>>

\* End of the input, or a line that is too long.
Close ==
  /\ reader = "idle"
  /\ reader' = "closing"
  /\ CancelRuns({r \in Run : Live(r)})
  /\ UNCHANGED <<stage, todo, queue, terminal, got, gone, progress, slots,
                 history, commands, output>>

-----------------------------------------------------------------------------
TaskStep(r) ==
  \/ RunStep(r) /\ UNCHANGED stdioVars
  \/ Dispatch(r) \/ InterruptQueued(r) \/ Interrupted(r) \/ Drain(r) \/ Finish(r)

CommandStep(c) == DispatchCommand(c) \/ EndAnswer(c)

ReaderStep == ReaderAnswers \/ CancelReturns

Next ==
  \/ \E r \in Run :
       \/ Start(r) \/ TaskStep(r) \/ BeginFrame(r)
       \/ Cancel(r) \/ (Expire(r) /\ UNCHANGED stdioVars)
       \/ \E i \in DOMAIN threads[r] : ThreadWrites(r, i)
  \/ \E c \in Command : Issue(c) \/ CommandStep(c) \/ BeginAnswer(c)
  \/ Initialize \/ ReaderLocks \/ ReaderStep \/ Close

Spec == Init /\ [][Next]_vars

\* Tasks run, callbacks, handlers and threads return, and the write lock, whose
\* waiters form a queue, is not withheld from one of them forever.
Fairness ==
  /\ \A r \in Run :
       /\ WF_vars(TaskStep(r))
       /\ WF_vars(\E i \in DOMAIN threads[r] : ThreadWrites(r, i))
       /\ SF_vars(BeginFrame(r))
  /\ \A c \in Command : WF_vars(CommandStep(c)) /\ SF_vars(BeginAnswer(c))
  /\ WF_vars(ReaderStep) /\ SF_vars(ReaderLocks)

FairSpec == Spec /\ Fairness

-----------------------------------------------------------------------------
(* What Spec leaves out: a second interruption while a task awaits its frame, *)
(* and a shutdown that outlasts shutdown_grace_seconds                       *)

\* CancelledError at `await frame` cancels the frame's task: the lock is free
\* and the thread goes on.
AbandonFrame(r) ==
  /\ draining[r] /\ kick[r]
  /\ lock' = Nobody
  /\ draining' = [draining EXCEPT ![r] = FALSE]
  /\ UNCHANGED <<runtimeVars, commands, reader, threads>>

ImpatientSpec == Init /\ [][Next \/ \E r \in Run : AbandonFrame(r)]_vars

\* The task group of the server cancels the tasks that are left.
Abort ==
  /\ reader = "closing"
  /\ reader' = "aborted"
  /\ kick' = [r \in Run |-> kick[r] \/ Live(r)]
  /\ UNCHANGED <<stage, todo, queue, terminal, got, cancelled, gone, progress,
                 slots, history, commands, output>>

\* CancelledError after the terminal flag was set passes events() and reaches
\* _dispatch_after(), which answers that the run is cancelled.
AnswerAgain(r) ==
  /\ kick[r] /\ lock # r
  /\ stage[r] = "reporting"
  /\ todo' = [todo EXCEPT ![r] = IF terminal[r] THEN <<Frame("run_cancelled", 0)>> ELSE <<>>]
  /\ kick' = [kick EXCEPT ![r] = FALSE]
  /\ UNCHANGED <<stage, queue, terminal, got, cancelled, gone, progress, slots,
                 history, stdioVars>>

AbortSpec == Init /\ [][Next \/ Abort \/ \E r \in Run : AnswerAgain(r)]_vars

-----------------------------------------------------------------------------
(* Properties *)

CommandStages == {"new", "queued", "running", "writing", "done"}

\* Types of all variables.
TypeOK ==
  /\ RuntimeTypeOK
  /\ command \in [Command -> CommandStages]
  /\ pending \in Seq(Request) /\ previous \in [Request -> Seq(Request)]
  /\ reader \in {"idle", "answering", "closing", "aborted"} \cup Run
  /\ lock \in Request \cup {Reader, Nobody}
  /\ \A r \in Run : threads[r] \in Seq(Frames) /\ Len(threads[r]) <= 1
  /\ draining \in [Run -> BOOLEAN]

Executing ==
  {r \in Run : stage[r] \in InSession \cup {"slot", "agentSlot"}
                 \/ (stage[r] = "reporting" /\ terminal[r])}
  \cup {c \in Command : command[c] \in {"running", "writing"}}

\* "Runs and commands execute in FIFO order": the oldest request that has not
\* finished is the only one that executes, also when requests queued between
\* two others are cancelled (_schedule(), _dispatch_after()).
ExecutesInOrder == \A q \in Executing : Head(pending) = q

\* A run that holds the write lock has one frame in a thread, and none is in a
\* thread without its task waiting for it: frames are written one at a time and
\* whole, also when the task of one is interrupted while it waits
\* (_write_response(), and the test
\* test_stdio_cancel_preserves_inflight_frame_and_durable_completion).  It holds
\* for one interruption of a frame; a second one breaks it, see ImpatientSpec.
FramesAreWrittenInTurn ==
  \A r \in Run : Len(threads[r]) = IF lock = r THEN 1 ELSE 0

\* In the end a run whose cancellation was accepted has told so, whether it was
\* queued or executing.
CancelIsReported ==
  <>[](\A r \in Run : cancelled[r] =>
         \E i \in DOMAIN got[r] : got[r][i].kind = "run_cancelled")

\* In the end every request has finished, so that shutdown, which waits for
\* the runs, returns, and the reader, which waits for a run it cancels, reads
\* again ("initialization and cancellation requests remain available").
RequestsEnd ==
  <>[](reader \notin Run /\ \A q \in Request : ~IsPending(q))

=============================================================================
