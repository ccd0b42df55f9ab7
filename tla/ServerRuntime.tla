--------------------------- MODULE ServerRuntime ---------------------------
(***************************************************************************)
(* The server runtime of ovid_core.server: the life of an agent run from   *)
(* its concurrency slots to its terminal frame, with cancellation at any   *)
(* suspension point, the session timeout and the conversation store.  The  *)
(* transports (HttpServer) extend it with how runs start, how frames reach *)
(* the client and how a client cancels or goes away.                       *)
(*                                                                         *)
(* A run is a task of one event loop.  `stage` says where the task is      *)
(* suspended; task.cancel() only sets `kick`, and CancelledError is thrown *)
(* when the task next runs, at the point where it is suspended, even if    *)
(* what it awaited has happened meanwhile.  A send that finds room in the  *)
(* transport's buffer does not suspend.                                    *)
(*                                                                         *)
(* Prompts, outputs, dependencies and the contents of events are left out. *)
(* A free slot is taken in the code without suspension, here in a step.    *)
(***************************************************************************)
EXTENDS Naturals, Sequences, FiniteSets, SequencesExt

CONSTANTS
  Run,             \* accepted run requests
  Agent,           \* registered agents
  AgentOf,         \* agent that a run names
  Conversation, ConversationOf,
  Server,          \* name of the server-wide semaphore
  Slots,           \* capacity of each semaphore
  MaxEvents,       \* bound on the ordinary events of a run
  Buffer,          \* frames the transport stores before a send suspends
  Trailer,         \* what the transport sends after the terminal frame
  CommitsHistory   \* the store is a ConversationHistoryStore

Sem == Agent \cup {Server}

ASSUME ServerAssumption ==
  /\ AgentOf \in [Run -> Agent]
  /\ Server \notin Agent
  /\ ConversationOf \in [Run -> Conversation]
  /\ Slots \in [Sem -> Nat \ {0}]
  /\ \A a \in Agent : Slots[a] <= Slots[Server]
  /\ MaxEvents \in Nat \ {0} /\ Buffer \in {0, 1}
  /\ Trailer \in {<<>>, <<[kind |-> "end", seq |-> 0]>>}
  /\ CommitsHistory \in BOOLEAN

VARIABLES
  stage,       \* where the run's task is suspended
  todo,        \* frames the task still has to send before it goes on
  queue,       \* frames in the transport's buffer
  got,         \* frames the client received
  cancelled,   \* the run's `cancelled` flag
  terminal,    \* the run's `terminal` flag
  kick,        \* task.cancel() was called, CancelledError not yet thrown
  gone,        \* the client is gone: frames are not sent any more
  authorized,  \* the run's authorization is known
  last,        \* kind of the last event handed to send: "none", "event", "failed"
  seq,         \* sequence number after that event
  line,        \* per semaphore: runs waiting for it, in order
  free,        \* per semaphore: free slots
  store,       \* per conversation: the runs whose messages it has, in order
  loaded,      \* what the run loaded
  stored       \* history: the store applied the run's messages

control == <<stage, todo, queue, terminal, kick>>
slots == <<line, free>>
progress == <<authorized, last, seq>>
history == <<store, loaded, stored>>
runtimeVars == <<control, got, cancelled, gone, progress, slots, history>>

InSession == {"authorizing", "loading", "preparing", "streaming", "sending",
              "usage", "failed", "persisting"}
Stages == {"new", "queued", "slot", "agentSlot", "reporting", "done"} \cup InSession

Frame(kind, n) == [kind |-> kind, seq |-> n]
Events == {"event", "run_failed", "run_completed"}
Terminals == {"run_result", "server_error", "run_cancelled"}
End == Frame("end", 0)

RuntimeInit ==
  /\ stage = [r \in Run |-> "new"]
  /\ todo = [r \in Run |-> <<>>] /\ queue = [r \in Run |-> <<>>]
  /\ got = [r \in Run |-> <<>>]
  /\ cancelled = [r \in Run |-> FALSE] /\ terminal = [r \in Run |-> FALSE]
  /\ kick = [r \in Run |-> FALSE]
  /\ gone = [r \in Run |-> FALSE] /\ authorized = [r \in Run |-> FALSE]
  /\ last = [r \in Run |-> "none"] /\ seq = [r \in Run |-> 0]
  /\ line = [s \in Sem |-> <<>>] /\ free = Slots
  /\ store = [c \in Conversation |-> <<>>]
  /\ loaded = [r \in Run |-> <<>>] /\ stored = [r \in Run |-> FALSE]

\* The run is in _ActiveRuns._runs and its `done` future is pending.
Live(r) == stage[r] \notin {"new", "done"}

-----------------------------------------------------------------------------
(* Slots and frames *)

Holds(r, s) ==
  \/ s = Server /\ stage[r] \in InSession \cup {"agentSlot"}
  \/ s = AgentOf[r] /\ stage[r] \in InSession

\* Seeded fault: the agent's slot is not given back.
ReleaseFault(r) ==
  /\ free' = [free EXCEPT ![Server] = IF Holds(r, Server) THEN @ + 1 ELSE @]
  /\ line' = [s \in Sem |-> RemoveFirst(line[s], r)]

\* Seeded fault: a run that gives up stays in its line.
ReleaseKeepsLine(r) ==
  /\ free' = [s \in Sem |-> IF Holds(r, s) THEN free[s] + 1 ELSE free[s]]
  /\ UNCHANGED line

\* Leaving `async with self._global_limit, self._agent_limits[agent_id]`.
Release(r) ==
  /\ free' = [s \in Sem |-> IF Holds(r, s) THEN free[s] + 1 ELSE free[s]]
  /\ line' = [s \in Sem |-> RemoveFirst(line[s], r)]

\* Seeded fault: the buffer takes one frame too many.
RoomFault(r) == Len(queue[r]) <= Buffer

Room(r) == Len(queue[r]) < Buffer

\* The task sends `frames`: it is at `after` when all are sent, and suspended
\* at `blocked` before.
Push(r, frames, blocked, after) ==
  IF gone[r]
    THEN /\ stage' = [stage EXCEPT ![r] = after]
         /\ todo' = [todo EXCEPT ![r] = <<>>]
         /\ UNCHANGED queue
  ELSE IF Room(r)
    THEN /\ queue' = [queue EXCEPT ![r] = Append(@, Head(frames))]
         /\ todo' = [todo EXCEPT ![r] = Tail(frames)]
         /\ stage' = [stage EXCEPT ![r] = IF Len(frames) = 1 THEN after ELSE blocked]
    ELSE /\ todo' = [todo EXCEPT ![r] = frames]
         /\ stage' = [stage EXCEPT ![r] = blocked]
         /\ UNCHANGED queue

-----------------------------------------------------------------------------
(* The end of a run that fails *)

\* Seeded fault: a second run_failed follows the agent's own.
FailureFramesTwice(r, error) ==
  (IF last[r] # "none" THEN <<Frame("run_failed", seq[r])>> ELSE <<>>)
    \o <<Frame(error, 0)>> \o Trailer

\* Seeded fault: only a successful run sends the trailer.
FailureFramesOpen(r, error) ==
  (IF last[r] = "event" THEN <<Frame("run_failed", seq[r])>> ELSE <<>>)
    \o <<Frame(error, 0)>>

\* A run_failed event continues the sequence of the last event, unless the
\* agent's own stream already ended with one.
FailureFrames(r, error) ==
  (IF last[r] = "event" THEN <<Frame("run_failed", seq[r])>> ELSE <<>>)
    \o <<Frame(error, 0)>> \o Trailer

Fail(r, error) ==
  /\ Push(r, FailureFrames(r, error), "reporting", "done")
  /\ terminal' = [terminal EXCEPT ![r] = TRUE]
  /\ kick' = [kick EXCEPT ![r] = FALSE]
  /\ Release(r)

\* CancelledError at a suspension point inside events(): a cancelled run
\* reports it, and the session timeout turns into an error only if the run
\* was not cancelled as well.
Cause(r) == IF cancelled[r] THEN "run_cancelled" ELSE "server_error"

InterruptRun(r) ==
  /\ kick[r]
  /\ stage[r] \in InSession \cup {"slot", "agentSlot"}
  /\ Fail(r, Cause(r))
  /\ UNCHANGED <<got, cancelled, gone, progress, history>>

-----------------------------------------------------------------------------
(* Admission and preparation *)

\* events() of a run whose turn has come.  Agents can be registered while the
\* server runs, so the look-up may find nothing.
UnknownAgent(r) ==
  /\ Fail(r, "server_error")
  /\ UNCHANGED <<got, cancelled, gone, progress, history>>

JoinLine(r) ==
  /\ stage' = [stage EXCEPT ![r] = "slot"]
  /\ line' = [line EXCEPT ![Server] = Append(@, r)]
  /\ UNCHANGED <<todo, queue, terminal, kick, got, cancelled, gone, progress,
                 free, history>>

Enter(r) == UnknownAgent(r) \/ JoinLine(r)

\* Seeded fault: a run goes on without a free slot.
FirstInLineFault(r, s) == line[s] # <<>> /\ Head(line[s]) = r

FirstInLine(r, s) == line[s] # <<>> /\ Head(line[s]) = r /\ free[s] > 0

TakeServerSlot(r) ==
  /\ stage[r] = "slot" /\ ~kick[r]
  /\ FirstInLine(r, Server)
  /\ line' = [line EXCEPT ![Server] = Tail(@), ![AgentOf[r]] = Append(@, r)]
  /\ free' = [free EXCEPT ![Server] = @ - 1]
  /\ stage' = [stage EXCEPT ![r] = "agentSlot"]
  /\ UNCHANGED <<todo, queue, terminal, kick, got, cancelled, gone,
                 progress, history>>

TakeAgentSlot(r) ==
  /\ stage[r] = "agentSlot" /\ ~kick[r]
  /\ FirstInLine(r, AgentOf[r])
  /\ line' = [line EXCEPT ![AgentOf[r]] = Tail(@)]
  /\ free' = [free EXCEPT ![AgentOf[r]] = @ - 1]
  /\ stage' = [stage EXCEPT ![r] = "authorizing"]
  /\ UNCHANGED <<todo, queue, terminal, kick, got, cancelled, gone,
                 progress, history>>

Authorize(r) ==
  /\ stage[r] = "authorizing" /\ ~kick[r]
  /\ stage' = [stage EXCEPT ![r] = "loading"]
  /\ authorized' = [authorized EXCEPT ![r] = TRUE]
  /\ UNCHANGED <<todo, queue, terminal, kick, got, cancelled, gone,
                 last, seq, slots, history>>

Load(r) ==
  /\ stage[r] = "loading" /\ ~kick[r]
  /\ loaded' = [loaded EXCEPT ![r] = store[ConversationOf[r]]]
  /\ stage' = [stage EXCEPT ![r] = "preparing"]
  /\ UNCHANGED <<todo, queue, terminal, kick, got, cancelled, gone,
                 progress, slots, store, stored>>

\* The authorization is denied or raises, the store or the dependencies fail,
\* or an event of the agent has no translation.
SessionFails(r) ==
  /\ stage[r] \in {"authorizing", "loading", "preparing", "streaming"} /\ ~kick[r]
  /\ Fail(r, "server_error")
  /\ UNCHANGED <<got, cancelled, gone, progress, history>>

-----------------------------------------------------------------------------
(* Streaming *)

EmitEvent(r, blocked, after) ==
  /\ Push(r, <<Frame("event", seq[r])>>, blocked, after)
  /\ last' = [last EXCEPT ![r] = "event"]
  /\ seq' = [seq EXCEPT ![r] = @ + 1]
  /\ UNCHANGED <<terminal, kick, got, cancelled, gone, authorized,
                 slots, history>>

\* Dependencies are there, the agent's stream opens with run_started.
OpenStream(r) ==
  /\ stage[r] = "preparing" /\ ~kick[r]
  /\ EmitEvent(r, "sending", "streaming")

StreamEvent(r) ==
  /\ stage[r] = "streaming" /\ ~kick[r]
  /\ seq[r] < MaxEvents
  /\ EmitEvent(r, "sending", "streaming")

\* The final usage update; run_completed follows it and is withheld.
StreamResult(r) ==
  /\ stage[r] = "streaming" /\ ~kick[r]
  /\ EmitEvent(r, "usage", "persisting")

\* The stream ends with its own run_failed event, then raises.
StreamFails(r) ==
  /\ stage[r] = "streaming" /\ ~kick[r]
  /\ IF Room(r)
       THEN Fail(r, "server_error")
       ELSE /\ Push(r, <<Frame("run_failed", seq[r])>>, "failed", "failed")
            /\ UNCHANGED <<terminal, kick, slots>>
  /\ last' = [last EXCEPT ![r] = "failed"]
  /\ UNCHANGED <<got, cancelled, gone, authorized, seq, history>>

\* A suspended send goes on: the frame at the head of `todo` was accepted.
Resume(r) ==
  IF Len(todo[r]) > 1
    THEN /\ todo' = [todo EXCEPT ![r] = Tail(@)]
         /\ UNCHANGED <<stage, terminal, slots>>
  ELSE IF stage[r] = "failed"
    THEN /\ todo' = [todo EXCEPT ![r] = FailureFrames(r, "server_error")]
         /\ stage' = [stage EXCEPT ![r] = "reporting"]
         /\ terminal' = [terminal EXCEPT ![r] = TRUE]
         /\ Release(r)
    ELSE /\ todo' = [todo EXCEPT ![r] = <<>>]
         /\ stage' = [stage EXCEPT ![r] =
                        CASE @ = "sending" -> "streaming"
                          [] @ = "usage" -> "persisting"
                          [] @ = "reporting" -> "done"]
         /\ UNCHANGED <<terminal, slots>>

-----------------------------------------------------------------------------
(* Persistence *)

Written(r) ==
  IF CommitsHistory THEN Append(loaded[r], r)
                    ELSE Append(store[ConversationOf[r]], r)

\* The store applies the messages while the task awaits it; a cancellation
\* may come before or after.
StoreApplies(r) ==
  /\ stage[r] = "persisting"
  /\ ~stored[r]
  /\ store' = [store EXCEPT ![ConversationOf[r]] = Written(r)]
  /\ stored' = [stored EXCEPT ![r] = TRUE]
  /\ UNCHANGED <<control, got, cancelled, gone, progress, slots, loaded>>

CompletionFrames(r) ==
  <<Frame("run_completed", seq[r]), Frame("run_result", 0)>> \o Trailer

\* Seeded fault: the completion is sent while the store is still writing.
PersistReturnsFault(r) ==
  /\ stage[r] = "persisting" /\ ~kick[r]
  /\ Push(r, CompletionFrames(r), "reporting", "done")
  /\ terminal' = [terminal EXCEPT ![r] = TRUE]
  /\ Release(r)
  /\ UNCHANGED <<kick, got, cancelled, gone, progress, history>>

PersistReturns(r) ==
  /\ stage[r] = "persisting" /\ ~kick[r]
  /\ stored[r]
  /\ Push(r, CompletionFrames(r), "reporting", "done")
  /\ terminal' = [terminal EXCEPT ![r] = TRUE]
  /\ Release(r)
  /\ UNCHANGED <<kick, got, cancelled, gone, progress, history>>

\* The output has no JSON form, or the store raises, before or after it applied
\* the messages.
PersistFails(r) ==
  /\ stage[r] = "persisting" /\ ~kick[r]
  /\ Fail(r, "server_error")
  /\ UNCHANGED <<got, cancelled, gone, progress, history>>

-----------------------------------------------------------------------------
(* Cancellation and timeout *)

\* Seeded fault: a run that sends its terminal frames can be cancelled.
CanCancelFault(r) == ~cancelled[r]

CanCancel(r) == ~cancelled[r] /\ ~terminal[r]

\* _cancel() for each of a set of runs.
CancelRuns(S) ==
  /\ cancelled' = [r \in Run |-> cancelled[r] \/ (r \in S /\ CanCancel(r))]
  /\ kick' = [r \in Run |-> kick[r] \/ (r \in S /\ CanCancel(r))]

\* asyncio.timeout in session().  A timer that fires after a cancellation
\* changes nothing.
Expire(r) ==
  /\ stage[r] \in InSession
  /\ ~kick[r]
  /\ kick' = [kick EXCEPT ![r] = TRUE]
  /\ UNCHANGED <<stage, todo, queue, terminal, got, cancelled, gone, progress,
                 slots, history>>

RunStep(r) ==
  \/ TakeServerSlot(r) \/ TakeAgentSlot(r)
  \/ Authorize(r) \/ Load(r) \/ SessionFails(r)
  \/ OpenStream(r) \/ StreamEvent(r) \/ StreamResult(r) \/ StreamFails(r)
  \/ StoreApplies(r) \/ PersistReturns(r) \/ PersistFails(r)

-----------------------------------------------------------------------------
(* Properties that every transport keeps *)

Frames == [kind : Events \cup Terminals \cup {"end"}, seq : Nat]

\* Types of the runtime's variables.
RuntimeTypeOK ==
  /\ stage \in [Run -> Stages]
  /\ \A r \in Run : \A f \in {todo[r], queue[r], got[r]} : f \in Seq(Frames)
  /\ \A f \in {cancelled, terminal, kick, gone, authorized, stored} :
       f \in [Run -> BOOLEAN]
  /\ last \in [Run -> {"none", "event", "failed"}]
  /\ seq \in [Run -> Nat]
  /\ line \in [Sem -> Seq(Run)]
  /\ free \in [Sem -> Nat]
  /\ store \in [Conversation -> Seq(Run)]
  /\ loaded \in [Run -> Seq(Run)]

\* What the run has sent: the frames at the client and those in the buffer.
Sent(r) == got[r] \o queue[r]

\* A response is a sequence of events with increasing sequence numbers, at
\* most one run_failed or run_completed, and at most one terminal frame, with
\* nothing but the trailer behind it: run_result comes right after
\* run_completed and run_failed is followed by an error only (events(),
\* _send_failure()), whatever is cancelled, times out or fails, and when.
ResponseIsWellFormed ==
  \A r \in Run : \A i, j \in DOMAIN Sent(r) :
    LET f == Sent(r)[i]
        g == Sent(r)[j]
    IN i < j =>
         /\ f.kind \in Events /\ g.kind \in Events => f.seq < g.seq
         /\ f.kind \in Terminals => g = End
         /\ f.kind = "run_completed" => g.kind \in {"run_result", "end"}
         /\ f.kind = "run_failed" => g.kind \in {"server_error", "run_cancelled", "end"}
         /\ g.kind = "run_result" => \E k \in DOMAIN Sent(r) : Sent(r)[k].kind = "run_completed"

\* run_completed and run_result are sent only when the conversation has the
\* run's messages (stream(), events()).
CompletedIsDurable ==
  \A r \in Run : \A i \in DOMAIN Sent(r) :
    Sent(r)[i].kind \in {"run_completed", "run_result"} => stored[r]

\* Every way a run ends gives back what it took: free slots, and runs that
\* hold one, always add up, and a run waits in one line at most, and only
\* while it is waiting (session()).
SlotsAreConserved ==
  /\ \A s \in Sem : free[s] + Cardinality({r \in Run : Holds(r, s)}) = Slots[s]
  /\ \A s \in Sem : \A i \in DOMAIN line[s] :
       stage[line[s][i]] = IF s = Server THEN "slot" ELSE "agentSlot"

\* The history of a conversation is only extended: no run's messages are
\* overwritten by another run that loaded the history before (stream()).
HistoryGrows ==
  [][\A c \in Conversation : IsPrefix(store[c], store'[c])]_history

-----------------------------------------------------------------------------
(* The outcome of a run, without tasks, slots and events *)

AnswerOf(r) ==
  LET kinds == {Sent(r)[i].kind : i \in DOMAIN Sent(r)}
  IN IF "run_result" \in kinds THEN "result"
     ELSE IF kinds \cap Terminals # {} THEN "error" ELSE "none"

Outcome == INSTANCE RunOutcome WITH
  durable <- {r \in Run : stored[r]},
  answer <- [r \in Run |-> AnswerOf(r)],
  left <- {r \in Run : gone[r]},
  ended <- {r \in Run : stage[r] = "done"}

\* The server implements RunOutcome: exactly one answer for a client that
\* stays, and a result only for a run that was stored.
OutcomeSpec == Outcome!Spec

=============================================================================
