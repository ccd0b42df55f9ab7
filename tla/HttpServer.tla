----------------------------- MODULE HttpServer -----------------------------
(***************************************************************************)
(* The HTTP/SSE transport over the server runtime: the producer task and   *)
(* the response generator share a queue of one frame; the client takes     *)
(* frames, cancels by run identifier, or disconnects; the server closes.   *)
(*                                                                         *)
(* The buffer is the queue (Buffer = 1) and the trailer its None.  Cancel  *)
(* requests of other principals, for other agents or without a principal   *)
(* change nothing and are no actions; nor are requests refused before a    *)
(* run is created.                                                         *)
(***************************************************************************)
EXTENDS ServerRuntime

ASSUME HttpAssumption == Buffer = 1 /\ Trailer = <<End>>

VARIABLE closing   \* the server is shutting down

vars == <<runtimeVars, closing>>

Init == RuntimeInit /\ closing = FALSE

\* POST /agents/{agent_id}/events
Start(r) ==
  /\ stage[r] = "new"
  /\ ~closing
  /\ Enter(r)
  /\ UNCHANGED closing

\* The producer, suspended in queue.put, runs again and finds room.
Put(r) ==
  /\ todo[r] # <<>> /\ ~kick[r]
  /\ Room(r)
  /\ queue' = [queue EXCEPT ![r] = Append(@, Head(todo[r]))]
  /\ Resume(r)
  /\ UNCHANGED <<kick, got, cancelled, gone, progress, history, closing>>

\* The generator leaves its loop: `disconnected` is set, and disconnect()
\* cancels a run that is still registered, whatever its flags.
Abandon(r) ==
  /\ gone' = [gone EXCEPT ![r] = TRUE]
  /\ cancelled' = [cancelled EXCEPT ![r] = @ \/ Live(r)]
  /\ kick' = [kick EXCEPT ![r] = Live(r)]

\* The client takes a frame; the trailer ends the response.
Take(r) ==
  /\ queue[r] # <<>> /\ ~gone[r]
  /\ got' = [got EXCEPT ![r] = Append(@, Head(queue[r]))]
  /\ queue' = [queue EXCEPT ![r] = <<>>]
  /\ IF Head(queue[r]) = End THEN Abandon(r) ELSE UNCHANGED <<gone, cancelled, kick>>
  /\ UNCHANGED <<stage, todo, terminal, progress, slots, history, closing>>

Disconnect(r) ==
  /\ stage[r] # "new" /\ ~gone[r]
  /\ Abandon(r)
  /\ UNCHANGED <<stage, todo, queue, terminal, got, progress, slots,
                 history, closing>>

\* DELETE /agents/{agent_id}/runs/{run_id} by the principal of the run.
Cancel(r) ==
  /\ Live(r) /\ authorized[r] /\ CanCancel(r)
  /\ CancelRuns({r})
  /\ UNCHANGED <<stage, todo, queue, terminal, got, gone, progress,
                 slots, history, closing>>

\* close() at shutdown cancels the runs it finds; no run starts after it.
Close ==
  /\ ~closing
  /\ closing' = TRUE
  /\ CancelRuns({r \in Run : Live(r)})
  /\ UNCHANGED <<stage, todo, queue, terminal, got, gone, progress,
                 slots, history>>

\* CancelledError while the terminal frames are sent leaves the task: only
\* disconnect() still cancels, so that no trailer is put.
InterruptReport(r) ==
  /\ kick[r]
  /\ stage[r] = "reporting"
  /\ stage' = [stage EXCEPT ![r] = "done"]
  /\ todo' = [todo EXCEPT ![r] = <<>>]
  /\ kick' = [kick EXCEPT ![r] = FALSE]
  /\ UNCHANGED <<queue, terminal, got, cancelled, gone, progress, slots, history>>

TaskStep(r) ==
  \/ (RunStep(r) \/ InterruptRun(r) \/ InterruptReport(r)) /\ UNCHANGED closing
  \/ Put(r)

Next ==
  \/ \E r \in Run : Start(r) \/ TaskStep(r) \/ (Expire(r) /\ UNCHANGED closing)
  \/ \E r \in Run : Take(r) \/ Disconnect(r) \/ Cancel(r)
  \/ Close

Spec == Init /\ [][Next]_vars

\* Tasks run and the callbacks, the agent and the store they await answer or
\* are cancelled.
TaskFairness == \A r \in Run : WF_vars(TaskStep(r))

FairSpec == Spec /\ TaskFairness

\* Besides, a client that stays reads its response.
ReadingSpec == FairSpec /\ \A r \in Run : WF_vars(Take(r))

-----------------------------------------------------------------------------
(* Properties *)

\* Types of all variables.
TypeOK ==
  /\ RuntimeTypeOK
  /\ \A r \in Run : Len(queue[r]) <= Buffer
  /\ closing \in BOOLEAN

\* The generator never waits for frames that will not come: a run that is no
\* longer active has left a frame or the trailer in the queue (produce()).
ResponseEnds ==
  \A r \in Run : stage[r] = "done" /\ ~gone[r] => queue[r] # <<>>

\* A run whose cancellation was accepted tells so to a client that reads
\* ("the original SSE stream delivers the terminal cancellation result").
CancelIsReported ==
  \A r \in Run : cancelled[r] ~>
    gone[r] \/ \E i \in DOMAIN got[r] : got[r][i].kind = "run_cancelled"

\* Every run leaves the registry: behind other runs in the semaphores, and when
\* its client leaves while the producer is suspended on a full queue nobody
\* reads.  So disconnect(), and close() for the runs it finds, return.
RunsEnd == \A r \in Run : Live(r) ~> ~Live(r)

=============================================================================
