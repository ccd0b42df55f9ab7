------------------------------- MODULE AgentRun -------------------------------
(***************************************************************************)
(* The runs of agents: model requests and tool calls, with hooks around    *)
(* the tools, the usage that is recorded with a tree of trackers, and the  *)
(* events that a streamed run hands to its consumer.                       *)
(*                                                                         *)
(* pydantic_ai drives a run; here it is a loop that asks for the models,   *)
(* makes a request and makes the calls of the response, one after another. *)
(* They are recorded with the next response, so that the checks before     *)
(* them do not see each other.  Usage counts requests and tool calls, not  *)
(* tokens.                                                                 *)
(***************************************************************************)
EXTENDS AgentBuild

CONSTANTS Overriding,   \* the runs that name a model of their own
          Streamed,
          Trackers, Root,
          Chain,        \* a tracker and those above it, up to Root
          TrackerOf,
          RequestLimit, ToolLimit,   \* of Root, for all runs together
          MaxRequests,  \* the policy's limit of requests, for each run
          MaxCalls,     \* bound on the tool calls of a response
          Hooks         \* how many a tool call has

ASSUME RunAssumption ==
  /\ Overriding \subseteq Runs /\ Streamed \subseteq Runs
  /\ Chain \in [Trackers -> SUBSET Trackers]
  /\ Root \in Trackers /\ \A t \in Trackers : {t, Root} \subseteq Chain[t]
  /\ TrackerOf \in [Runs -> Trackers]
  /\ RequestLimit \in Nat /\ ToolLimit \in Nat /\ MaxRequests \in [Runs -> Nat] /\ Hooks \in Nat
  /\ MaxCalls \in Nat \ {0}

\* A process starts finitely many runs.
ASSUME RunsAreFinite == IsFiniteSet(Runs)

VARIABLES
  used,      \* the usage pydantic_ai counts for a run
  previous,  \* what of it has been recorded
  ledger,    \* the usage of each tracker
  then,      \* what follows when the callbacks of the trackers have run
  hooked,    \* the hooks that the last tool call has entered, of each kind
  outcome,   \* how a run ends
  upstream,  \* events and errors of pydantic_ai that are not translated yet
  stream,    \* the state of a run's PydanticAIStream and its consumer
  got        \* the events the consumer has got

ledgerVars == <<used, previous, ledger>>
streamVars == <<upstream, stream, got>>
runVars == <<ledgerVars, then, hooked, outcome, streamVars>>
vars == <<buildVars, runVars>>

Zero == [requests |-> 0, tools |-> 0]
NoHooks == [before |-> 0, after |-> 0, notifying |-> 0]

Init ==
  /\ BuildInit
  /\ used = [r \in Runs |-> Zero] /\ previous = [r \in Runs |-> Zero]
  /\ ledger = [t \in Trackers |-> Zero]
  /\ then = [r \in Runs |-> None]
  /\ hooked = [r \in Runs |-> NoHooks]
  /\ outcome = [r \in Runs |-> "none"]
  /\ upstream = [r \in Runs |-> <<>>]
  /\ stream = [r \in Runs |-> [consumer |-> "reading", complete |-> FALSE, failed |-> FALSE,
                               expectRequest |-> TRUE, sequence |-> 1,
                               pending |-> <<[kind |-> "run_started", sequence |-> 0]>>]]
  /\ got = [r \in Runs |-> <<>>]

Active == {"selecting", "asking", "selected", "requesting", "answering", "noting", "calling",
           "before", "executing", "after", "notifying", "unwinding", "settling"}
Owner(r) == IF r \in Overriding THEN r ELSE AgentOf[r]

\* pydantic_ai hands over one event at a time.
Emit(r, event) ==
  /\ upstream[r] = <<>>
  /\ upstream' = IF r \in Streamed THEN [upstream EXCEPT ![r] = <<event>>] ELSE upstream

Continue(r, to) == Become(r, to) /\ UNCHANGED <<outcome, routingVars>>

\* The run ends, and what was selected for its request is dropped.
End(r, how) ==
  /\ Become(r, "unwinding")
  /\ outcome' = [outcome EXCEPT ![r] = how]
  /\ Forget(r)

Fail(r) == End(r, "error")

\* OvidAgent.run and stream, with or without a model of the run's own.
Start(r) ==
  /\ stage[r] = "new" /\ stage[AgentOf[r]] = "ready"
  /\ IF r \in Overriding THEN Resolve(r) ELSE Become(r, "selecting") /\ UNCHANGED routingVars
  /\ UNCHANGED <<factoryVars, runVars>>

-----------------------------------------------------------------------------
\* The usage trackers.

\* A fault to test with: the difference is taken the wrong way round.
TotalFault(u, delta, sign) == [requests |-> delta.requests + sign * u.requests,
                               tools |-> delta.tools + sign * u.tools]

Total(u, delta, sign) == [requests |-> u.requests + sign * delta.requests,
                          tools |-> u.tools + sign * delta.tools]

Exceeded(u) == u.requests > RequestLimit \/ u.tools > ToolLimit

\* A fault to test with: `previous` is set when the trackers have not raised.
RecordFault(r, usage) ==
  LET delta == Total(usage, previous[r], -1) IN
  /\ ledger' = [t \in Trackers |-> IF t \in Chain[TrackerOf[r]]
                                     THEN Total(ledger[t], delta, 1) ELSE ledger[t]]
  /\ previous' = IF Exceeded(ledger'[Root]) THEN previous ELSE [previous EXCEPT ![r] = usage]

\* RunUsageRecorder.record and UsageTracker.add, up to the callbacks.
Record(r, usage) ==
  LET delta == Total(usage, previous[r], -1) IN
  /\ previous' = [previous EXCEPT ![r] = usage]
  /\ ledger' = [t \in Trackers |-> IF t \in Chain[TrackerOf[r]]
                                     THEN Total(ledger[t], delta, 1) ELSE ledger[t]]

\* _usage_limits: what pydantic_ai checks for the policy.
PolicyAllows(r) == used[r].requests < MaxRequests[r]

\* check_before_request
MayRequest(r) == ledger[Root].requests < RequestLimit /\ PolicyAllows(r)

\* A fault to test with: a call is made when the limit has been reached.
MayCallFault == ledger[Root].tools <= ToolLimit

\* check_before_tool_call
MayCall == ledger[Root].tools < ToolLimit

-----------------------------------------------------------------------------
\* Model requests.

SelectModels(r) ==
  /\ Select(r) \/ Selected(r, Owner(r))
  /\ UNCHANGED <<factoryVars, runVars>>

\* The resolver has no key, or the model cannot be rebuilt.
SelectFails(r) ==
  /\ stage[r] = "asking"
  /\ Fail(r)
  /\ UNCHANGED <<factoryVars, ledgerVars, then, hooked, streamVars>>

\* The toolsets are asked for their tools, whose names must differ.
Offered(r) == \E tools \in Offers(DefinitionOf(r)) : UniqueNames(tools)

OfferFails(r) ==
  /\ stage[r] = "selected"
  /\ \E tools \in Offers(DefinitionOf(r)) : ~UniqueNames(tools)
  /\ Fail(r)
  /\ UNCHANGED <<factoryVars, ledgerVars, then, hooked, streamVars>>

BeforeRequest(r) ==
  /\ stage[r] = "selected" /\ Offered(r)
  /\ IF MayRequest(r) THEN Continue(r, "requesting") ELSE Fail(r)
  /\ UNCHANGED <<factoryVars, ledgerVars, then, hooked, streamVars>>

\* The response begins: a part with or without text, and the text that follows.
Part(r) ==
  /\ r \in Streamed /\ stage[r] = "requesting"
  /\ \E event \in {"text", "part"} : Emit(r, event)
  /\ Become(r, "answering")
  /\ UNCHANGED <<routingVars, factoryVars, ledgerVars, then, hooked, outcome, stream, got>>

\* after_model_request records.  The response calls tools, is the result, or
\* is no valid result, which pydantic_ai asks the model to correct.
Respond(r) ==
  /\ stage[r] = IF r \in Streamed THEN "answering" ELSE "requesting"
  /\ used' = [used EXCEPT ![r].requests = @ + 1]
  /\ Record(r, used'[r])
  /\ IF Exceeded(ledger'[Root])
       THEN Fail(r) /\ UNCHANGED then
       ELSE /\ \E next \in {"calling", "unwinding", "selecting"} : then' = [then EXCEPT ![r] = next]
            /\ Become(r, "noting") /\ UNCHANGED outcome /\ Forget(r)
  /\ UNCHANGED <<factoryVars, hooked, streamVars>>

\* A request that fails may have been counted.
RequestFails(r) ==
  /\ stage[r] \in {"requesting", "answering"}
  /\ \E n \in {0, 1} : used' = [used EXCEPT ![r].requests = @ + n]
  /\ Fail(r)
  /\ UNCHANGED <<factoryVars, previous, ledger, then, hooked, streamVars>>

\* The callbacks of the trackers, which may raise.
Noted(r) ==
  /\ stage[r] = "noting"
  /\ \/ then[r] = "unwinding" /\ End(r, "result")
     \/ then[r] # "unwinding" /\ Continue(r, then[r])
     \/ Fail(r)
  /\ then' = [then EXCEPT ![r] = None]
  /\ UNCHANGED <<factoryVars, ledgerVars, hooked, streamVars>>

-----------------------------------------------------------------------------
\* Tool calls.

\* Arguments that are not valid are refused before any hook runs.
Call(r) ==
  /\ stage[r] = "calling"
  /\ Emit(r, "call")
  /\ hooked' = [hooked EXCEPT ![r] = NoHooks]
  /\ \/ MayCall /\ Continue(r, "before")
     \/ Fail(r)
  /\ UNCHANGED <<factoryVars, ledgerVars, then, stream, got>>

\* The next hook is entered; it may suspend the run.
Hook(r) ==
  /\ stage[r] \in DOMAIN NoHooks /\ hooked[r][stage[r]] < Hooks
  /\ hooked' = [hooked EXCEPT ![r][stage[r]] = @ + 1]
  /\ UNCHANGED <<stage, routingVars, factoryVars, ledgerVars, then, outcome, streamVars>>

\* The hooks before the tool have run, then the tool with its timeout and the
\* validation of its result, then the hooks after it.
Proceed(r) ==
  /\ \/ stage[r] = "before" /\ hooked[r].before = Hooks /\ Become(r, "executing")
     \/ stage[r] = "executing" /\ Become(r, "after")
  /\ UNCHANGED <<routingVars, factoryVars, runVars>>

\* The call is counted, to be recorded later.  The response has another call,
\* or the next request follows.
Returned(r) ==
  /\ stage[r] = "after" /\ hooked[r].after = Hooks
  /\ Emit(r, "return")
  /\ used' = [used EXCEPT ![r].tools = @ + 1]
  /\ \/ Become(r, "selecting")
     \/ used'[r].tools < previous[r].tools + MaxCalls /\ Become(r, "calling")
  /\ UNCHANGED <<routingVars, factoryVars, previous, ledger, then, hooked, outcome, stream, got>>

\* A fault to test with: what the hooks after the tool raise is not reported.
RaisesFault(r) ==
  /\ \/ stage[r] \in {"before", "executing"} /\ Continue(r, "notifying")
     \/ stage[r] = "after" /\ Fail(r)
  /\ UNCHANGED <<factoryVars, ledgerVars, then, hooked, streamVars>>

\* A hook or the tool raises, or the tool times out: the hooks are told, even
\* of a tool that has done its work.
Raises(r) ==
  /\ stage[r] \in {"before", "executing", "after"}
  /\ Become(r, "notifying")
  /\ UNCHANGED <<routingVars, factoryVars, runVars>>

\* _notify_error stops at a hook that raises.
Notified(r) ==
  /\ stage[r] = "notifying"
  /\ hooked[r].notifying > 0 \/ Hooks = 0
  /\ Fail(r)
  /\ UNCHANGED <<factoryVars, ledgerVars, then, hooked, streamVars>>

-----------------------------------------------------------------------------
\* The end of a run.

\* The run is cancelled wherever it is suspended; no hook is told.
Cut(r) ==
  /\ stage[r] \in Active \ {"unwinding"}
  /\ \E n \in {0, 1} :
       /\ n = 1 => stage[r] \in {"requesting", "answering"}
       /\ used' = [used EXCEPT ![r].requests = @ + n]
  /\ hooked' = [hooked EXCEPT ![r] = NoHooks]
  /\ then' = [then EXCEPT ![r] = None]
  /\ End(r, "cancelled")
  /\ UNCHANGED <<previous, ledger>>

\* The policy's timeout, or the caller.
Interrupt(r) == r \notin Streamed /\ Cut(r) /\ UNCHANGED <<factoryVars, streamVars>>

\* A consumer that still reads gets the result or the error.
Conclude(r, how) ==
  /\ Become(r, "over")
  /\ outcome' = [outcome EXCEPT ![r] = how]
  /\ upstream' = IF r \in Streamed /\ stream[r].consumer = "reading"
                   THEN [upstream EXCEPT ![r] = Append(@, how)] ELSE upstream

\* A result that cannot be converted is an error.
Ends(r) == {outcome[r]} \cup (IF outcome[r] = "result" /\ r \notin Streamed THEN {"error"} ELSE {})

\* wrap_run records what is left; the limit may raise in place of what ended
\* the run.
Unwind(r) ==
  /\ stage[r] = "unwinding"
  /\ Record(r, used[r])
  /\ \/ used[r] = previous[r] /\ \E how \in Ends(r) : Conclude(r, how)
     \/ used[r] # previous[r] /\ Exceeded(ledger'[Root]) /\ Conclude(r, "error")
     \/ /\ used[r] # previous[r] /\ ~Exceeded(ledger'[Root])
        /\ Become(r, "settling") /\ UNCHANGED <<outcome, upstream>>
  /\ UNCHANGED <<routingVars, factoryVars, used, then, hooked, stream, got>>

\* The callbacks, which may raise too.
Settled(r) ==
  /\ stage[r] = "settling"
  /\ \E how \in Ends(r) \cup {"error"} : Conclude(r, how)
  /\ UNCHANGED <<routingVars, factoryVars, ledgerVars, then, hooked, stream, got>>

-----------------------------------------------------------------------------
\* The stream of a run.

Opened(r) == r \in Streamed /\ stage[r] \in Active \cup {"over"} /\ stream[r].consumer = "reading"

\* A fault to test with: model_request_started takes no number of its own.
NumberedFault(kinds, first) ==
  [i \in DOMAIN kinds |-> [kind |-> kinds[i], sequence |-> first]]

\* _next_sequence
Numbered(kinds, first) ==
  [i \in DOMAIN kinds |-> [kind |-> kinds[i], sequence |-> first + i - 1]]

\* _translate: the kinds of the events it makes.
Translated(s, event) ==
  LET started == IF s.expectRequest THEN <<"model_request_started">> ELSE <<>> IN
  CASE event = "text"   -> started \o <<"text_delta">>
    [] event = "part"   -> started
    [] event = "call"   -> <<"tool_call">>
    [] event = "return" -> <<"tool_result">>
    [] event = "result" -> <<"usage_update", "run_completed">>
    [] event = "error"  -> <<"run_failed">>

\* __anext__ with an event pending.
Deliver(r) ==
  /\ Opened(r) /\ stream[r].pending # <<>>
  /\ got' = [got EXCEPT ![r] = Append(@, Head(stream[r].pending))]
  /\ stream' = [stream EXCEPT ![r].pending = Tail(@)]
  /\ UNCHANGED <<buildVars, ledgerVars, then, hooked, outcome, upstream>>

\* __anext__ without one: the first event is returned, the others are pending.
Translate(r) ==
  /\ Opened(r) /\ stream[r].pending = <<>> /\ upstream[r] # <<>>
  /\ LET event == Head(upstream[r])
         events == Numbered(Translated(stream[r], event), stream[r].sequence)
     IN /\ got' = IF events = <<>> THEN got
                    ELSE [got EXCEPT ![r] = Append(@, Head(events))]
        /\ stream' = [stream EXCEPT
             ![r].pending = IF events = <<>> THEN <<>> ELSE Tail(events),
             ![r].sequence = @ + Len(events),
             ![r].expectRequest = event = "return" \/ (@ /\ event \notin {"text", "part"}),
             ![r].complete = @ \/ event = "result",
             ![r].failed = @ \/ event = "error"]
  /\ upstream' = [upstream EXCEPT ![r] = Tail(@)]
  /\ UNCHANGED <<buildVars, ledgerVars, then, hooked, outcome>>

\* The content of a tool result, or the result, cannot be converted: __anext__
\* raises and a number may be lost.
TranslateFails(r) ==
  /\ Opened(r) /\ stream[r].pending = <<>>
  /\ upstream[r] # <<>> /\ Head(upstream[r]) \in {"return", "result"}
  /\ stream' = [stream EXCEPT
       ![r].sequence = IF Head(upstream[r]) = "return" THEN @ + 1 ELSE @,
       ![r].expectRequest = @ \/ Head(upstream[r]) = "return"]
  /\ upstream' = [upstream EXCEPT ![r] = Tail(@)]
  /\ UNCHANGED <<buildVars, ledgerVars, then, hooked, outcome, got>>

\* The consumer leaves the context, or the policy's timeout makes it: the run
\* is cancelled, or recorded once more if it was consumed to its end.
Leave(r) ==
  /\ Opened(r) /\ stage[r] # "unwinding"
  /\ stream' = [stream EXCEPT ![r].consumer = "left"]
  /\ upstream' = [upstream EXCEPT ![r] = <<>>]
  /\ \/ Cut(r)
     \/ /\ stage[r] = "over"
        /\ IF stream[r].complete THEN Record(r, used[r]) ELSE UNCHANGED <<previous, ledger>>
        /\ UNCHANGED <<stage, routingVars, used, then, hooked, outcome>>
  /\ UNCHANGED <<factoryVars, got>>

RunStep(r) ==
  \/ SelectModels(r) \/ SelectFails(r) \/ OfferFails(r) \/ BeforeRequest(r) \/ Part(r) \/ Respond(r)
  \/ RequestFails(r) \/ Noted(r) \/ Call(r) \/ Hook(r) \/ Proceed(r) \/ Returned(r)
  \/ Raises(r) \/ Notified(r) \/ Unwind(r) \/ Settled(r)

Read(r) == Deliver(r) \/ Translate(r) \/ TranslateFails(r)

Next ==
  \/ BuildNext /\ UNCHANGED runVars
  \/ \E r \in Runs : Start(r) \/ RunStep(r) \/ Interrupt(r) \/ Read(r) \/ Leave(r)

Spec == Init /\ [][Next]_vars

TaskStep(t) ==
  \/ BuildStep(t) /\ UNCHANGED runVars
  \/ t \in Runs /\ RunStep(t)

\* The event loop goes on while a task can: resolvers, providers, tools, hooks
\* and callbacks return, and a consumer reads on.  No order is assumed.
Progress == (\E t \in Tasks : TaskStep(t)) \/ (\E r \in Streamed : Read(r))
Fairness == WF_vars(Progress)

FairSpec == Spec /\ Fairness

-----------------------------------------------------------------------------
Usages == [requests : Nat, tools : Nat]
Events == [kind : {"run_started", "model_request_started", "text_delta", "tool_call", "tool_result",
                   "usage_update", "run_completed", "run_failed"}, sequence : Nat]

TypeOK ==
  /\ BuildTypeOK
  /\ stage \in [Tasks -> Active \cup {"new", "locking", "gathering", "constructing", "resolved",
                                    "ready", "failed", "over"}]
  /\ used \in [Runs -> Usages] /\ previous \in [Runs -> Usages] /\ ledger \in [Trackers -> Usages]
  /\ then \in [Runs -> {"calling", "unwinding", "selecting", None}]
  /\ hooked \in [Runs -> [DOMAIN NoHooks -> 0 .. Hooks]]
  /\ outcome \in [Runs -> {"none", "result", "error", "cancelled"}]
  /\ upstream \in [Runs -> Seq({"text", "part", "call", "return", "result", "error"})]
  /\ stream \in [Runs -> [consumer : {"reading", "left"}, complete : BOOLEAN, failed : BOOLEAN,
                          expectRequest : BOOLEAN, sequence : Nat, pending : Seq(Events)]]
  /\ got \in [Runs -> Seq(Events)]

\* The runs below a tracker, and what pydantic_ai counts for them.
Under(t) == {r \in Runs : t \in Chain[TrackerOf[r]]}
Spent(t) == [requests |-> MapThenSumSet(LAMBDA r : used[r].requests, Under(t)),
             tools |-> MapThenSumSet(LAMBDA r : used[r].tools, Under(t))]

\* "wrap_run", RunUsageRecorder: no request or tool call is recorded twice, and
\* none is missing when the runs are over, however each of them ended and
\* whatever a limit or a callback has raised.
LedgerIsExact ==
  \A t \in Trackers :
    /\ ledger[t].requests <= Spent(t).requests /\ ledger[t].tools <= Spent(t).tools
    /\ (\A r \in Under(t) : stage[r] \notin Active) => ledger[t] = Spent(t)

\* What a run may spend between two recordings.
Burst == [requests |-> 1, tools |-> MaxCalls]

\* "one usage budget" of a tree of runs: the checks before a request or call
\* only see what has been recorded.  The runs together exceed a limit by no
\* more than what those that spend have not recorded, less the one that reached
\* it: a run alone keeps the limit of requests, and that of tool calls but for
\* the calls of one response.
BudgetHolds ==
  \A kind \in DOMAIN Zero :
    LET limit == IF kind = "requests" THEN RequestLimit ELSE ToolLimit
        spenders == Cardinality({r \in Runs : used[r][kind] > 0})
    IN Spent(Root)[kind] <= limit + Max({0, Burst[kind] * spenders - 1})

\* PydanticAIStream: run_started comes first, the numbers increase, text belongs
\* to a request that was announced, one terminal event comes last, and
\* run_completed follows the final usage, all of which has been recorded.
EventsInOrder ==
  \A r \in Runs :
    LET e == got[r]
        kind(i) == e[i].kind
    IN \A i \in DOMAIN e :
         /\ kind(i) = "run_started" <=> i = 1
         /\ i > 1 => e[i - 1].sequence < e[i].sequence
         /\ kind(i) = "text_delta" =>
              \E j \in 1 .. i - 1 : /\ kind(j) = "model_request_started"
                                    /\ \A k \in j .. i : kind(k) # "tool_result"
         /\ kind(i) \in {"run_completed", "run_failed"} => i = Len(e)
         /\ kind(i) = "run_completed" =>
              kind(i - 1) = "usage_update" /\ outcome[r] = "result" /\ previous[r] = used[r]

\* _execute_tool: a call whose hooks have begun and that was not cancelled is
\* told to the hooks, as a success by all or as an error, and after an error
\* the run makes no further request and has no result.
ToolIsReported ==
  \A r \in Runs :
    /\ stage[r] \in {"calling", "selecting", "over"} /\ hooked[r].before > 0
         => hooked[r].after = Hooks \/ hooked[r].notifying > 0
    /\ hooked[r].after > 0 => hooked[r].before = Hooks
    /\ hooked[r].notifying > 0 => outcome[r] # "result" /\ stage[r] \in {"notifying", "unwinding", "settling", "over"}

\* Every preparation and run that has begun ends, also preparations that wait for
\* others at the factory's lock and runs whose consumers read or leave, and the
\* lock is free.
TasksEnd ==
  <>[](gathering = None /\ \A t \in Tasks : stage[t] \in {"new", "ready", "failed", "over"})
=============================================================================
