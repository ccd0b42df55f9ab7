----------------------------- MODULE ModelRouting -----------------------------
(***************************************************************************)
(* The model router, which builds a handle per model and caches it, and    *)
(* the handles, which ask for the provider's API key before every request  *)
(* and rebuild their model when the key has changed.                       *)
(*                                                                         *)
(* A task is the preparation of an agent or a run.  It resolves a selector *)
(* at most once and then owns the handle of the selector: a sequence of    *)
(* the router's handles, longer than one for a fallback.  A key is the     *)
(* number of rotations before it, and a model is the key it was built      *)
(* with.                                                                   *)
(***************************************************************************)
EXTENDS Integers, Sequences

CONSTANTS Agents, Runs,
          Models,
          Aliases,    \* the aliases in the configuration of a model
          Selector,   \* the names in the selector of a task, in order
          MaxKey,     \* bound on rotations
          None

Tasks == Agents \cup Runs
Handles == Models \X Tasks     \* the model, and the task that built the handle
Keys == 0 .. MaxKey

\* _build_aliases: a name leads to one model, or the router is not built.
NamesOf(m) == {m} \cup Aliases[m]
Resolves(name) == \E m \in Models : name \in NamesOf(m)
ModelOf(name) == CHOOSE m \in Models : name \in NamesOf(m)

ASSUME RoutingAssumption ==
  /\ Agents \cap Runs = {} /\ None \notin Models \X Tasks
  /\ MaxKey \in Nat
  /\ \A m, n \in Models : m # n => NamesOf(m) \cap NamesOf(n) = {}
  /\ \A t \in Tasks : Len(Selector[t]) \in Nat \ {0} /\ DOMAIN Selector[t] = 1 .. Len(Selector[t])

VARIABLES
  stage,     \* where a task is suspended
  key,       \* the provider's key
  handles,   \* the router's cache
  initial,   \* the key of a handle's `runtime`, which rebuilding leaves alone
  built,     \* the handles a task has got from the router
  native,    \* the models of a task's fallback
  asked,     \* the key when the task last asked for it
  since,     \* history: the key when the task began to select a model
  current,   \* the models a run has resolved for its next request
  runtime    \* the models of the request

routingVars == <<key, handles, initial, built, native, asked, since, current, runtime>>

RoutingInit ==
  /\ key = 0
  /\ handles = [m \in Models |-> None]
  /\ initial = [h \in Handles |-> None]
  /\ built = [t \in Tasks |-> <<>>]
  /\ native = [t \in Tasks |-> <<>>]
  /\ asked = [t \in Tasks |-> 0]
  /\ since = [t \in Tasks |-> 0]
  /\ current = [t \in Tasks |-> <<>>]
  /\ runtime = [t \in Tasks |-> <<>>]

Become(t, to) == stage' = [stage EXCEPT ![t] = to]

Rotate ==
  /\ key < MaxKey
  /\ key' = key + 1
  /\ UNCHANGED <<handles, initial, built, native, asked, since, current, runtime>>

\* The key the resolver returns was the provider's while it was asked.
Answered(t) == asked[t] .. key

-----------------------------------------------------------------------------
\* ModelRouter.resolve

Wanted(t, i) == ModelOf(Selector[t][i])

\* _construct_model, from the handles the task has: cached handles are taken
\* at once, at the first model without one the factory asks for a key.
\* Behind the last, compile_fallback_model makes the handle of the selector.
Walk(t, have, cache, keyOf) ==
  \E stop \in Len(have) .. Len(Selector[t]) :
    LET all == [i \in 1 .. stop |-> IF i <= Len(have) THEN have[i] ELSE cache[Wanted(t, i)]]
    IN /\ \A i \in Len(have) + 1 .. stop : cache[Wanted(t, i)] # None
       /\ built' = [built EXCEPT ![t] = all]
       /\ \/ /\ stop = Len(Selector[t])
             /\ Become(t, "resolved")
             /\ native' = [native EXCEPT ![t] = IF stop = 1 THEN <<>>
                                              ELSE [i \in 1 .. stop |-> keyOf[all[i]]]]
             /\ asked' = [asked EXCEPT ![t] = 0]
          \/ /\ stop < Len(Selector[t]) /\ cache[Wanted(t, stop + 1)] = None
             /\ Become(t, "constructing")
             /\ asked' = [asked EXCEPT ![t] = key]
             /\ UNCHANGED native

\* A name that is not configured is refused before anything is built.
Resolve(t) ==
  IF \A i \in DOMAIN Selector[t] : Resolves(Selector[t][i])
    THEN Walk(t, <<>>, handles, initial) /\ UNCHANGED <<key, handles, initial, since, current, runtime>>
    ELSE Become(t, "failed") /\ UNCHANGED routingVars

\* DefaultModelFactory.build returns: two tasks that found no handle both
\* build one, and the later one stays in the cache.
Constructed(t) ==
  /\ stage[t] = "constructing"
  /\ \E k \in Answered(t) :
       LET m == Wanted(t, Len(built[t]) + 1) IN
       /\ handles' = [handles EXCEPT ![m] = <<m, t>>]
       /\ initial' = [initial EXCEPT ![<<m, t>>] = k]
       /\ Walk(t, Append(built[t], <<m, t>>), handles', initial')
  /\ UNCHANGED <<key, since, current, runtime>>

\* No key, or the provider's model cannot be built.
ConstructionFails(t) ==
  /\ stage[t] = "constructing"
  /\ Become(t, "failed")
  /\ UNCHANGED routingVars

-----------------------------------------------------------------------------
\* The models of a request; `owner` is the task whose handle the run uses.

\* SelectModel asks the handles for their models, one after the other.
Select(r) ==
  /\ stage[r] = "selecting"
  /\ Become(r, "asking")
  /\ asked' = [asked EXCEPT ![r] = key]
  /\ since' = [since EXCEPT ![r] = key]
  /\ current' = [current EXCEPT ![r] = <<>>]
  /\ UNCHANGED <<key, handles, initial, built, native, runtime>>

\* A fault to test with: only the last model is compared.
FallbackFault(models, old) == IF models[Len(models)] # old[Len(old)] THEN models ELSE old

\* compile_fallback_model.resolve: the fallback is made anew if a model changed.
Fallback(models, old) == IF \E i \in DOMAIN models : models[i] # old[i] THEN models ELSE old

\* A handle whose key is not the answer rebuilds its model, and returns it.
Selected(r, owner) ==
  /\ stage[r] = "asking"
  /\ \E k \in Answered(r) :
       LET models == Append(current[r], k) IN
       IF Len(models) < Len(built[owner])
         THEN /\ current' = [current EXCEPT ![r] = models]
              /\ asked' = [asked EXCEPT ![r] = key]
              /\ UNCHANGED <<stage, native, runtime>>
         ELSE /\ IF Len(models) = 1
                   THEN UNCHANGED native /\ runtime' = [runtime EXCEPT ![r] = models]
                   ELSE /\ native' = [native EXCEPT ![owner] = Fallback(models, native[owner])]
                        /\ runtime' = [runtime EXCEPT ![r] = native'[owner]]
              /\ current' = [current EXCEPT ![r] = <<>>]
              /\ Become(r, "selected")
              /\ asked' = [asked EXCEPT ![r] = 0]
  /\ UNCHANGED <<key, handles, initial, built, since>>

\* The request is over: what was selected for it is dropped.
Forget(r) ==
  /\ asked' = [asked EXCEPT ![r] = 0] /\ since' = [since EXCEPT ![r] = 0]
  /\ current' = [current EXCEPT ![r] = <<>>] /\ runtime' = [runtime EXCEPT ![r] = <<>>]
  /\ UNCHANGED <<key, handles, initial, built, native>>

-----------------------------------------------------------------------------
RoutingTypeOK ==
  /\ key \in Keys
  /\ handles \in [Models -> Handles \cup {None}]
  /\ initial \in [Handles -> Keys \cup {None}]
  /\ built \in [Tasks -> Seq(Handles)]
  /\ native \in [Tasks -> Seq(Keys)] /\ current \in [Tasks -> Seq(Keys)]
  /\ runtime \in [Tasks -> Seq(Keys)]
  /\ asked \in [Tasks -> Keys] /\ since \in [Tasks -> Keys]

\* "Resolver failures stop the request instead of reusing a stale key": a
\* request is made with no key older than the one that was the provider's when
\* its models were selected, though runs share handles and fallbacks
\* (DefaultModelFactory.build.resolve, compile_fallback_model.resolve).
KeysAreFresh ==
  \A r \in Runs : stage[r] \in {"selected", "requesting", "answering"} =>
    \A i \in DOMAIN runtime[r] : runtime[r][i] >= since[r]

\* Every model of a request is the one its selector names at that place, and
\* the cache leads from a model to a handle of it.
RoutesAreKept ==
  /\ \A m \in Models : handles[m] # None => handles[m][1] = m /\ initial[handles[m]] \in Keys
  /\ \A t \in Tasks : \A i \in DOMAIN built[t] : built[t][i][1] = Wanted(t, i)
=============================================================================
