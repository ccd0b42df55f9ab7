------------------------------ MODULE AppProofs ------------------------------
(***************************************************************************)
(* Theorems about the preparation of agents and their runs, for any        *)
(* agents, runs, models, selectors, keys and hooks.                        *)
(***************************************************************************)
EXTENDS AgentRun, TLAPS

-----------------------------------------------------------------------------
\* The steps of a run that select no model: they keep the factory and what the
\* router has built, and may drop what was selected for a request.
Requesting == {"selected", "requesting", "answering"}

Quiet(r) ==
  /\ stage[r] \in Active
  /\ \E to \in (Active \cup {"over"}) \ {"asking"} :
       /\ stage' = [stage EXCEPT ![r] = to]
       /\ to \in Requesting => stage[r] \in Requesting /\ UNCHANGED routingVars
  /\ UNCHANGED routingVars \/ Forget(r)
  /\ UNCHANGED factoryVars

\* What follows the callbacks of the trackers.
ThenInv == \A r \in Runs : stage[r] = "noting" => then[r] \in {"calling", "unwinding", "selecting"}

LEMMA EndQuiet ==
  ASSUME NEW r \in Runs, NEW how, End(r, how), UNCHANGED factoryVars, stage[r] \in Active
  PROVE  Quiet(r)
<1> DEFINE to == "unwinding"
<1>1. to \in (Active \cup {"over"}) \ {"asking"} /\ to \notin Requesting
  BY DEF Active, Requesting
<1>2. stage' = [stage EXCEPT ![r] = to] /\ Forget(r)
  BY DEF End, Become
<1> QED
  BY <1>1, <1>2 DEF Quiet

LEMMA MoveQuiet ==
  ASSUME NEW r \in Runs, NEW to \in (Active \cup {"over"}) \ {"asking"}, Become(r, to),
         to \in Requesting => stage[r] \in Requesting,
         UNCHANGED routingVars, UNCHANGED factoryVars, stage[r] \in Active
  PROVE  Quiet(r)
BY DEF Quiet, Become

LEMMA RunSteps ==
  ASSUME ThenInv, NEW r \in Runs, RunStep(r) \/ Interrupt(r) \/ Read(r) \/ Leave(r)
  PROVE  Quiet(r) \/ SelectModels(r) \/ UNCHANGED buildVars
<1>1. CASE SelectModels(r)
  BY <1>1
<1>2. CASE SelectFails(r)
  BY <1>2, EndQuiet DEF SelectFails, Fail, Active
<1>3. CASE OfferFails(r)
  BY <1>3, EndQuiet DEF OfferFails, Fail, Active
<1>4. CASE BeforeRequest(r)
  BY <1>4, EndQuiet, MoveQuiet DEF BeforeRequest, Fail, Continue, Active, Requesting
<1>5. CASE Part(r)
  BY <1>5, MoveQuiet DEF Part, Active, Requesting
<1>6. CASE Respond(r)
  <2>1. stage[r] \in Active
    BY <1>6 DEF Respond, Active
  <2>2. CASE Fail(r)
    BY <1>6, <2>1, <2>2, EndQuiet DEF Respond, Fail
  <2>3. CASE Become(r, "noting") /\ Forget(r)
    <3>1. "noting" \in (Active \cup {"over"}) \ {"asking"} /\ "noting" \notin Requesting
      BY DEF Active, Requesting
    <3>2. UNCHANGED factoryVars
      BY <1>6 DEF Respond
    <3> QED
      BY <2>1, <2>3, <3>1, <3>2 DEF Quiet, Become
  <2> QED
    BY <1>6, <2>2, <2>3 DEF Respond
<1>7. CASE RequestFails(r)
  BY <1>7, EndQuiet DEF RequestFails, Fail, Active
<1>8. CASE Noted(r)
  BY <1>8, EndQuiet, MoveQuiet DEF Noted, ThenInv, Fail, Continue, Active, Requesting
<1>9. CASE Call(r)
  BY <1>9, EndQuiet, MoveQuiet DEF Call, Fail, Continue, Active, Requesting
<1>10. CASE Hook(r)
  BY <1>10 DEF Hook, buildVars
<1>11. CASE Proceed(r)
  BY <1>11, MoveQuiet DEF Proceed, Active, Requesting
<1>12. CASE Returned(r)
  BY <1>12, MoveQuiet DEF Returned, Active, Requesting
<1>13. CASE Raises(r)
  BY <1>13, MoveQuiet DEF Raises, Active, Requesting
<1>14. CASE Notified(r)
  BY <1>14, EndQuiet DEF Notified, Fail, Active
<1>15. CASE Unwind(r)
  BY <1>15, MoveQuiet DEF Unwind, Conclude, Active, Requesting
<1>16. CASE Settled(r)
  BY <1>16, MoveQuiet DEF Settled, Conclude, Active, Requesting
<1>17. CASE Interrupt(r)
  BY <1>17, EndQuiet DEF Interrupt, Cut, Active
<1>18. CASE Read(r)
  BY <1>18 DEF Read, Deliver, Translate, TranslateFails
<1>19. CASE Leave(r)
  BY <1>19, EndQuiet DEF Leave, Cut, buildVars
<1> QED
  BY <1>1, <1>2, <1>3, <1>4, <1>5, <1>6, <1>7, <1>8, <1>9, <1>10, <1>11, <1>12, <1>13,
     <1>14, <1>15, <1>16, <1>17, <1>18, <1>19 DEF RunStep

-----------------------------------------------------------------------------
\* What the router has built: a task that chooses handles has, place by place,
\* one of the model its selector names, made with a key; at the end it has one
\* for every place, and a fallback that is as long.
Resolvable(t) == \A i \in DOMAIN Selector[t] : Resolves(Selector[t][i])
Choosing == Agents \cup Overriding

Routed(t, route, keyOf) ==
  /\ route \in Seq(Handles) /\ Len(route) <= Len(Selector[t])
  /\ \A i \in 1 .. Len(route) : route[i][1] = Wanted(t, i) /\ keyOf[route[i]] \in Keys

Cached(cache, keyOf) ==
  /\ cache \in [Models -> Handles \cup {None}]
  /\ keyOf \in [Handles -> Keys \cup {None}]
  /\ \A m \in Models : cache[m] # None => cache[m][1] = m /\ keyOf[cache[m]] \in Keys

Native(t, models) ==
  models \in Seq(Keys) /\ (Len(Selector[t]) > 1 => Len(models) = Len(Selector[t]))

Whole(t) == Len(built[t]) = Len(Selector[t]) /\ Native(t, native[t])

StageInv == stage = [t \in Tasks |-> stage[t]]

RouteInv ==
  /\ RoutingTypeOK
  /\ Cached(handles, initial)
  /\ \A t \in Tasks : Routed(t, built[t], initial)
  /\ \A t \in Tasks : stage[t] = "constructing" => Resolvable(t) /\ Len(built[t]) < Len(Selector[t])
  /\ \A t \in Choosing : stage[t] \in {"resolved", "ready"} \cup Active => Whole(t)
  /\ \A r \in Runs \ Overriding : /\ stage[r] \notin {"constructing", "resolved"}
                                  /\ stage[r] \in Active => stage[AgentOf[r]] = "ready"

\* A step of t that chooses handles.
Chosen(t) ==
  /\ stage[t] \notin {"ready"} \cup Active
  /\ Cached(handles', initial')
  /\ \A h \in Handles : initial[h] \in Keys => initial'[h] \in Keys
  /\ UNCHANGED <<key, since, current, runtime>>
  /\ \E route, models :
       /\ built' = [built EXCEPT ![t] = route] /\ Routed(t, route, initial')
       /\ \/ /\ Become(t, "resolved") /\ Len(route) = Len(Selector[t])
             /\ native' = [native EXCEPT ![t] = models] /\ Native(t, models)
             /\ asked' = [asked EXCEPT ![t] = 0]
          \/ /\ Become(t, "constructing") /\ Len(route) < Len(Selector[t])
             /\ Resolvable(t) /\ UNCHANGED native
             /\ asked' = [asked EXCEPT ![t] = key]

\* A step of t that goes on without choosing.
Moved(t) ==
  /\ UNCHANGED routingVars
  /\ \E to : /\ Become(t, to)
             /\ \/ to \in {"failed", "locking", "gathering"} /\ stage[t] # "ready"
                \/ stage[t] = "resolved" /\ to = IF t \in Agents THEN "ready" ELSE "selecting"
                \/ /\ t \in Runs \ Overriding /\ stage[t] = "new"
                   /\ stage[AgentOf[t]] = "ready" /\ to = "selecting"

LEMMA WantedIsModel ==
  ASSUME RoutingAssumption, NEW t \in Tasks, Resolvable(t), NEW i \in 1 .. Len(Selector[t])
  PROVE  Wanted(t, i) \in Models
<1>1. Resolves(Selector[t][i])
  BY DEF Resolvable, RoutingAssumption
<1>2. \E m \in Models : Selector[t][i] \in NamesOf(m)
  BY <1>1 DEF Resolves
<1> QED
  BY <1>2 DEF Wanted, ModelOf

LEMMA WalkChooses ==
  ASSUME RoutingAssumption, NEW t \in Tasks, NEW have, NEW cache, NEW keyOf,
         Resolvable(t), Cached(cache, keyOf), Routed(t, have, keyOf), Walk(t, have, cache, keyOf)
  PROVE  \E route, models :
           /\ built' = [built EXCEPT ![t] = route] /\ Routed(t, route, keyOf)
           /\ \/ /\ Become(t, "resolved") /\ Len(route) = Len(Selector[t])
                 /\ native' = [native EXCEPT ![t] = models] /\ Native(t, models)
                 /\ asked' = [asked EXCEPT ![t] = 0]
              \/ /\ Become(t, "constructing") /\ Len(route) < Len(Selector[t])
                 /\ Resolvable(t) /\ UNCHANGED native
                 /\ asked' = [asked EXCEPT ![t] = key]
<1> DEFINE all(stop) == [i \in 1 .. stop |-> IF i <= Len(have) THEN have[i] ELSE cache[Wanted(t, i)]]
           models(stop) == IF stop = 1 THEN <<>> ELSE [i \in 1 .. stop |-> keyOf[all(stop)[i]]]
<1>1. PICK stop \in Len(have) .. Len(Selector[t]) :
        /\ \A i \in Len(have) + 1 .. stop : cache[Wanted(t, i)] # None
        /\ built' = [built EXCEPT ![t] = all(stop)]
        /\ \/ /\ stop = Len(Selector[t])
              /\ Become(t, "resolved")
              /\ native' = [native EXCEPT ![t] = models(stop)]
              /\ asked' = [asked EXCEPT ![t] = 0]
           \/ /\ stop < Len(Selector[t]) /\ cache[Wanted(t, stop + 1)] = None
              /\ Become(t, "constructing")
              /\ asked' = [asked EXCEPT ![t] = key]
              /\ UNCHANGED native
  BY Zenon DEF Walk
<1>2. Len(have) \in Nat /\ Len(Selector[t]) \in Nat \ {0} /\ stop \in Nat
  BY DEF Routed, RoutingAssumption
<1>3. ASSUME NEW i \in 1 .. stop
      PROVE  /\ all(stop)[i] \in Handles /\ all(stop)[i][1] = Wanted(t, i)
             /\ keyOf[all(stop)[i]] \in Keys
  <2>1. CASE i <= Len(have)
    <3>1. i \in 1 .. Len(have) /\ all(stop)[i] = have[i]
      BY <1>2, <2>1
    <3> QED
      BY <3>1 DEF Routed
  <2>2. CASE i > Len(have)
    <3>1. i \in 1 .. Len(Selector[t]) /\ cache[Wanted(t, i)] # None
      BY <1>1, <1>2, <2>2
    <3>2. Wanted(t, i) \in Models
      BY <3>1, WantedIsModel
    <3>3. all(stop)[i] = cache[Wanted(t, i)]
      BY <1>2, <2>2
    <3> QED
      BY <3>1, <3>2, <3>3 DEF Cached
  <2> QED
    BY <1>2, <2>1, <2>2
<1>4. Routed(t, all(stop), keyOf) /\ Len(all(stop)) = stop
  <2>1. all(stop) \in Seq(Handles) /\ Len(all(stop)) = stop
    BY <1>2, <1>3
  <2> QED
    BY <1>2, <1>3, <2>1 DEF Routed
<1>5. ASSUME stop = Len(Selector[t]) PROVE Native(t, models(stop))
  <2>1. CASE stop = 1
    BY <1>5, <2>1 DEF Native
  <2>2. CASE stop # 1
    <3>1. models(stop) \in Seq(Keys) /\ Len(models(stop)) = stop
      BY <1>2, <1>3, <2>2
    <3> QED
      BY <1>5, <3>1 DEF Native
  <2> QED
    BY <2>1, <2>2
<1> HIDE DEF all, models
<1>6. CASE stop = Len(Selector[t]) /\ Become(t, "resolved")
  BY <1>1, <1>2, <1>4, <1>5, <1>6
<1>7. CASE stop < Len(Selector[t]) /\ Become(t, "constructing")
  <2>1. built' = [built EXCEPT ![t] = all(stop)] /\ asked' = [asked EXCEPT ![t] = key] /\ UNCHANGED native
    BY <1>1, <1>2, <1>7
  <2>2. Len(all(stop)) < Len(Selector[t])
    BY <1>4, <1>7
  <2> QED
    BY <1>4, <1>7, <2>1, <2>2, Zenon
<1> QED
  BY <1>1, <1>6, <1>7

LEMMA ResolveRoutes ==
  ASSUME RoutingAssumption, NEW t \in Tasks, RouteInv, Resolve(t),
         stage[t] \notin {"ready"} \cup Active
  PROVE  Chosen(t) \/ Moved(t)
<1>1. CASE Resolvable(t)
  <2>1. Walk(t, <<>>, handles, initial) /\ UNCHANGED <<key, handles, initial, since, current, runtime>>
    BY <1>1 DEF Resolve, Resolvable
  <2>2. Routed(t, <<>>, initial) /\ Cached(handles, initial)
    BY DEF RouteInv, Routed, RoutingAssumption
  <2>3. Cached(handles', initial') /\ (\A h \in Handles : initial[h] \in Keys => initial'[h] \in Keys)
    BY <2>1, <2>2
  <2>4. \E route, models :
           /\ built' = [built EXCEPT ![t] = route] /\ Routed(t, route, initial')
           /\ \/ /\ Become(t, "resolved") /\ Len(route) = Len(Selector[t])
                 /\ native' = [native EXCEPT ![t] = models] /\ Native(t, models)
                 /\ asked' = [asked EXCEPT ![t] = 0]
              \/ /\ Become(t, "constructing") /\ Len(route) < Len(Selector[t])
                 /\ Resolvable(t) /\ UNCHANGED native
                 /\ asked' = [asked EXCEPT ![t] = key]
    <3>1. initial' = initial
      BY <2>1
    <3> QED
      BY <1>1, <2>1, <2>2, <3>1, WalkChooses
  <2> QED
    BY <2>1, <2>3, <2>4 DEF Chosen
<1>2. CASE ~Resolvable(t)
  BY <1>2 DEF Resolve, Resolvable, Moved
<1> QED
  BY <1>1, <1>2

LEMMA ConstructedRoutes ==
  ASSUME RoutingAssumption, NEW t \in Tasks, RouteInv, Constructed(t)
  PROVE  Chosen(t)
<1> DEFINE m == Wanted(t, Len(built[t]) + 1)
           h == <<m, t>>
<1>1. PICK k \in Answered(t) :
        /\ handles' = [handles EXCEPT ![m] = h]
        /\ initial' = [initial EXCEPT ![h] = k]
        /\ Walk(t, Append(built[t], h), handles', initial')
  BY DEF Constructed
<1>2. Resolvable(t) /\ Len(built[t]) < Len(Selector[t]) /\ Routed(t, built[t], initial) /\ Cached(handles, initial)
  BY DEF Constructed, RouteInv
<1>3. Len(built[t]) \in Nat /\ built[t] \in Seq(Handles) /\ Len(Selector[t]) \in Nat
  BY <1>2 DEF Routed, RoutingAssumption
<1>4. m \in Models /\ h \in Handles /\ h[1] = m /\ h # None
  <2>1. Len(built[t]) + 1 \in 1 .. Len(Selector[t])
    BY <1>2, <1>3
  <2>2. m \in Models
    BY <1>2, <2>1, WantedIsModel
  <2> QED
    BY <2>2 DEF Handles, RoutingAssumption, Tasks
<1>5. k \in Keys
  BY DEF Answered, RouteInv, RoutingTypeOK, Keys, RoutingAssumption
<1>6. \A g \in Handles : initial[g] \in Keys => initial'[g] \in Keys
  BY <1>1, <1>2, <1>5 DEF Cached
<1>7. Cached(handles', initial')
  <2>1. handles' \in [Models -> Handles \cup {None}] /\ initial' \in [Handles -> Keys \cup {None}]
    BY <1>1, <1>2, <1>4, <1>5 DEF Cached
  <2>2. ASSUME NEW n \in Models, handles'[n] # None
        PROVE  handles'[n][1] = n /\ initial'[handles'[n]] \in Keys
    <3>1. CASE n = m
      BY <1>1, <1>2, <1>4, <1>5, <3>1 DEF Cached
    <3>2. CASE n # m
      <4>1. handles'[n] = handles[n]
        BY <1>1, <1>2, <3>2 DEF Cached
      <4> QED
        BY <1>2, <1>6, <2>2, <4>1 DEF Cached
    <3> QED
      BY <3>1, <3>2
  <2> QED
    BY <2>1, <2>2 DEF Cached
<1>8. Routed(t, Append(built[t], h), initial')
  <2> DEFINE route == Append(built[t], h)
  <2>1. route \in Seq(Handles) /\ Len(route) = Len(built[t]) + 1
    BY <1>3, <1>4
  <2>2. ASSUME NEW i \in 1 .. Len(route)
        PROVE  route[i][1] = Wanted(t, i) /\ initial'[route[i]] \in Keys
    <3>1. CASE i = Len(built[t]) + 1
      <4>1. route[i] = h
        BY <1>3, <1>4, <3>1
      <4>2. initial'[h] = k
        BY <1>1, <1>2, <1>4 DEF Cached
      <4> QED
        BY <1>4, <1>5, <3>1, <4>1, <4>2
    <3>2. CASE i \in 1 .. Len(built[t])
      <4>1. route[i] = built[t][i] /\ built[t][i] \in Handles
        BY <1>3, <1>4, <3>2
      <4> QED
        BY <1>2, <1>6, <3>2, <4>1 DEF Routed
    <3> QED
      BY <1>3, <2>1, <3>1, <3>2
  <2> HIDE DEF route
  <2>3. Len(route) <= Len(Selector[t])
    BY <1>2, <1>3, <2>1
  <2>4. Routed(t, route, initial')
    BY <2>1, <2>2, <2>3 DEF Routed
  <2> QED
    BY <2>4 DEF route
<1>9. stage[t] \notin {"ready"} \cup Active /\ UNCHANGED <<key, since, current, runtime>>
  BY DEF Constructed, Active
<1> HIDE DEF m, h
<1> QED
  BY <1>1, <1>2, <1>6, <1>7, <1>8, <1>9, WalkChooses DEF Chosen

-----------------------------------------------------------------------------
\* Every step that does not select models for a request.
LEMMA BuildSteps ==
  ASSUME RoutingAssumption, BuildAssumption, RunAssumption, RouteInv, BuildNext
  PROVE  \/ \E t \in Tasks : Moved(t) \/ (t \in Choosing /\ Chosen(t))
         \/ UNCHANGED <<stage, routingVars>>
         \/ Rotate /\ UNCHANGED stage
<1>1. ASSUME NEW t \in Tasks, stage[t] \in {"constructing", "resolved"} PROVE t \in Choosing
  BY <1>1 DEF RouteInv, Tasks, Choosing
<1>2. ASSUME NEW a \in Agents, Bind(a), stage[a] \in {"locking", "gathering"}
      PROVE  Moved(a) \/ Chosen(a)
  <2>1. CASE Resolve(a)
    BY <1>2, <2>1, ResolveRoutes DEF Tasks, Active
  <2>2. CASE Become(a, "failed") /\ UNCHANGED routingVars
    BY <1>2, <2>2 DEF Moved
  <2> QED
    BY <1>2, <2>1, <2>2 DEF Bind
<1>3. ASSUME NEW a \in Agents, Prepare(a) PROVE Moved(a)
  BY <1>3 DEF Prepare, Moved
<1>4. ASSUME NEW a \in Agents, Enter(a) PROVE Moved(a) \/ Chosen(a)
  BY <1>2, <1>4 DEF Enter, Moved
<1>5. ASSUME NEW a \in Agents, Gathered(a) PROVE Moved(a) \/ Chosen(a)
  BY <1>2, <1>5 DEF Gathered
<1>6. ASSUME NEW a \in Agents, GatherFails(a) PROVE Moved(a)
  BY <1>6 DEF GatherFails, Moved
<1>7. ASSUME NEW t \in Tasks, Constructed(t) PROVE t \in Choosing /\ Chosen(t)
  BY <1>1, <1>7, ConstructedRoutes DEF Constructed
<1>8. ASSUME NEW t \in Tasks, ConstructionFails(t) PROVE Moved(t)
  BY <1>8 DEF ConstructionFails, Moved
<1>9. ASSUME NEW t \in Tasks, Compile(t) PROVE Moved(t)
  BY <1>9 DEF Compile, Moved
<1>10. ASSUME NEW t \in Tasks, Abandon(t) PROVE Moved(t)
  BY <1>10 DEF Abandon, Moved
<1>11. ASSUME NEW a \in Agents, Extend(a) PROVE UNCHANGED <<stage, routingVars>>
  BY <1>11 DEF Extend
<1>12. Agents \subseteq Tasks /\ Agents \subseteq Choosing
  BY DEF Tasks, Choosing
<1> QED
  BY <1>3, <1>4, <1>5, <1>6, <1>7, <1>8, <1>9, <1>10, <1>11, <1>12 DEF BuildNext, BuildStep

LEMMA StartStep ==
  ASSUME RoutingAssumption, RunAssumption, RouteInv, NEW r \in Runs, Start(r)
  PROVE  Moved(r) \/ (r \in Choosing /\ Chosen(r))
<1>1. CASE r \in Overriding
  <2>1. stage[r] \notin {"ready"} \cup Active /\ Resolve(r) /\ r \in Tasks /\ r \in Choosing
    BY <1>1 DEF Start, Active, Tasks, Choosing
  <2> QED
    BY <2>1, ResolveRoutes
<1>2. CASE r \notin Overriding
  BY <1>2 DEF Start, Moved
<1> QED
  BY <1>1, <1>2

\* A step of the specification is one of these.
LEMMA Steps ==
  ASSUME RoutingAssumption, BuildAssumption, RunAssumption, RouteInv, ThenInv, [Next]_vars
  PROVE  \/ \E t \in Tasks : Moved(t) \/ (t \in Choosing /\ Chosen(t))
         \/ \E r \in Runs : Quiet(r) \/ SelectModels(r)
         \/ UNCHANGED <<stage, routingVars>>
         \/ Rotate /\ UNCHANGED stage
<1>1. CASE BuildNext
  BY <1>1, BuildSteps
<1>2. ASSUME NEW r \in Runs, Start(r) \/ RunStep(r) \/ Interrupt(r) \/ Read(r) \/ Leave(r)
      PROVE  \/ Moved(r) \/ (r \in Choosing /\ Chosen(r)) \/ Quiet(r) \/ SelectModels(r)
             \/ UNCHANGED <<stage, routingVars>>
  BY <1>2, StartStep, RunSteps DEF buildVars
<1>3. CASE UNCHANGED vars
  BY <1>3 DEF vars, buildVars
<1> QED
  BY <1>1, <1>2, <1>3 DEF Next, Tasks

-----------------------------------------------------------------------------
\* A request is made with fresh keys: what a run has collected for the next
\* request, and what it is asking for, are not older than its selection.
SelectInv ==
  /\ \A t \in Tasks : since[t] <= key
  /\ \A r \in Runs : stage[r] = "asking" =>
       /\ asked[r] >= since[r]
       /\ \A i \in 1 .. Len(current[r]) : current[r][i] >= since[r]
       /\ Len(current[r]) < Len(Selector[Owner(r)])
  /\ KeysAreFresh

RoutingInv == StageInv /\ RouteInv /\ SelectInv

LEMMA OwnerIsWhole ==
  ASSUME BuildAssumption, RunAssumption, RouteInv, NEW r \in Runs, stage[r] \in Active
  PROVE  Owner(r) \in Tasks /\ Owner(r) \in Choosing /\ Whole(Owner(r))
<1>1. CASE r \in Overriding
  BY <1>1 DEF Owner, Choosing, Tasks, RouteInv
<1>2. CASE r \notin Overriding
  <2>1. AgentOf[r] \in Agents /\ stage[AgentOf[r]] = "ready"
    BY <1>2 DEF BuildAssumption, RouteInv
  <2> QED
    BY <1>2, <2>1 DEF Owner, Choosing, Tasks, RouteInv
<1> QED
  BY <1>1, <1>2

LEMMA ForgetTypes ==
  ASSUME RoutingAssumption, RoutingTypeOK, NEW r \in Runs, Forget(r)
  PROVE  RoutingTypeOK'
<1>1. 0 \in Keys /\ <<>> \in Seq(Keys) /\ r \in Tasks
  BY DEF Keys, RoutingAssumption, Tasks
<1> QED
  BY <1>1 DEF Forget, RoutingTypeOK

LEMMA QuietKeeps ==
  ASSUME RoutingAssumption, BuildAssumption, RunAssumption, RoutingInv, NEW r \in Runs, Quiet(r)
  PROVE  RoutingInv'
<1>1. PICK to \in (Active \cup {"over"}) \ {"asking"} :
        stage' = [stage EXCEPT ![r] = to] /\ (to \in Requesting => stage[r] \in Requesting /\ UNCHANGED routingVars)
  BY DEF Quiet
<1>2. UNCHANGED <<key, handles, initial, built, native>> /\ stage[r] \in Active
  BY DEF Quiet, Forget, routingVars
<1>3. r \in Tasks /\ \A t \in Tasks : stage'[t] = IF t = r THEN to ELSE stage[t]
  BY <1>1 DEF RoutingInv, StageInv, Tasks
<1>4. StageInv'
  BY <1>1 DEF RoutingInv, StageInv
<1>5. RouteInv'
  <2>1. RoutingTypeOK'
    BY ForgetTypes DEF Quiet, RoutingInv, RouteInv, RoutingTypeOK, routingVars
  <2>2. ASSUME NEW t \in Tasks, stage'[t] = "constructing"
        PROVE  Resolvable(t) /\ Len(built'[t]) < Len(Selector[t])
    BY <1>1, <1>2, <1>3, <2>2 DEF RoutingInv, RouteInv, Active
  <2>3. ASSUME NEW t \in Choosing, stage'[t] \in {"resolved", "ready"} \cup Active
        PROVE  Whole(t)'
    BY <1>2, <1>3, <2>3 DEF RoutingInv, RouteInv, Whole, Choosing, Tasks, RunAssumption
  <2>4. ASSUME NEW q \in Runs \ Overriding
        PROVE  /\ stage'[q] \notin {"constructing", "resolved"}
               /\ stage'[q] \in Active => stage'[AgentOf[q]] = "ready"
    <3>1. AgentOf[q] \in Agents /\ AgentOf[q] # r /\ AgentOf[q] \in Tasks /\ q \in Tasks
      BY DEF BuildAssumption, RoutingAssumption, Tasks
    <3>2. stage'[AgentOf[q]] = stage[AgentOf[q]]
      BY <1>3, <3>1
    <3>3. CASE q = r
      BY <1>1, <1>2, <1>3, <3>2, <3>3 DEF RoutingInv, RouteInv, Active
    <3>4. CASE q # r
      BY <1>3, <3>1, <3>2, <3>4 DEF RoutingInv, RouteInv
    <3> QED
      BY <3>3, <3>4
  <2>5. Cached(handles', initial') /\ \A t \in Tasks : Routed(t, built'[t], initial')
    BY <1>2 DEF RoutingInv, RouteInv
  <2> QED
    BY <2>1, <2>2, <2>3, <2>4, <2>5 DEF RouteInv
<1>6. SelectInv'
  <2>1. ASSUME NEW t \in Tasks PROVE since'[t] <= key'
    <3>1. key' = key /\ key >= 0 /\ since[t] <= key
      BY <1>2 DEF RoutingInv, RouteInv, RoutingTypeOK, SelectInv, Keys, RoutingAssumption
    <3>2. since' = since \/ since' = [since EXCEPT ![r] = 0]
      BY DEF Quiet, Forget, routingVars
    <3>3. since'[t] = since[t] \/ since'[t] = 0
      BY <3>2 DEF RoutingInv, RouteInv, RoutingTypeOK
    <3> QED
      BY <3>1, <3>3
  <2>2. ASSUME NEW q \in Tasks, q # r
        PROVE  UNCHANGED <<asked[q], since[q], current[q], runtime[q]>>
    BY <2>2 DEF Quiet, Forget, routingVars, RoutingInv, RouteInv, RoutingTypeOK
  <2>3. ASSUME NEW q \in Runs, stage'[q] = "asking"
        PROVE  /\ asked'[q] >= since'[q]
               /\ \A i \in 1 .. Len(current'[q]) : current'[q][i] >= since'[q]
               /\ Len(current'[q]) < Len(Selector[Owner(q)])
    <3>1. q # r /\ q \in Tasks /\ stage[q] = "asking"
      BY <1>1, <1>3, <2>3 DEF Tasks
    <3>2. UNCHANGED <<asked[q], since[q], current[q], runtime[q]>>
      BY <2>2, <3>1
    <3> QED
      BY <3>1, <3>2 DEF RoutingInv, SelectInv
  <2>4. ASSUME NEW q \in Runs, stage'[q] \in {"selected", "requesting", "answering"}
        PROVE  \A i \in DOMAIN runtime'[q] : runtime'[q][i] >= since'[q]
    <3>1. q \in Tasks /\ stage[q] \in {"selected", "requesting", "answering"}
      BY <1>1, <1>3, <2>4 DEF Tasks, Requesting
    <3>2. UNCHANGED <<since[q], runtime[q]>>
      <4>1. CASE q = r
        BY <1>1, <1>3, <2>4, <4>1 DEF Requesting, routingVars
      <4>2. CASE q # r
        BY <2>2, <3>1, <4>2
      <4> QED
        BY <4>1, <4>2
    <3> QED
      BY <3>1, <3>2 DEF RoutingInv, SelectInv, KeysAreFresh
  <2> QED
    BY <2>1, <2>3, <2>4 DEF SelectInv, KeysAreFresh
<1> QED
  BY <1>4, <1>5, <1>6 DEF RoutingInv

LEMMA SelectKeeps ==
  ASSUME RoutingAssumption, BuildAssumption, RunAssumption, RoutingInv, NEW r \in Runs, Select(r)
  PROVE  RoutingInv'
<1>1. /\ stage[r] = "selecting" /\ stage' = [stage EXCEPT ![r] = "asking"]
      /\ asked' = [asked EXCEPT ![r] = key] /\ since' = [since EXCEPT ![r] = key]
      /\ current' = [current EXCEPT ![r] = <<>>]
      /\ UNCHANGED <<key, handles, initial, built, native, runtime>>
  BY DEF Select, Become
<1>2. r \in Tasks /\ \A t \in Tasks : stage'[t] = IF t = r THEN "asking" ELSE stage[t]
  BY <1>1 DEF RoutingInv, StageInv, Tasks
<1>3. key \in Keys /\ \A q \in Tasks : asked[q] \in Keys /\ since[q] \in Keys
  BY DEF RoutingInv, RouteInv, RoutingTypeOK
<1>4. \A q \in Tasks :
        /\ asked'[q] = IF q = r THEN key ELSE asked[q]
        /\ since'[q] = IF q = r THEN key ELSE since[q]
        /\ current'[q] = IF q = r THEN <<>> ELSE current[q]
  BY <1>1 DEF RoutingInv, RouteInv, RoutingTypeOK
<1>5. RoutingTypeOK'
  BY <1>1, <1>2, <1>3 DEF RoutingInv, RouteInv, RoutingTypeOK
<1>6. RouteInv'
  <2>1. ASSUME NEW t \in Choosing, stage'[t] \in {"resolved", "ready"} \cup Active
        PROVE  Whole(t)'
    BY <1>1, <1>2, <2>1 DEF RoutingInv, RouteInv, Whole, Choosing, Tasks, RunAssumption, Active
  <2>2. ASSUME NEW q \in Runs \ Overriding
        PROVE  /\ stage'[q] \notin {"constructing", "resolved"}
               /\ stage'[q] \in Active => stage'[AgentOf[q]] = "ready"
    <3>1. AgentOf[q] # r /\ AgentOf[q] \in Tasks /\ q \in Tasks
      BY DEF BuildAssumption, RoutingAssumption, Tasks
    <3> QED
      BY <1>1, <1>2, <3>1 DEF RoutingInv, RouteInv, Active
  <2> QED
    BY <1>1, <1>2, <1>5, <2>1, <2>2 DEF RoutingInv, RouteInv, Cached, Routed
<1>7. SelectInv'
  <2>1. \A t \in Tasks : since'[t] <= key'
    BY <1>1, <1>3, <1>4 DEF RoutingInv, SelectInv, Keys, RoutingAssumption
  <2>2. ASSUME NEW q \in Runs, stage'[q] = "asking"
        PROVE  /\ asked'[q] >= since'[q]
               /\ \A i \in 1 .. Len(current'[q]) : current'[q][i] >= since'[q]
               /\ Len(current'[q]) < Len(Selector[Owner(q)])
    <3>1. CASE q = r
      <4>1. Len(Selector[Owner(q)]) \in Nat \ {0}
        BY <1>1, <3>1, OwnerIsWhole DEF RoutingInv, RoutingAssumption, Active
      <4>2. asked'[q] = key /\ since'[q] = key /\ current'[q] = <<>>
        BY <1>2, <1>4, <3>1
      <4> QED
        BY <1>3, <4>1, <4>2 DEF Keys, RoutingAssumption
    <3>2. CASE q # r
      BY <1>2, <1>4, <2>2, <3>2 DEF RoutingInv, SelectInv, Tasks
    <3> QED
      BY <3>1, <3>2
  <2>3. ASSUME NEW q \in Runs, stage'[q] \in {"selected", "requesting", "answering"}
        PROVE  \A i \in DOMAIN runtime'[q] : runtime'[q][i] >= since'[q]
    BY <1>1, <1>2, <1>4, <2>3 DEF RoutingInv, SelectInv, KeysAreFresh, Tasks
  <2> QED
    BY <2>1, <2>2, <2>3 DEF SelectInv, KeysAreFresh
<1> QED
  BY <1>1, <1>6, <1>7 DEF RoutingInv, StageInv

LEMMA FallbackIsFresh ==
  ASSUME NEW models \in Seq(Keys), NEW old \in Seq(Keys), Len(old) = Len(models), NEW k \in Keys,
         RoutingAssumption, \A i \in 1 .. Len(models) : models[i] >= k
  PROVE  /\ Fallback(models, old) \in Seq(Keys) /\ Len(Fallback(models, old)) = Len(models)
         /\ \A i \in DOMAIN Fallback(models, old) : Fallback(models, old)[i] >= k
BY DEF Fallback

LEMMA SelectedKeeps ==
  ASSUME RoutingAssumption, BuildAssumption, RunAssumption, RoutingInv, NEW r \in Runs,
         Selected(r, Owner(r))
  PROVE  RoutingInv'
<1> DEFINE owner == Owner(r)
<1>1. PICK k \in Answered(r) :
       LET models == Append(current[r], k) IN
       IF Len(models) < Len(built[owner])
         THEN /\ current' = [current EXCEPT ![r] = models]
              /\ asked' = [asked EXCEPT ![r] = key]
              /\ UNCHANGED <<stage, native, runtime>>
         ELSE /\ IF Len(models) = 1
                   THEN UNCHANGED native /\ runtime' = [runtime EXCEPT ![r] = models]
                   ELSE /\ native' = [native EXCEPT ![owner] = Fallback(models, native[owner])]
                        /\ runtime' = [runtime EXCEPT ![r] = native'[owner]]
              /\ current' = [current EXCEPT ![r] = <<>>]
              /\ Become(r, "selected")
              /\ asked' = [asked EXCEPT ![r] = 0]
  BY DEF Selected
<1> DEFINE models == Append(current[r], k)
<1>2. stage[r] = "asking" /\ UNCHANGED <<key, handles, initial, built, since>>
  BY DEF Selected
<1>3. /\ owner \in Tasks /\ owner \in Choosing
      /\ Len(built[owner]) = Len(Selector[owner]) /\ Native(owner, native[owner])
  BY <1>2, OwnerIsWhole DEF RoutingInv, Whole, Active
<1>4. /\ key \in Keys /\ asked[r] \in Keys /\ since[r] \in Keys /\ current[r] \in Seq(Keys)
      /\ r \in Tasks /\ Keys \subseteq Int
  BY DEF RoutingInv, RouteInv, RoutingTypeOK, Tasks, Keys
<1>5. /\ asked[r] >= since[r] /\ since[r] <= key
      /\ \A i \in 1 .. Len(current[r]) : current[r][i] >= since[r]
      /\ Len(current[r]) < Len(Selector[owner])
  BY <1>2, <1>4 DEF RoutingInv, SelectInv
<1>6. k \in Keys /\ k >= since[r]
  BY <1>4, <1>5 DEF Answered, Keys, RoutingAssumption
<1>7. models \in Seq(Keys) /\ Len(models) = Len(current[r]) + 1 /\ Len(current[r]) \in Nat
  BY <1>4, <1>6
<1>8. \A i \in 1 .. Len(models) : models[i] >= since[r]
  BY <1>4, <1>5, <1>6, <1>7
<1>9. Len(Selector[owner]) \in Nat \ {0}
  BY <1>3 DEF RoutingAssumption
<1>10. \A q \in Tasks : since'[q] = since[q] /\ since[q] <= key'
  BY <1>2 DEF RoutingInv, SelectInv
<1>11. CASE Len(models) < Len(built[owner])
  <2>1. /\ current' = [current EXCEPT ![r] = models] /\ asked' = [asked EXCEPT ![r] = key]
        /\ UNCHANGED <<stage, native, runtime>>
    BY <1>1, <1>11
  <2> HIDE DEF models
  <2>2. RoutingTypeOK'
    BY <1>2, <1>4, <1>7, <2>1 DEF RoutingInv, RouteInv, RoutingTypeOK
  <2>3. RouteInv'
    BY <1>2, <2>1, <2>2 DEF RoutingInv, RouteInv, Cached, Routed, Whole
  <2>4. ASSUME NEW q \in Runs, stage'[q] = "asking"
        PROVE  /\ asked'[q] >= since'[q]
               /\ \A i \in 1 .. Len(current'[q]) : current'[q][i] >= since'[q]
               /\ Len(current'[q]) < Len(Selector[Owner(q)])
    <3>1. CASE q = r
      <4>1. asked'[q] = key /\ current'[q] = models /\ since'[q] = since[r]
        BY <1>2, <1>4, <2>1, <3>1 DEF RoutingInv, RouteInv, RoutingTypeOK
      <4> QED
        BY <1>3, <1>5, <1>8, <1>11, <3>1, <4>1
    <3>2. CASE q # r
      <4>1. UNCHANGED <<asked[q], current[q], since[q]>> /\ stage[q] = "asking"
        BY <1>2, <2>1, <2>4, <3>2 DEF RoutingInv, RouteInv, RoutingTypeOK, Tasks
      <4> QED
        BY <4>1 DEF RoutingInv, SelectInv
    <3> QED
      BY <3>1, <3>2
  <2>5. KeysAreFresh'
    BY <1>2, <2>1 DEF RoutingInv, SelectInv, KeysAreFresh
  <2> QED
    BY <1>2, <1>10, <2>1, <2>3, <2>4, <2>5 DEF RoutingInv, StageInv, SelectInv
<1>12. CASE ~(Len(models) < Len(built[owner]))
  <2>1. /\ IF Len(models) = 1
             THEN UNCHANGED native /\ runtime' = [runtime EXCEPT ![r] = models]
             ELSE /\ native' = [native EXCEPT ![owner] = Fallback(models, native[owner])]
                  /\ runtime' = [runtime EXCEPT ![r] = native'[owner]]
        /\ current' = [current EXCEPT ![r] = <<>>] /\ stage' = [stage EXCEPT ![r] = "selected"]
        /\ asked' = [asked EXCEPT ![r] = 0]
    BY <1>1, <1>12 DEF Become
  <2> HIDE DEF models
  <2>2. Len(models) = Len(Selector[owner])
    BY <1>3, <1>5, <1>7, <1>9, <1>12
  <2>3. \E n, m \in Seq(Keys) :
          /\ native' = [native EXCEPT ![owner] = n] /\ Native(owner, n)
          /\ runtime' = [runtime EXCEPT ![r] = m] /\ \A i \in DOMAIN m : m[i] >= since[r]
    <3>1. CASE Len(models) = 1
      <4>1. native' = [native EXCEPT ![owner] = native[owner]]
        BY <1>3, <2>1, <3>1 DEF RoutingInv, RouteInv, RoutingTypeOK
      <4>2. \A i \in DOMAIN models : models[i] >= since[r]
        <5>1. \A s \in Seq(Keys) : DOMAIN s = 1 .. Len(s)
          OBVIOUS
        <5>2. DOMAIN models = 1 .. Len(models)
          BY <1>7, <5>1, Zenon
        <5> QED
          BY <1>8, <5>2, Zenon
      <4> QED
        BY <1>3, <1>7, <2>1, <3>1, <4>1, <4>2 DEF Native
    <3>2. CASE Len(models) # 1
      <4> DEFINE n == Fallback(models, native[owner])
      <4>1. native[owner] \in Seq(Keys) /\ Len(native[owner]) = Len(models)
        <5>1. Len(Selector[owner]) > 1
          <6>1. Len(Selector[owner]) # 1
            BY <2>2, <3>2, Zenon
          <6>2. \A x \in Nat \ {0} : x # 1 => x > 1
            OBVIOUS
          <6> QED
            BY <1>9, <6>1, <6>2, Zenon
        <5> QED
          BY <1>3, <2>2, <5>1 DEF Native
      <4>2. n \in Seq(Keys) /\ Len(n) = Len(models) /\ \A i \in DOMAIN n : n[i] >= since[r]
        BY <1>4, <1>7, <1>8, <4>1, FallbackIsFresh
      <4>3. native' = [native EXCEPT ![owner] = n] /\ native'[owner] = n
        BY <1>3, <2>1, <3>2 DEF RoutingInv, RouteInv, RoutingTypeOK
      <4>4. runtime' = [runtime EXCEPT ![r] = n] /\ Native(owner, n)
        BY <2>1, <2>2, <3>2, <4>2, <4>3 DEF Native
      <4> HIDE DEF n
      <4> QED
        BY <4>2, <4>3, <4>4
    <3> QED
      BY <3>1, <3>2
  <2>4. PICK n, m \in Seq(Keys) :
          /\ native' = [native EXCEPT ![owner] = n] /\ Native(owner, n)
          /\ runtime' = [runtime EXCEPT ![r] = m] /\ \A i \in DOMAIN m : m[i] >= since[r]
    BY <2>3
  <2>5. \A q \in Tasks : stage'[q] = IF q = r THEN "selected" ELSE stage[q]
    BY <2>1 DEF RoutingInv, StageInv
  <2>6. RoutingTypeOK'
    <3>1. 0 \in Keys /\ <<>> \in Seq(Keys)
      BY DEF Keys, RoutingAssumption
    <3> QED
      BY <1>2, <1>4, <2>1, <2>4, <3>1 DEF RoutingInv, RouteInv, RoutingTypeOK
  <2>7. RouteInv'
    <3>1. ASSUME NEW t \in Choosing, stage'[t] \in {"resolved", "ready"} \cup Active
          PROVE  Whole(t)'
      <4>1. t \in Tasks /\ Whole(t)
        BY <1>2, <2>5, <3>1 DEF RoutingInv, RouteInv, Choosing, Tasks, RunAssumption, Active
      <4>2. native'[t] = IF t = owner THEN n ELSE native[t]
        BY <2>4, <4>1 DEF RoutingInv, RouteInv, RoutingTypeOK
      <4> HIDE DEF owner
      <4> QED
        BY <1>2, <2>4, <4>1, <4>2 DEF Whole
    <3>2. ASSUME NEW q \in Runs \ Overriding
          PROVE  /\ stage'[q] \notin {"constructing", "resolved"}
                 /\ stage'[q] \in Active => stage'[AgentOf[q]] = "ready"
      <4>1. AgentOf[q] # r /\ AgentOf[q] \in Tasks /\ q \in Tasks
        BY DEF BuildAssumption, RoutingAssumption, Tasks
      <4> QED
        BY <1>2, <2>5, <4>1 DEF RoutingInv, RouteInv, Active
    <3>3. \A t \in Tasks : stage'[t] = "constructing" => stage[t] = "constructing"
      BY <2>5
    <3> QED
      BY <1>2, <2>6, <3>1, <3>2, <3>3 DEF RoutingInv, RouteInv, Cached, Routed
  <2>8. ASSUME NEW q \in Runs, stage'[q] = "asking"
        PROVE  /\ asked'[q] >= since'[q]
               /\ \A i \in 1 .. Len(current'[q]) : current'[q][i] >= since'[q]
               /\ Len(current'[q]) < Len(Selector[Owner(q)])
    <3>1. q # r /\ q \in Tasks /\ stage[q] = "asking"
      BY <2>5, <2>8 DEF Tasks
    <3>2. UNCHANGED <<asked[q], current[q], since[q]>>
      BY <1>2, <2>1, <3>1 DEF RoutingInv, RouteInv, RoutingTypeOK
    <3> QED
      BY <3>1, <3>2 DEF RoutingInv, SelectInv
  <2>9. ASSUME NEW q \in Runs, stage'[q] \in {"selected", "requesting", "answering"}
        PROVE  \A i \in DOMAIN runtime'[q] : runtime'[q][i] >= since'[q]
    <3>1. CASE q = r
      <4>1. runtime'[q] = m /\ since'[q] = since[r]
        BY <1>2, <1>4, <2>4, <3>1 DEF RoutingInv, RouteInv, RoutingTypeOK
      <4> QED
        BY <2>4, <4>1
    <3>2. CASE q # r
      <4>1. q \in Tasks /\ stage[q] \in {"selected", "requesting", "answering"}
        BY <2>5, <2>9, <3>2 DEF Tasks
      <4>2. UNCHANGED <<runtime[q], since[q]>>
        BY <1>2, <2>4, <3>2, <4>1 DEF RoutingInv, RouteInv, RoutingTypeOK
      <4> QED
        BY <4>1, <4>2 DEF RoutingInv, SelectInv, KeysAreFresh
    <3> QED
      BY <3>1, <3>2
  <2>10. StageInv'
    BY <2>1 DEF RoutingInv, StageInv
  <2> QED
    BY <1>10, <2>7, <2>8, <2>9, <2>10 DEF RoutingInv, SelectInv, KeysAreFresh
<1> QED
  BY <1>11, <1>12

LEMMA ChosenKeeps ==
  ASSUME RoutingAssumption, BuildAssumption, RunAssumption, RoutingInv, NEW t \in Choosing, Chosen(t)
  PROVE  RoutingInv'
<1>1. PICK route, models :
        /\ built' = [built EXCEPT ![t] = route] /\ Routed(t, route, initial')
        /\ \/ /\ Become(t, "resolved") /\ Len(route) = Len(Selector[t])
              /\ native' = [native EXCEPT ![t] = models] /\ Native(t, models)
              /\ asked' = [asked EXCEPT ![t] = 0]
           \/ /\ Become(t, "constructing") /\ Len(route) < Len(Selector[t])
              /\ Resolvable(t) /\ UNCHANGED native
              /\ asked' = [asked EXCEPT ![t] = key]
  BY DEF Chosen
<1>2. /\ stage[t] \notin {"ready"} \cup Active /\ Cached(handles', initial')
      /\ \A h \in Handles : initial[h] \in Keys => initial'[h] \in Keys
      /\ UNCHANGED <<key, since, current, runtime>>
  BY DEF Chosen
<1>3. t \in Tasks /\ 0 \in Keys /\ key \in Keys
  BY DEF Choosing, Tasks, RunAssumption, RoutingInv, RouteInv, RoutingTypeOK, Keys, RoutingAssumption
<1>4. PICK to \in {"resolved", "constructing"} :
        /\ stage' = [stage EXCEPT ![t] = to]
        /\ to = "resolved" => Len(route) = Len(Selector[t])
        /\ to = "constructing" => Resolvable(t) /\ Len(route) < Len(Selector[t])
  BY <1>1 DEF Become
<1>5. PICK n \in Seq(Keys) :
        native' = [native EXCEPT ![t] = n] /\ (to = "resolved" => Native(t, n))
  <2>1. CASE native' = [native EXCEPT ![t] = models] /\ Native(t, models)
    BY <2>1 DEF Native
  <2>2. CASE UNCHANGED native /\ Become(t, "constructing")
    <3>1. native[t] \in Seq(Keys) /\ native' = [native EXCEPT ![t] = native[t]]
      BY <1>3, <2>2 DEF RoutingInv, RouteInv, RoutingTypeOK
    <3>2. to = "constructing"
      BY <1>3, <1>4, <2>2 DEF RoutingInv, StageInv, Become
    <3> QED
      BY <3>1, <3>2
  <2> QED
    BY <1>1, <2>1, <2>2
<1>6. PICK k \in Keys : asked' = [asked EXCEPT ![t] = k]
  BY <1>1, <1>3
<1>7. \A q \in Tasks : /\ stage'[q] = IF q = t THEN to ELSE stage[q]
                       /\ built'[q] = IF q = t THEN route ELSE built[q]
                       /\ native'[q] = IF q = t THEN n ELSE native[q]
                       /\ asked'[q] = IF q = t THEN k ELSE asked[q]
  BY <1>1, <1>4, <1>5, <1>6 DEF RoutingInv, StageInv, RouteInv, RoutingTypeOK
<1>8. RoutingTypeOK'
  BY <1>1, <1>2, <1>3, <1>5, <1>6 DEF RoutingInv, RouteInv, RoutingTypeOK, Routed, Cached
<1>9. RouteInv'
  <2>1. ASSUME NEW q \in Tasks PROVE Routed(q, built'[q], initial')
    <3>1. CASE q = t
      BY <1>1, <1>7, <3>1
    <3>2. CASE q # t
      <4>1. built'[q] = built[q] /\ Routed(q, built[q], initial)
        BY <1>7, <3>2 DEF RoutingInv, RouteInv
      <4>2. ASSUME NEW i \in 1 .. Len(built[q]) PROVE initial'[built[q][i]] \in Keys
        <5>1. built[q][i] \in Handles /\ initial[built[q][i]] \in Keys
          BY <4>1 DEF Routed
        <5> QED
          BY <1>2, <5>1
      <4> QED
        BY <4>1, <4>2 DEF Routed
    <3> QED
      BY <3>1, <3>2
  <2>2. ASSUME NEW q \in Tasks, stage'[q] = "constructing"
        PROVE  Resolvable(q) /\ Len(built'[q]) < Len(Selector[q])
    BY <1>3, <1>4, <1>7, <2>2 DEF RoutingInv, RouteInv
  <2>3. ASSUME NEW q \in Choosing, stage'[q] \in {"resolved", "ready"} \cup Active
        PROVE  Whole(q)'
    <3>1. q \in Tasks
      BY DEF Choosing, Tasks, RunAssumption
    <3>2. CASE q = t
      BY <1>3, <1>4, <1>5, <1>7, <2>3, <3>2 DEF Whole, Active
    <3>3. CASE q # t
      BY <1>7, <2>3, <3>1, <3>3 DEF RoutingInv, RouteInv, Whole
    <3> QED
      BY <3>2, <3>3
  <2>4. ASSUME NEW q \in Runs \ Overriding
        PROVE  /\ stage'[q] \notin {"constructing", "resolved"}
               /\ stage'[q] \in Active => stage'[AgentOf[q]] = "ready"
    <3>1. q # t /\ AgentOf[q] \in Tasks /\ q \in Tasks
      BY DEF BuildAssumption, RoutingAssumption, Tasks, Choosing
    <3> QED
      BY <1>2, <1>7, <3>1 DEF RoutingInv, RouteInv
  <2> QED
    BY <1>2, <1>8, <2>1, <2>2, <2>3, <2>4 DEF RouteInv
<1>10. SelectInv'
  <2>1. ASSUME NEW q \in Runs, stage'[q] \in {"asking", "selected", "requesting", "answering"}
        PROVE  q \in Tasks /\ stage[q] = stage'[q] /\ asked'[q] = asked[q]
    <3>1. q # t /\ q \in Tasks
      BY <1>3, <1>4, <1>7, <2>1 DEF Tasks
    <3> QED
      BY <1>7, <3>1
  <2> QED
    BY <1>2, <2>1 DEF RoutingInv, SelectInv, KeysAreFresh
<1> QED
  BY <1>4, <1>9, <1>10 DEF RoutingInv, StageInv

LEMMA MovedKeeps ==
  ASSUME RoutingAssumption, BuildAssumption, RunAssumption, RoutingInv, NEW t \in Tasks, Moved(t)
  PROVE  RoutingInv'
<1>1. PICK to : /\ stage' = [stage EXCEPT ![t] = to]
                /\ \/ to \in {"failed", "locking", "gathering"} /\ stage[t] # "ready"
                   \/ stage[t] = "resolved" /\ to = IF t \in Agents THEN "ready" ELSE "selecting"
                   \/ /\ t \in Runs \ Overriding /\ stage[t] = "new"
                      /\ stage[AgentOf[t]] = "ready" /\ to = "selecting"
  BY DEF Moved, Become
<1>2. UNCHANGED routingVars
  BY DEF Moved
<1>3. \A q \in Tasks : stage'[q] = IF q = t THEN to ELSE stage[q]
  BY <1>1 DEF RoutingInv, StageInv
<1>4. stage[t] # "ready" /\ to \notin {"asking", "selected", "requesting", "answering", "constructing", "resolved"}
  BY <1>1
<1>5. RouteInv'
  <2>1. ASSUME NEW q \in Choosing, stage'[q] \in {"resolved", "ready"} \cup Active
        PROVE  Whole(q)
    <3>1. q \in Tasks /\ to \notin {"resolved"}
      BY <1>4 DEF Choosing, Tasks, RunAssumption
    <3>2. CASE q = t
      BY <1>1, <1>3, <2>1, <3>1, <3>2 DEF RoutingInv, RouteInv, Choosing, Active
    <3>3. CASE q # t
      BY <1>3, <2>1, <3>1, <3>3 DEF RoutingInv, RouteInv
    <3> QED
      BY <3>2, <3>3
  <2>2. ASSUME NEW q \in Runs \ Overriding
        PROVE  /\ stage'[q] \notin {"constructing", "resolved"}
               /\ stage'[q] \in Active => stage'[AgentOf[q]] = "ready"
    <3>1. AgentOf[q] \in Agents /\ AgentOf[q] \in Tasks /\ q \in Tasks /\ q \notin Agents
      BY DEF BuildAssumption, RoutingAssumption, Tasks
    <3>2. CASE q = t
      <4>1. AgentOf[q] # t /\ (stage'[q] \in Active => to = "selecting")
        BY <1>1, <1>3, <3>1, <3>2 DEF Active
      <4> QED
        BY <1>1, <1>3, <1>4, <3>1, <3>2, <4>1 DEF RoutingInv, RouteInv
    <3>3. CASE q # t
      BY <1>3, <1>4, <3>1, <3>3 DEF RoutingInv, RouteInv
    <3> QED
      BY <3>2, <3>3
  <2>3. ASSUME NEW q \in Tasks, stage'[q] = "constructing" PROVE stage[q] = "constructing"
    BY <1>3, <1>4, <2>3
  <2> QED
    BY <1>2, <2>1, <2>2, <2>3
    DEF RoutingInv, RouteInv, RoutingTypeOK, Cached, Routed, Whole, routingVars
<1>6. SelectInv'
  <2>1. ASSUME NEW q \in Runs, stage'[q] \in {"asking", "selected", "requesting", "answering"}
        PROVE  stage[q] = stage'[q]
    BY <1>3, <1>4, <2>1 DEF Tasks
  <2> QED
    BY <1>2, <2>1 DEF RoutingInv, SelectInv, KeysAreFresh, routingVars
<1> QED
  BY <1>1, <1>5, <1>6 DEF RoutingInv, StageInv

LEMMA RoutingKeeps ==
  ASSUME RoutingAssumption, BuildAssumption, RunAssumption, RoutingInv, ThenInv, [Next]_vars
  PROVE  RoutingInv'
<1>1. CASE UNCHANGED <<stage, routingVars>>
  BY <1>1 DEF RoutingInv, StageInv, RouteInv, RoutingTypeOK, Cached, Routed, Whole, SelectInv,
              KeysAreFresh, routingVars
<1>2. CASE Rotate /\ UNCHANGED stage
  <2>1. key' = key + 1 /\ key' \in Keys /\ key \in Int
    BY <1>2 DEF Rotate, Keys, RoutingInv, RouteInv, RoutingTypeOK, RoutingAssumption
  <2>2. UNCHANGED <<stage, handles, initial, built, native, asked, since, current, runtime>>
    BY <1>2 DEF Rotate
  <2>3. ASSUME NEW t \in Tasks PROVE since'[t] <= key'
    BY <2>1, <2>2 DEF RoutingInv, RouteInv, RoutingTypeOK, SelectInv, Keys
  <2> QED
    BY <2>1, <2>2, <2>3 DEF RoutingInv, StageInv, RouteInv, RoutingTypeOK, Cached, Routed, Whole,
                            SelectInv, KeysAreFresh
<1>3. CASE \E t \in Tasks : Moved(t) \/ (t \in Choosing /\ Chosen(t))
  BY <1>3, MovedKeeps, ChosenKeeps
<1>4. CASE \E r \in Runs : Quiet(r) \/ SelectModels(r)
  BY <1>4, QuietKeeps, SelectKeeps, SelectedKeeps DEF SelectModels
<1> QED
  BY <1>1, <1>2, <1>3, <1>4, Steps DEF RoutingInv

LEMMA RoutingStarts ==
  ASSUME RoutingAssumption, BuildAssumption, RunAssumption, Init
  PROVE  RoutingInv
<1>1. 0 \in Keys /\ <<>> \in Seq(Handles) /\ <<>> \in Seq(Keys)
  BY DEF Keys, RoutingAssumption
<1>2. stage = [t \in Tasks |-> "new"] /\ RoutingInit
  BY DEF Init, BuildInit
<1>3. RoutingTypeOK
  BY <1>1, <1>2 DEF RoutingTypeOK, RoutingInit
<1>4. Cached(handles, initial) /\ \A t \in Tasks : Routed(t, built[t], initial)
  BY <1>1, <1>2 DEF RoutingInit, Cached, Routed, RoutingAssumption
<1>5. \A t \in Tasks : stage[t] = "new"
  BY <1>2
<1>6. RouteInv
  BY <1>3, <1>4, <1>5 DEF RouteInv, Choosing, Tasks, RunAssumption, Active
<1>7. SelectInv
  BY <1>1, <1>2, <1>5 DEF SelectInv, KeysAreFresh, RoutingInit, Tasks, Keys, RoutingAssumption
<1> QED
  BY <1>2, <1>6, <1>7 DEF RoutingInv, StageInv

-----------------------------------------------------------------------------
\* The lock of the factory, and what a bound definition is.

\* _configured_capabilities: while a preparation creates the capabilities of
\* the MCP servers it holds the lock alone, and they are created once, however
\* many agents are prepared at a time and however many fail.
OneCreation ==
  /\ creations <= 1
  /\ \A a, b \in Agents : stage[a] = "gathering" /\ stage[b] = "gathering" => a = b

LockInv ==
  /\ gathering \in Agents \cup {None}
  /\ \A a \in Agents : stage[a] = "gathering" <=> gathering = a
  /\ \/ capabilities = TRUE /\ creations = 1 /\ gathering = None
     \/ capabilities = FALSE /\ creations = 0

\* diagnostics: a capability of a built agent is said to come from the
\* configuration if and only if it does, though the source is looked up by the
\* ID and callers add capabilities of their own.
DiagnosticsAreTrue ==
  \A a \in Agents : stage[a] = "ready" =>
    \A i \in DOMAIN definition[a].capabilities :
      SourceOf(context[a], definition[a].capabilities[i])
        = IF i <= Len(Configured) THEN "configuration" ELSE "caller"

Definable == [capabilities : Seq(DOMAIN Requires), toolsets : Seq(DOMAIN Discoveries)]

Bound(d, c) ==
  /\ Len(Configured) <= Len(d.capabilities)
  /\ c = [i \in 1 .. Len(d.capabilities) |->
            [id |-> d.capabilities[i],
             source |-> IF i <= Len(Configured) THEN "configuration" ELSE "caller"]]

ContextInv ==
  /\ definition \in [Agents -> Definable \cup {None}] /\ context = [a \in Agents |-> context[a]]
  /\ \A a \in Agents : stage[a] # "new" => definition[a] \in Definable
  /\ \A a \in Agents : stage[a] \in {"constructing", "resolved", "ready"} => Bound(definition[a], context[a])
  /\ \A a \in Agents : stage[a] = "ready" => ValidIds(definition[a])

FactoryInv == LockInv /\ ContextInv

\* The steps of a run leave the factory and the agents alone.
LEMMA RunFrame ==
  ASSUME RoutingAssumption, RunAssumption, RoutingInv, ThenInv, NEW r \in Runs,
         Start(r) \/ RunStep(r) \/ Interrupt(r) \/ Read(r) \/ Leave(r)
  PROVE  UNCHANGED factoryVars /\ \A a \in Agents : stage'[a] = stage[a]
<1>1. \A a \in Agents : a \in Tasks /\ a # r
  BY DEF Tasks, RoutingAssumption
<1>2. CASE Start(r)
  <2>1. Moved(r) \/ Chosen(r)
    BY <1>2, StartStep DEF RoutingInv
  <2>2. \E to : stage' = [stage EXCEPT ![r] = to]
    BY <2>1 DEF Moved, Chosen, Become
  <2> QED
    BY <1>1, <1>2, <2>2 DEF Start, RoutingInv, StageInv
<1>3. CASE RunStep(r) \/ Interrupt(r) \/ Read(r) \/ Leave(r)
  <2>1. Quiet(r) \/ SelectModels(r) \/ UNCHANGED buildVars
    BY <1>3, RunSteps
  <2>2. CASE Quiet(r)
    BY <1>1, <2>2 DEF Quiet, RoutingInv, StageInv
  <2>3. CASE Select(r) /\ UNCHANGED factoryVars
    BY <1>1, <2>3 DEF Select, Become, RoutingInv, StageInv
  <2>4. CASE Selected(r, Owner(r)) /\ UNCHANGED factoryVars
    <3>1. stage' = stage \/ stage' = [stage EXCEPT ![r] = "selected"]
      BY <2>4 DEF Selected, Become
    <3> QED
      BY <1>1, <2>4, <3>1 DEF RoutingInv, StageInv
  <2>5. CASE UNCHANGED buildVars
    BY <2>5 DEF buildVars
  <2> QED
    BY <2>1, <2>2, <2>3, <2>4, <2>5 DEF SelectModels
<1> QED
  BY <1>2, <1>3

LEMMA FromIs ==
  ASSUME NEW S, NEW s \in Seq(S), NEW T, NEW x \in T
  PROVE  /\ From(x, s) \in Seq(T) /\ Len(From(x, s)) = Len(s)
         /\ \A i \in 1 .. Len(s) : From(x, s)[i] = x
<1>1. Len(s) \in Nat /\ DOMAIN s = 1 .. Len(s)
  OBVIOUS
<1>2. From(x, s) = [i \in 1 .. Len(s) |-> x]
  BY <1>1 DEF From
<1> QED
  BY <1>1, <1>2

LEMMA BoundBy ==
  ASSUME BuildAssumption, NEW d \in Definable, NEW own, own = d.capabilities
  PROVE  LET e == [d EXCEPT !.capabilities = Configured \o own] IN
         /\ e \in Definable
         /\ Bound(e, Described(e.capabilities, From("configuration", Configured) \o From("caller", own)))
<1> DEFINE Sources == {"configuration", "caller"}
           e == [d EXCEPT !.capabilities = Configured \o own]
           sources == From("configuration", Configured) \o From("caller", own)
<1>1. own \in Seq(DOMAIN Requires) /\ Configured \in Seq(DOMAIN Requires)
  BY DEF Definable, BuildAssumption
<1>2. Configured \o own \in Seq(DOMAIN Requires) /\ Len(Configured \o own) = Len(Configured) + Len(own)
  BY <1>1
<1>3. e \in Definable /\ e.capabilities = Configured \o own
  BY <1>2 DEF Definable
<1> HIDE DEF Sources
<1>10. "configuration" \in Sources /\ "caller" \in Sources
  BY DEF Sources
<1>4. /\ From("configuration", Configured) \in Seq(Sources) /\ Len(From("configuration", Configured)) = Len(Configured)
      /\ From("caller", own) \in Seq(Sources) /\ Len(From("caller", own)) = Len(own)
  BY <1>1, <1>10, FromIs
<1>5. \A i \in 1 .. Len(Configured) + Len(own) :
        sources[i] = IF i <= Len(Configured) THEN "configuration" ELSE "caller"
  BY <1>1, <1>4, <1>10, FromIs
<1>6. DOMAIN e.capabilities = 1 .. Len(Configured) + Len(own) /\ Len(Configured) \in Nat /\ Len(own) \in Nat
  BY <1>1, <1>2, <1>3
<1> HIDE DEF e, sources
<1>7. Described(e.capabilities, sources)
        = [i \in 1 .. Len(e.capabilities) |->
             [id |-> e.capabilities[i],
              source |-> IF i <= Len(Configured) THEN "configuration" ELSE "caller"]]
  BY <1>2, <1>3, <1>5, <1>6 DEF Described
<1>8. Len(Configured) <= Len(e.capabilities)
  BY <1>2, <1>3, <1>6
<1>9. e \in Definable /\ Bound(e, Described(e.capabilities, sources))
  BY <1>3, <1>7, <1>8 DEF Bound
<1> QED
  BY <1>9 DEF e, sources

LEMMA ExtendedBy ==
  ASSUME BuildAssumption, NEW d \in Definable, NEW c, Bound(d, c), NEW x \in DOMAIN Requires
  PROVE  LET e == [d EXCEPT !.capabilities = Append(@, x)]
             sources == [i \in DOMAIN c |-> c[i].source]
         IN e \in Definable /\ Bound(e, Described(e.capabilities, Append(sources, "caller")))
<1> DEFINE e == [d EXCEPT !.capabilities = Append(@, x)]
           sources == [i \in DOMAIN c |-> c[i].source]
           n == Len(d.capabilities)
<1>1. d.capabilities \in Seq(DOMAIN Requires) /\ n \in Nat /\ Len(Configured) \in Nat /\ Len(Configured) <= n
  BY DEF Definable, BuildAssumption, Bound
<1>2. e \in Definable /\ e.capabilities = Append(d.capabilities, x)
  <2>1. Append(d.capabilities, x) \in Seq(DOMAIN Requires)
    BY <1>1
  <2> QED
    BY <2>1 DEF Definable
<1>3. Len(e.capabilities) = n + 1 /\ DOMAIN e.capabilities = 1 .. n + 1
  BY <1>1, <1>2
<1>4. DOMAIN c = 1 .. n /\ \A i \in 1 .. n : c[i].source = IF i <= Len(Configured) THEN "configuration" ELSE "caller"
  BY <1>1 DEF Bound
<1>5. sources \in Seq({"configuration", "caller"}) /\ Len(sources) = n
  <2>1. \A i \in 1 .. n : c[i].source \in {"configuration", "caller"}
    BY <1>4
  <2> QED
    BY <1>1, <1>4, <2>1
<1>6. \A i \in 1 .. n + 1 :
        Append(sources, "caller")[i] = IF i <= Len(Configured) THEN "configuration" ELSE "caller"
  <2>1. \A i \in 1 .. n : sources[i] = IF i <= Len(Configured) THEN "configuration" ELSE "caller"
    BY <1>4
  <2> HIDE DEF sources, n
  <2>2. ASSUME NEW i \in 1 .. n + 1
        PROVE  Append(sources, "caller")[i] = IF i <= n THEN sources[i] ELSE "caller"
    BY <1>1, <1>5
  <2>3. ASSUME NEW i \in 1 .. n + 1
        PROVE  Append(sources, "caller")[i] = IF i <= Len(Configured) THEN "configuration" ELSE "caller"
    <3>1. CASE i \in 1 .. n
      <4>1. i <= n
        BY <3>1
      <4> QED
        BY <2>1, <2>2, <3>1, <4>1, Zenon
    <3>2. CASE i = n + 1
      <4>1. ~(i <= n) /\ ~(i <= Len(Configured))
        BY <1>1, <3>2
      <4> QED
        BY <2>2, <4>1
    <3>3. \A m \in Nat : \A j \in 1 .. m + 1 : j \in 1 .. m \/ j = m + 1
      OBVIOUS
    <3> QED
      BY <1>1, <3>1, <3>2, <3>3, Zenon
  <2> QED
    BY <2>3
<1> HIDE DEF e, sources
<1>7. Described(e.capabilities, Append(sources, "caller"))
        = [i \in 1 .. Len(e.capabilities) |->
             [id |-> e.capabilities[i],
              source |-> IF i <= Len(Configured) THEN "configuration" ELSE "caller"]]
  BY <1>3, <1>6 DEF Described
<1>8. e \in Definable /\ Bound(e, Described(e.capabilities, Append(sources, "caller")))
  <2>1. Len(Configured) <= Len(e.capabilities)
    BY <1>1, <1>3
  <2> QED
    BY <1>2, <1>7, <2>1 DEF Bound
<1> QED
  BY <1>8 DEF e, sources

LEMMA BindKeeps ==
  ASSUME RoutingAssumption, BuildAssumption, RoutingInv, ContextInv, NEW a \in Agents,
         stage[a] \in {"locking", "gathering"}, Bind(a)
  PROVE  /\ ContextInv'
         /\ \E to \in {"constructing", "resolved", "failed"} : stage' = [stage EXCEPT ![a] = to]
<1> DEFINE own == definition[a].capabilities
           d == [definition[a] EXCEPT !.capabilities = Configured \o own]
           c == Described(d.capabilities, From("configuration", Configured) \o From("caller", own))
<1>1. definition[a] \in Definable
  BY DEF ContextInv
<1>2. d \in Definable /\ Bound(d, c)
  BY <1>1, BoundBy
<1>3. definition' = [definition EXCEPT ![a] = d] /\ context' = [context EXCEPT ![a] = c]
  BY DEF Bind
<1>4. PICK to \in {"constructing", "resolved", "failed"} : stage' = [stage EXCEPT ![a] = to]
  <2>1. CASE Resolve(a)
    <3>1. (Moved(a) /\ Become(a, "failed")) \/ Walk(a, <<>>, handles, initial)
      BY <2>1 DEF Resolve, Moved, routingVars
    <3>2. CASE Walk(a, <<>>, handles, initial)
      <4>1. Become(a, "resolved") \/ Become(a, "constructing")
        BY <3>2 DEF Walk
      <4> QED
        BY <4>1 DEF Become
    <3> QED
      BY <3>1, <3>2 DEF Become
  <2>2. CASE Become(a, "failed")
    BY <2>2 DEF Become
  <2> QED
    BY <2>1, <2>2 DEF Bind
<1> HIDE DEF d, c
<1>5. \A b \in Agents : b \in Tasks /\ stage'[b] = IF b = a THEN to ELSE stage[b]
  BY <1>4 DEF RoutingInv, StageInv, Tasks
<1>6. \A b \in Agents : /\ definition'[b] = IF b = a THEN d ELSE definition[b]
                        /\ context'[b] = IF b = a THEN c ELSE context[b]
  BY <1>3 DEF ContextInv
<1>7. definition' \in [Agents -> Definable \cup {None}] /\ context' = [b \in Agents |-> context'[b]]
  BY <1>2, <1>3 DEF ContextInv
<1> QED
  BY <1>2, <1>4, <1>5, <1>6, <1>7 DEF ContextInv

\* A step of t that leaves its definition and the lock alone.
LEMMA StageKeepsFactory ==
  ASSUME RoutingAssumption, BuildAssumption, RoutingInv, FactoryInv, NEW t \in Tasks, NEW to,
         stage' = [stage EXCEPT ![t] = to], UNCHANGED factoryVars, stage[t] \notin {"new", "gathering"},
         to \in {"constructing", "resolved", "failed", "ready", "selecting"},
         to \in {"constructing", "resolved", "ready"} => stage[t] \in {"constructing", "resolved"},
         to = "ready" /\ t \in Agents => ValidIds(definition[t])
  PROVE  FactoryInv'
<1>1. \A a \in Agents : a \in Tasks /\ stage'[a] = IF a = t THEN to ELSE stage[a]
  BY DEF RoutingInv, StageInv, Tasks
<1>2. UNCHANGED <<capabilities, gathering, creations, definition, context>>
  BY DEF factoryVars, definitionVars
<1>3. LockInv'
  BY <1>1, <1>2 DEF FactoryInv, LockInv
<1>4. ContextInv'
  BY <1>1, <1>2 DEF FactoryInv, ContextInv
<1> QED
  BY <1>3, <1>4 DEF FactoryInv

LEMMA FactoryKeeps ==
  ASSUME RoutingAssumption, BuildAssumption, RunAssumption, RoutingInv, FactoryInv, ThenInv, [Next]_vars
  PROVE  FactoryInv'
<1>1. ASSUME NEW a \in Agents, NEW to, Become(a, to)
      PROVE  \A b \in Agents : stage'[b] = IF b = a THEN to ELSE stage[b]
  BY <1>1 DEF Become, RoutingInv, StageInv, Tasks
<1>2. ASSUME NEW a \in Agents, Prepare(a) PROVE FactoryInv'
  <2>1. PICK d \in Definitions : definition' = [definition EXCEPT ![a] = d]
    BY <1>2 DEF Prepare
  <2>2. d \in Definable
    BY DEF BuildAssumption, Definable
  <2>3. stage[a] = "new" /\ UNCHANGED <<capabilities, gathering, creations, context>>
    BY <1>2 DEF Prepare
  <2>4. \A b \in Agents : stage'[b] = IF b = a THEN "locking" ELSE stage[b]
    BY <1>1, <1>2 DEF Prepare
  <2>5. \A b \in Agents : definition'[b] = IF b = a THEN d ELSE definition[b]
    BY <2>1 DEF FactoryInv, ContextInv
  <2>6. definition' \in [Agents -> Definable \cup {None}] /\ context' = [b \in Agents |-> context'[b]]
    BY <2>1, <2>2, <2>3 DEF FactoryInv, ContextInv
  <2>7. ContextInv'
    BY <2>2, <2>3, <2>4, <2>5, <2>6 DEF FactoryInv, ContextInv
  <2>8. LockInv'
    BY <2>3, <2>4 DEF FactoryInv, LockInv
  <2> QED
    BY <2>7, <2>8 DEF FactoryInv
<1>3. ASSUME NEW a \in Agents, Enter(a) PROVE FactoryInv'
  <2>1. CASE capabilities /\ Bind(a) /\ UNCHANGED gathering
    <3>1. ContextInv' /\ \E to \in {"constructing", "resolved", "failed"} : stage' = [stage EXCEPT ![a] = to]
      BY <1>3, <2>1, BindKeeps DEF FactoryInv, Enter
    <3>2. \A b \in Agents : stage'[b] = "gathering" <=> stage[b] = "gathering"
      BY <1>3, <3>1 DEF Enter, RoutingInv, StageInv, Tasks
    <3>3. LockInv'
      BY <1>3, <2>1, <3>2 DEF Enter, FactoryInv, LockInv
    <3> QED
      BY <3>1, <3>3 DEF FactoryInv
  <2>2. CASE ~capabilities /\ Become(a, "gathering") /\ gathering' = a /\ UNCHANGED <<routingVars, definitionVars>>
    <3>1. \A b \in Agents : stage'[b] = IF b = a THEN "gathering" ELSE stage[b]
      BY <1>1, <2>2
    <3>2. stage[a] = "locking" /\ gathering = None /\ UNCHANGED <<capabilities, creations, definition, context>>
      BY <1>3, <2>2 DEF Enter, definitionVars
    <3>3. \A b \in Agents : b # None
      BY DEF BuildAssumption, Tasks
    <3>4. LockInv'
      BY <2>2, <3>1, <3>2, <3>3 DEF FactoryInv, LockInv
    <3>5. ContextInv'
      BY <3>1, <3>2 DEF FactoryInv, ContextInv
    <3> QED
      BY <3>4, <3>5 DEF FactoryInv
  <2> QED
    BY <1>3, <2>1, <2>2 DEF Enter
<1>4. ASSUME NEW a \in Agents, Gathered(a) PROVE FactoryInv'
  <2>1. stage[a] = "gathering" /\ capabilities' = TRUE /\ gathering' = None /\ creations' = creations + 1 /\ Bind(a)
    BY <1>4 DEF Gathered
  <2>2. ContextInv' /\ \E to \in {"constructing", "resolved", "failed"} : stage' = [stage EXCEPT ![a] = to]
    BY <2>1, BindKeeps DEF FactoryInv
  <2>3. gathering = a /\ gathering # None /\ creations = 0 /\ \A b \in Agents : b # a => stage[b] # "gathering"
    BY <2>1 DEF FactoryInv, LockInv, BuildAssumption, Tasks
  <2>4. \A b \in Agents : stage'[b] # "gathering"
    BY <2>2, <2>3 DEF RoutingInv, StageInv, Tasks
  <2>5. \A b \in Agents : b # None
    BY DEF BuildAssumption, Tasks
  <2>6. LockInv'
    BY <2>1, <2>3, <2>4, <2>5 DEF LockInv
  <2> QED
    BY <2>2, <2>6 DEF FactoryInv
<1>5. ASSUME NEW a \in Agents, GatherFails(a) PROVE FactoryInv'
  <2>1. stage[a] = "gathering" /\ gathering' = None /\ UNCHANGED <<capabilities, creations, definition, context>>
    BY <1>5 DEF GatherFails, definitionVars
  <2>2. \A b \in Agents : stage'[b] = IF b = a THEN "failed" ELSE stage[b]
    BY <1>1, <1>5 DEF GatherFails
  <2>3. \A b \in Agents : b # None
    BY DEF BuildAssumption, Tasks
  <2>4. LockInv'
    BY <2>1, <2>2, <2>3 DEF FactoryInv, LockInv
  <2>5. ContextInv'
    BY <2>1, <2>2 DEF FactoryInv, ContextInv
  <2> QED
    BY <2>4, <2>5 DEF FactoryInv
<1>6. ASSUME NEW a \in Agents, Extend(a) PROVE FactoryInv'
  <2>1. stage[a] = "resolved" /\ UNCHANGED <<stage, capabilities, gathering, creations>>
    BY <1>6 DEF Extend
  <2>2. PICK x \in Extras :
          LET d == [definition[a] EXCEPT !.capabilities = Append(@, x)]
              sources == [i \in DOMAIN context[a] |-> context[a][i].source]
          IN /\ definition' = [definition EXCEPT ![a] = d]
             /\ context' = [context EXCEPT ![a] = Described(d.capabilities, Append(sources, "caller"))]
    BY <1>6 DEF Extend
  <2> DEFINE d == [definition[a] EXCEPT !.capabilities = Append(@, x)]
             c == Described(d.capabilities, Append([i \in DOMAIN context[a] |-> context[a][i].source], "caller"))
  <2>3. definition[a] \in Definable /\ Bound(definition[a], context[a]) /\ x \in DOMAIN Requires
    BY <2>1 DEF FactoryInv, ContextInv, BuildAssumption
  <2>4. d \in Definable /\ Bound(d, c)
    BY <2>3, ExtendedBy
  <2>5. definition' = [definition EXCEPT ![a] = d] /\ context' = [context EXCEPT ![a] = c]
    BY <2>2
  <2> HIDE DEF d, c
  <2>6. \A b \in Agents : /\ definition'[b] = IF b = a THEN d ELSE definition[b]
                          /\ context'[b] = IF b = a THEN c ELSE context[b]
    BY <2>5 DEF FactoryInv, ContextInv
  <2>7. definition' \in [Agents -> Definable \cup {None}] /\ context' = [b \in Agents |-> context'[b]]
    BY <2>4, <2>5 DEF FactoryInv, ContextInv
  <2>8. ContextInv'
    BY <2>1, <2>4, <2>6, <2>7 DEF FactoryInv, ContextInv
  <2>9. LockInv'
    BY <2>1 DEF FactoryInv, LockInv
  <2> QED
    BY <2>8, <2>9 DEF FactoryInv
<1>7. ASSUME NEW t \in Tasks, Constructed(t) /\ UNCHANGED factoryVars PROVE FactoryInv'
  <2>1. stage[t] = "constructing" /\ \E to \in {"resolved", "constructing"} : stage' = [stage EXCEPT ![t] = to]
    BY <1>7 DEF Constructed, Walk, Become
  <2> QED
    BY <1>7, <2>1, StageKeepsFactory
<1>8. ASSUME NEW t \in Tasks, ConstructionFails(t) /\ UNCHANGED factoryVars PROVE FactoryInv'
  BY <1>8, StageKeepsFactory DEF ConstructionFails, Become
<1>9. ASSUME NEW t \in Tasks, Compile(t) PROVE FactoryInv'
  <2>1. stage[t] = "resolved" /\ UNCHANGED factoryVars
    BY <1>9 DEF Compile
  <2>2. CASE stage' = [stage EXCEPT ![t] = "failed"]
    BY <2>1, <2>2, StageKeepsFactory
  <2>3. CASE t \in Agents /\ ValidIds(definition[t]) /\ stage' = [stage EXCEPT ![t] = "ready"]
    BY <2>1, <2>3, StageKeepsFactory
  <2>4. CASE t \notin Agents /\ stage' = [stage EXCEPT ![t] = "selecting"]
    BY <2>1, <2>4, StageKeepsFactory
  <2> QED
    BY <1>9, <2>2, <2>3, <2>4 DEF Compile, Become, DefinitionOf
<1>10. ASSUME NEW t \in Tasks, Abandon(t) PROVE FactoryInv'
  BY <1>10, StageKeepsFactory DEF Abandon, Become
<1>11. ASSUME UNCHANGED factoryVars, \A a \in Agents : stage'[a] = stage[a] PROVE FactoryInv'
  BY <1>11 DEF FactoryInv, LockInv, ContextInv, factoryVars, definitionVars
<1>12. CASE BuildNext
  BY <1>2, <1>3, <1>4, <1>5, <1>6, <1>7, <1>8, <1>9, <1>10, <1>11, <1>12 DEF BuildNext, BuildStep
<1>13. CASE \E r \in Runs : Start(r) \/ RunStep(r) \/ Interrupt(r) \/ Read(r) \/ Leave(r)
  BY <1>11, <1>13, RunFrame
<1>14. CASE UNCHANGED vars
  BY <1>11, <1>14 DEF vars, buildVars
<1> QED
  BY <1>12, <1>13, <1>14 DEF Next

-----------------------------------------------------------------------------
\* The tool calls of a run, from its stage, the hooks the last call has entered,
\* its outcome, and what follows the callbacks of its trackers.
InCall == {"before", "executing", "after", "notifying"}
Ending == {"unwinding", "settling", "over"}

Reported(s, h, o, n) ==
  /\ s = "noting" => n \in {"calling", "unwinding", "selecting"}
  /\ s \notin Ending => o = "none"
  /\ h.after > 0 => h.before = Hooks
  /\ s = "before" => h.after = 0
  /\ s = "executing" => h.before = Hooks /\ h.after = 0
  /\ s = "after" => h.before = Hooks
  /\ s \notin InCall /\ h.before > 0 => h.after = Hooks \/ h.notifying > 0
  /\ h.notifying > 0 => o # "result" /\ s \in {"notifying"} \cup Ending

HookCounts == [{"before", "after", "notifying"} -> 0 .. Hooks]

HookInv ==
  /\ hooked \in [Runs -> HookCounts]
  /\ outcome = [r \in Runs |-> outcome[r]] /\ then = [r \in Runs |-> then[r]]
  /\ \A r \in Runs : Reported(stage[r], hooked[r], outcome[r], then[r])

LEMMA NoHooksCount ==
  ASSUME RunAssumption
  PROVE  /\ NoHooks \in HookCounts /\ DOMAIN NoHooks = {"before", "after", "notifying"}
         /\ NoHooks.before = 0 /\ NoHooks.after = 0 /\ NoHooks.notifying = 0
<1>1. DOMAIN NoHooks = {"before", "after", "notifying"}
  BY DEF NoHooks
<1>2. NoHooks.before = 0 /\ NoHooks.after = 0 /\ NoHooks.notifying = 0
  BY DEF NoHooks
<1>3. NoHooks = [x \in {"before", "after", "notifying"} |-> 0]
  BY DEF NoHooks
<1> QED
  BY <1>1, <1>2, <1>3 DEF HookCounts, RunAssumption

LEMMA Touches ==
  ASSUME StageInv, HookInv, NEW r \in Runs, NEW s, NEW h \in HookCounts, NEW o, NEW n,
         Reported(s, h, o, n), stage' = [stage EXCEPT ![r] = s],
         (hooked' = hooked /\ h = hooked[r]) \/ hooked' = [hooked EXCEPT ![r] = h],
         (outcome' = outcome /\ o = outcome[r]) \/ outcome' = [outcome EXCEPT ![r] = o],
         (then' = then /\ n = then[r]) \/ then' = [then EXCEPT ![r] = n]
  PROVE  HookInv'
<1>1. /\ hooked' \in [Runs -> HookCounts]
      /\ outcome' = [q \in Runs |-> outcome'[q]] /\ then' = [q \in Runs |-> then'[q]]
  BY DEF HookInv
<1>2. ASSUME NEW q \in Runs PROVE Reported(stage'[q], hooked'[q], outcome'[q], then'[q])
  <2>1. q \in Tasks
    BY DEF Tasks
  <2>2. CASE q = r
    BY <2>1, <2>2 DEF StageInv, HookInv
  <2>3. CASE q # r
    <3>1. stage'[q] = stage[q] /\ hooked'[q] = hooked[q] /\ outcome'[q] = outcome[q] /\ then'[q] = then[q]
      BY <2>1, <2>3 DEF StageInv, HookInv
    <3> QED
      BY <3>1 DEF HookInv
  <2> QED
    BY <2>2, <2>3
<1> QED
  BY <1>1, <1>2 DEF HookInv

\* A run that only changes its stage, or that ends.
LEMMA StageTouches ==
  ASSUME StageInv, HookInv, NEW r \in Runs, NEW s, stage' = [stage EXCEPT ![r] = s],
         UNCHANGED <<hooked, outcome, then>>, Reported(s, hooked[r], outcome[r], then[r])
  PROVE  HookInv'
BY Touches DEF HookInv

LEMMA EndTouches ==
  ASSUME StageInv, HookInv, NEW r \in Runs, NEW o, NEW n, End(r, o), UNCHANGED hooked,
         (then' = then /\ n = then[r]) \/ then' = [then EXCEPT ![r] = n],
         Reported("unwinding", hooked[r], o, n)
  PROVE  HookInv'
BY Touches DEF HookInv, End, Become

LEMMA FailTouches ==
  ASSUME StageInv, HookInv, NEW r \in Runs, Fail(r), UNCHANGED <<hooked, then>>,
         stage[r] \notin InCall \/ hooked[r].after = Hooks \/ hooked[r].notifying > 0 \/ hooked[r].before = 0
  PROVE  HookInv'
<1>1. Reported(stage[r], hooked[r], outcome[r], then[r]) /\ hooked[r] \in HookCounts
  BY DEF HookInv
<1>2. Reported("unwinding", hooked[r], "error", then[r])
  BY <1>1 DEF Reported, Ending, InCall, HookCounts
<1> QED
  BY <1>2, EndTouches DEF Fail

LEMMA CutKeeps ==
  ASSUME StageInv, RunAssumption, HookInv, NEW r \in Runs, Cut(r)
  PROVE  HookInv'
<1>1. /\ stage' = [stage EXCEPT ![r] = "unwinding"] /\ outcome' = [outcome EXCEPT ![r] = "cancelled"]
      /\ hooked' = [hooked EXCEPT ![r] = NoHooks] /\ then' = [then EXCEPT ![r] = None]
  BY DEF Cut, End, Become
<1>2. Reported("unwinding", NoHooks, "cancelled", None)
  BY NoHooksCount DEF Reported, Ending, InCall, RunAssumption
<1> QED
  BY <1>1, <1>2, NoHooksCount, Touches

LEMMA ConcludeKeeps ==
  ASSUME StageInv, HookInv, NEW r \in Runs, NEW how \in Ends(r) \cup {"error"}, stage[r] \in Ending,
         Conclude(r, how), UNCHANGED <<hooked, then>>
  PROVE  HookInv'
<1>1. stage' = [stage EXCEPT ![r] = "over"] /\ outcome' = [outcome EXCEPT ![r] = how]
  BY DEF Conclude, Become
<1>2. Reported(stage[r], hooked[r], outcome[r], then[r]) /\ hooked[r] \in HookCounts
  BY DEF HookInv
<1>3. how \in {outcome[r], "error"}
  BY DEF Ends
<1>4. Reported("over", hooked[r], how, then[r])
  BY <1>2, <1>3 DEF Reported, Ending, InCall
<1> QED
  BY <1>1, <1>2, <1>4, Touches

LEMMA RunStepReports ==
  ASSUME StageInv, RunAssumption, HookInv, NEW r \in Runs, RunStep(r)
  PROVE  HookInv'
<1> DEFINE OK(s) == Reported(s, hooked[r], outcome[r], then[r])
<1>1. OK(stage[r]) /\ hooked[r] \in HookCounts
  BY DEF HookInv
<1> USE RunAssumption DEF Reported, Ending, InCall
<1>2. CASE SelectModels(r)
  <2>1. UNCHANGED <<hooked, outcome, then>>
    BY <1>2 DEF SelectModels, runVars
  <2>2. CASE Select(r)
    BY <1>1, <2>1, <2>2, StageTouches DEF Select, Become
  <2>3. CASE Selected(r, Owner(r))
    <3>1. CASE UNCHANGED stage
      BY <2>1, <3>1 DEF HookInv
    <3>2. CASE Become(r, "selected")
      BY <1>1, <2>1, <2>3, <3>2, StageTouches DEF Selected, Become
    <3> QED
      BY <2>3, <3>1, <3>2 DEF Selected
  <2> QED
    BY <1>2, <2>2, <2>3 DEF SelectModels
<1>3. CASE SelectFails(r)
  BY <1>3, FailTouches DEF SelectFails
<1>4. CASE OfferFails(r)
  BY <1>4, FailTouches DEF OfferFails
<1>5. CASE BeforeRequest(r)
  <2>1. CASE Fail(r)
    BY <1>5, <2>1, FailTouches DEF BeforeRequest
  <2>2. CASE Continue(r, "requesting")
    BY <1>1, <1>5, <2>2, StageTouches DEF BeforeRequest, Continue, Become
  <2> QED
    BY <1>5, <2>1, <2>2 DEF BeforeRequest
<1>6. CASE Part(r)
  BY <1>1, <1>6, StageTouches DEF Part, Become
<1>7. CASE Respond(r)
  <2>1. stage[r] \in {"answering", "requesting"} /\ UNCHANGED hooked
    BY <1>7 DEF Respond
  <2>2. CASE Fail(r) /\ UNCHANGED then
    BY <2>1, <2>2, FailTouches
  <2>3. CASE Become(r, "noting") /\ UNCHANGED outcome
             /\ \E next \in {"calling", "unwinding", "selecting"} : then' = [then EXCEPT ![r] = next]
    <3>1. PICK next \in {"calling", "unwinding", "selecting"} : then' = [then EXCEPT ![r] = next]
      BY <2>3
    <3>2. Reported("noting", hooked[r], outcome[r], next)
      BY <1>1, <2>1
    <3> QED
      BY <1>1, <2>1, <2>3, <3>1, <3>2, Touches DEF Become
  <2> QED
    BY <1>7, <2>2, <2>3 DEF Respond
<1>8. CASE RequestFails(r)
  BY <1>8, FailTouches DEF RequestFails
<1>9. CASE Noted(r)
  <2>1. stage[r] = "noting" /\ UNCHANGED hooked /\ then' = [then EXCEPT ![r] = None]
    BY <1>9 DEF Noted
  <2>2. CASE End(r, "result") \/ Fail(r)
    <3>1. PICK o \in {"result", "error"} : End(r, o)
      BY <2>2 DEF Fail
    <3>2. Reported("unwinding", hooked[r], o, None)
      BY <1>1, <2>1
    <3> QED
      BY <2>1, <3>1, <3>2, EndTouches
  <2>3. CASE then[r] # "unwinding" /\ Continue(r, then[r])
    <3>1. then[r] \in {"calling", "selecting"} /\ stage' = [stage EXCEPT ![r] = then[r]] /\ UNCHANGED outcome
      BY <1>1, <2>1, <2>3 DEF Continue, Become
    <3>2. Reported(then[r], hooked[r], outcome[r], None)
      BY <1>1, <2>1, <3>1
    <3> QED
      BY <1>1, <2>1, <3>1, <3>2, Touches
  <2> QED
    BY <1>9, <2>2, <2>3 DEF Noted
<1>10. CASE Call(r)
  <2>1. stage[r] = "calling" /\ hooked' = [hooked EXCEPT ![r] = NoHooks] /\ UNCHANGED then
    BY <1>10 DEF Call
  <2>2. PICK s \in {"before", "unwinding"}, o \in {outcome[r], "error"} :
          /\ stage' = [stage EXCEPT ![r] = s] /\ (s = "before" => o = outcome[r])
          /\ (outcome' = outcome /\ o = outcome[r]) \/ outcome' = [outcome EXCEPT ![r] = o]
    BY <1>10 DEF Call, Continue, Fail, End, Become
  <2>3. Reported(s, NoHooks, o, then[r])
    BY <1>1, <2>1, <2>2, NoHooksCount
  <2> QED
    BY <2>1, <2>2, <2>3, NoHooksCount, Touches
<1>11. CASE Hook(r)
  <2>1. stage[r] \in {"before", "after", "notifying"} /\ hooked[r][stage[r]] < Hooks
    BY <1>11, NoHooksCount DEF Hook
  <2> DEFINE h == [hooked[r] EXCEPT ![stage[r]] = @ + 1]
  <2>2. h \in HookCounts
    BY <1>1, <2>1 DEF HookCounts
  <2>3. hooked' = [hooked EXCEPT ![r] = h] /\ UNCHANGED <<stage, outcome, then>>
    BY <1>11, <2>1 DEF Hook, HookInv
  <2>4. hooked[r].after \in Nat /\ hooked[r].before \in Nat /\ hooked[r].notifying \in Nat
    BY <1>1 DEF HookCounts
  <2>5. Reported(stage[r], h, outcome[r], then[r])
    <3>1. CASE stage[r] = "before"
      BY <1>1, <2>1, <2>4, <3>1 DEF HookCounts
    <3>2. CASE stage[r] = "after"
      BY <1>1, <2>1, <2>4, <3>2 DEF HookCounts
    <3>3. CASE stage[r] = "notifying"
      BY <1>1, <2>1, <2>4, <3>3 DEF HookCounts
    <3> QED
      BY <2>1, <3>1, <3>2, <3>3
  <2>6. stage' = [stage EXCEPT ![r] = stage[r]]
    BY <2>3 DEF StageInv, Tasks
  <2> HIDE DEF h
  <2> QED
    BY <2>2, <2>3, <2>5, <2>6, Touches
<1>12. CASE Proceed(r)
  <2>1. UNCHANGED <<hooked, outcome, then>>
    BY <1>12 DEF Proceed, runVars
  <2>2. CASE stage[r] = "before" /\ hooked[r].before = Hooks /\ Become(r, "executing")
    BY <1>1, <2>1, <2>2, StageTouches DEF Become, HookCounts
  <2>3. CASE stage[r] = "executing" /\ Become(r, "after")
    BY <1>1, <2>1, <2>3, StageTouches DEF Become
  <2> QED
    BY <1>12, <2>2, <2>3 DEF Proceed
<1>13. CASE Returned(r)
  BY <1>1, <1>13, StageTouches DEF Returned, Become
<1>14. CASE Raises(r)
  <2>1. stage[r] \in {"before", "executing", "after"} /\ UNCHANGED <<hooked, outcome, then>>
        /\ stage' = [stage EXCEPT ![r] = "notifying"]
    BY <1>14 DEF Raises, runVars, Become
  <2> QED
    BY <1>1, <2>1, StageTouches
<1>15. CASE Notified(r)
  <2>1. hooked[r].before = 0 \/ hooked[r].notifying > 0
    BY <1>1, <1>15 DEF Notified, HookCounts
  <2> QED
    BY <1>15, <2>1, FailTouches DEF Notified
<1>16. CASE Unwind(r)
  <2>1. stage[r] = "unwinding" /\ UNCHANGED <<hooked, then>>
    BY <1>16 DEF Unwind
  <2>2. CASE \E how \in Ends(r) \cup {"error"} : Conclude(r, how)
    BY <2>1, <2>2, ConcludeKeeps
  <2>3. CASE Become(r, "settling") /\ UNCHANGED outcome
    BY <1>1, <2>1, <2>3, StageTouches DEF Become
  <2> QED
    BY <1>16, <2>2, <2>3 DEF Unwind
<1>17. CASE Settled(r)
  BY <1>17, ConcludeKeeps DEF Settled
<1> QED
  BY <1>2, <1>3, <1>4, <1>5, <1>6, <1>7, <1>8, <1>9, <1>10, <1>11, <1>12, <1>13, <1>14, <1>15,
     <1>16, <1>17 DEF RunStep

LEMMA BuildReports ==
  ASSUME StageInv, RoutingAssumption, HookInv, NEW t \in Tasks, NEW to, Become(t, to),
         t \notin Agents => /\ stage[t] \notin InCall \cup Ending \cup {"noting"}
                            /\ to \notin InCall \cup Ending \cup {"noting"},
         UNCHANGED <<hooked, outcome, then>>
  PROVE  HookInv'
<1>1. CASE t \in Agents
  <2>1. \A r \in Runs : stage'[r] = stage[r]
    BY <1>1 DEF Become, StageInv, Tasks, RoutingAssumption
  <2> QED
    BY <2>1 DEF HookInv
<1>2. CASE t \notin Agents
  <2>1. t \in Runs /\ Reported(stage[t], hooked[t], outcome[t], then[t])
    BY <1>2 DEF HookInv, Tasks
  <2>2. Reported(to, hooked[t], outcome[t], then[t])
    BY <1>2, <2>1 DEF Reported, Ending, InCall
  <2> QED
    BY <2>1, <2>2, StageTouches DEF Become
<1> QED
  BY <1>1, <1>2

LEMMA BuildKeepsHooks ==
  ASSUME StageInv, RoutingAssumption, HookInv, BuildNext, UNCHANGED runVars
  PROVE  HookInv'
<1>1. UNCHANGED <<hooked, outcome, then>>
  BY DEF runVars
<1>2. ASSUME NEW t \in Tasks, NEW have, NEW cache, NEW keyOf, Walk(t, have, cache, keyOf)
      PROVE  \E to \in {"resolved", "constructing"} : Become(t, to)
  BY <1>2 DEF Walk
<1>3. ASSUME NEW a \in Agents, NEW to, Become(a, to) PROVE HookInv'
  BY <1>1, <1>3, BuildReports DEF Tasks
<1>4. ASSUME NEW t \in Tasks, stage[t] \in {"constructing", "resolved", "locking"},
             NEW to \in {"constructing", "resolved", "failed", "ready", "selecting"}, Become(t, to)
      PROVE  HookInv'
  BY <1>1, <1>4, BuildReports DEF InCall, Ending
<1>5. ASSUME NEW a \in Agents, Bind(a) PROVE \E to : Become(a, to)
  BY <1>2, <1>5 DEF Bind, Resolve, Tasks
<1>6. CASE \E a \in Agents : Prepare(a) \/ Enter(a) \/ Gathered(a) \/ GatherFails(a)
  BY <1>3, <1>5, <1>6 DEF Prepare, Enter, Gathered, GatherFails
<1>7. CASE \E a \in Agents : Extend(a)
  BY <1>1, <1>7 DEF Extend, HookInv
<1>8. CASE \E t \in Tasks : Constructed(t)
  BY <1>2, <1>4, <1>8 DEF Constructed
<1>9. CASE \E t \in Tasks : ConstructionFails(t)
  BY <1>4, <1>9 DEF ConstructionFails
<1>10. CASE \E t \in Tasks : Compile(t)
  <2>1. PICK t \in Tasks : Compile(t)
    BY <1>10
  <2>2. stage[t] = "resolved" /\ \E to \in {"ready", "selecting", "failed"} : Become(t, to)
    BY <2>1 DEF Compile
  <2> QED
    BY <1>4, <2>2
<1>11. CASE \E t \in Tasks : Abandon(t)
  BY <1>4, <1>11 DEF Abandon
<1>12. CASE UNCHANGED stage
  BY <1>1, <1>12 DEF HookInv
<1> QED
  BY <1>6, <1>7, <1>8, <1>9, <1>10, <1>11, <1>12 DEF BuildNext, BuildStep

LEMMA HookKeeps ==
  ASSUME RoutingAssumption, RunAssumption, RoutingInv, HookInv, [Next]_vars
  PROVE  HookInv'
<1>1. StageInv
  BY DEF RoutingInv
<1>2. ASSUME UNCHANGED <<stage, hooked, outcome, then>> PROVE HookInv'
  BY <1>2 DEF HookInv
<1>3. CASE BuildNext /\ UNCHANGED runVars
  BY <1>1, <1>3, BuildKeepsHooks
<1>4. ASSUME NEW r \in Runs, Start(r) PROVE HookInv'
  <2>1. stage[r] = "new" /\ r \in Tasks /\ UNCHANGED <<hooked, outcome, then>>
    BY <1>4 DEF Start, Tasks, runVars
  <2>2. \E to \in {"resolved", "constructing", "failed", "selecting"} : Become(r, to)
    BY <1>4 DEF Start, Resolve, Walk
  <2> QED
    BY <1>1, <2>1, <2>2, BuildReports DEF InCall, Ending
<1>5. ASSUME NEW r \in Runs, RunStep(r) PROVE HookInv'
  BY <1>1, <1>5, RunStepReports
<1>6. ASSUME NEW r \in Runs, Interrupt(r) \/ Read(r) \/ Leave(r) PROVE HookInv'
  <2>1. Cut(r) \/ UNCHANGED <<stage, hooked, outcome, then>>
    BY <1>6 DEF Interrupt, Read, Deliver, Translate, TranslateFails, Leave, buildVars
  <2> QED
    BY <1>1, <1>2, <2>1, CutKeeps
<1>7. CASE UNCHANGED vars
  BY <1>2, <1>7 DEF vars, buildVars, runVars
<1> QED
  BY <1>3, <1>4, <1>5, <1>6, <1>7 DEF Next

-----------------------------------------------------------------------------
AppInv == RoutingInv /\ FactoryInv /\ HookInv

LEMMA AppStarts ==
  ASSUME RoutingAssumption, BuildAssumption, RunAssumption, Init
  PROVE  AppInv
<1>1. stage = [t \in Tasks |-> "new"] /\ \A a \in Agents : a \in Tasks /\ a # None
  BY DEF Init, BuildInit, BuildAssumption, Tasks
<1>2. /\ capabilities = FALSE /\ gathering = None /\ creations = 0
      /\ definition = [a \in Agents |-> None] /\ context = [a \in Agents |-> <<>>]
  BY DEF Init, BuildInit
<1>3. FactoryInv
  BY <1>1, <1>2 DEF FactoryInv, LockInv, ContextInv
<1>4. /\ hooked = [r \in Runs |-> NoHooks] /\ outcome = [r \in Runs |-> "none"]
      /\ then = [r \in Runs |-> None]
  BY DEF Init
<1>5. ASSUME NEW r \in Runs PROVE Reported("new", NoHooks, "none", None)
  BY NoHooksCount DEF Reported, Ending, InCall, RunAssumption
<1>6. HookInv
  BY <1>1, <1>4, <1>5, NoHooksCount DEF HookInv, Tasks
<1> QED
  BY <1>3, <1>6, RoutingStarts DEF AppInv

LEMMA AppKeeps ==
  ASSUME RoutingAssumption, BuildAssumption, RunAssumption, AppInv, [Next]_vars
  PROVE  AppInv'
<1>1. ThenInv
  BY DEF AppInv, HookInv, Reported, ThenInv
<1> QED
  BY <1>1, RoutingKeeps, FactoryKeeps, HookKeeps DEF AppInv

LEMMA AppHolds == Spec => []AppInv
<1>1. Init => AppInv
  BY AppStarts, RoutingAssumption, BuildAssumption, RunAssumption
<1>2. AppInv /\ [Next]_vars => AppInv'
  BY AppKeeps, RoutingAssumption, BuildAssumption, RunAssumption
<1> QED
  BY <1>1, <1>2, PTL DEF Spec

\* However many runs share handles and fallbacks while keys are rotated, none
\* makes a request with a key older than its selection (DefaultModelFactory.build,
\* compile_fallback_model).
THEOREM RequestsUseFreshKeys == Spec => []KeysAreFresh
<1>1. AppInv => KeysAreFresh
  BY DEF AppInv, RoutingInv, SelectInv
<1> QED
  BY <1>1, AppHolds, PTL

\* The router's cache leads from a model to a handle of it, and the handles of
\* a task are, in order, of the models its selector names (ModelRouter.resolve).
THEOREM HandlesFollowSelectors == Spec => []RoutesAreKept
<1>1. AppInv => RoutesAreKept
  <2> SUFFICES ASSUME AppInv PROVE RoutesAreKept
    OBVIOUS
  <2>1. ASSUME NEW m \in Models, handles[m] # None
        PROVE  handles[m][1] = m /\ initial[handles[m]] \in Keys
    BY <2>1 DEF AppInv, RoutingInv, RouteInv, Cached
  <2>2. ASSUME NEW t \in Tasks, NEW i \in DOMAIN built[t]
        PROVE  built[t][i][1] = Wanted(t, i)
    <3>1. Routed(t, built[t], initial)
      BY DEF AppInv, RoutingInv, RouteInv
    <3> QED
      BY <3>1 DEF Routed
  <2> QED
    BY <2>1, <2>2 DEF RoutesAreKept
<1> QED
  BY <1>1, AppHolds, PTL

\* However many agents are prepared at a time, the capabilities of the MCP
\* servers are created once and by one of them (_configured_capabilities).
THEOREM CapabilitiesAreCreatedOnce == Spec => []OneCreation
<1>1. AppInv => OneCreation
  BY DEF AppInv, FactoryInv, LockInv, OneCreation
<1> QED
  BY <1>1, AppHolds, PTL

\* The diagnostics of a built agent name the source of each capability
\* (build_agent_context, diagnostics).
THEOREM SourcesAreTrue == Spec => []DiagnosticsAreTrue
<1>1. AppInv => DiagnosticsAreTrue
  <2> SUFFICES ASSUME AppInv, NEW a \in Agents, stage[a] = "ready",
                      NEW i \in DOMAIN definition[a].capabilities
               PROVE  SourceOf(context[a], definition[a].capabilities[i])
                        = IF i <= Len(Configured) THEN "configuration" ELSE "caller"
    BY DEF DiagnosticsAreTrue
  <2> DEFINE c == definition[a].capabilities
  <2>1. definition[a] \in Definable /\ Bound(definition[a], context[a]) /\ ValidIds(definition[a])
    BY DEF AppInv, FactoryInv, ContextInv
  <2>2. DOMAIN c = 1 .. Len(c) /\ IsInjective(c)
    BY <2>1 DEF Definable, ValidIds
  <2>3. context[a] = [j \in 1 .. Len(c) |->
                        [id |-> c[j], source |-> IF j <= Len(Configured) THEN "configuration" ELSE "caller"]]
    BY <2>1 DEF Bound
  <2>4. {j \in DOMAIN context[a] : context[a][j].id = c[i]} = {i}
    BY <2>2, <2>3 DEF IsInjective
  <2>5. i \in Int /\ Max({i}) = i
    BY <2>2 DEF Max
  <2>6. context[a][i].source = IF i <= Len(Configured) THEN "configuration" ELSE "caller"
    BY <2>2, <2>3
  <2> HIDE DEF c
  <2>7. SourceOf(context[a], c[i]) = context[a][i].source
    BY <2>4, <2>5 DEF SourceOf
  <2> QED
    BY <2>6, <2>7 DEF c
<1> QED
  BY <1>1, AppHolds, PTL

\* For any number of runs and hooks, a tool call whose hooks have begun and that
\* was not cancelled is told to the hooks, and after an error the run neither
\* goes on nor has a result (_execute_tool, _notify_error).
THEOREM ToolCallsAreReported == Spec => []ToolIsReported
<1>1. AppInv => ToolIsReported
  <2> SUFFICES ASSUME AppInv, NEW r \in Runs
               PROVE  /\ stage[r] \in {"calling", "selecting", "over"} /\ hooked[r].before > 0
                           => hooked[r].after = Hooks \/ hooked[r].notifying > 0
                      /\ hooked[r].after > 0 => hooked[r].before = Hooks
                      /\ hooked[r].notifying > 0 =>
                           outcome[r] # "result" /\ stage[r] \in {"notifying", "unwinding", "settling", "over"}
    BY DEF ToolIsReported
  <2>1. Reported(stage[r], hooked[r], outcome[r], then[r])
    BY DEF AppInv, HookInv
  <2> QED
    BY <2>1 DEF Reported, InCall, Ending
<1> QED
  BY <1>1, AppHolds, PTL
=============================================================================
