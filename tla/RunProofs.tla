------------------------------ MODULE RunProofs ------------------------------
(***************************************************************************)
(* Theorems about the runs of agents, for any agents, runs, models, keys,  *)
(* hooks and trackers: the events of a stream, and the usage.              *)
(***************************************************************************)
EXTENDS AppProofs, FiniteSetTheorems, NaturalsInduction

-----------------------------------------------------------------------------
\* What a function is made of, and that a step changes it at one place only.
At(r, f, g) == g = [f EXCEPT ![r] = g[r]]

Idle == {"new", "locking", "gathering", "constructing", "resolved", "failed", "ready"}

\* The building of agents and of overriding runs.
Building == (BuildNext /\ UNCHANGED runVars) \/ \E r \in Runs : Start(r)

-----------------------------------------------------------------------------
\* The events of a stream, those the consumer has got and those pending: what
\* EventsInOrder says of them, with the number of the next event.  Text may
\* follow where a request is announced and no tool has returned since.
Terminal == {"run_completed", "run_failed"}

Announced(e, i) ==
  \E j \in 1 .. i : /\ e[j].kind = "model_request_started"
                    /\ \A k \in j .. i : e[k].kind # "tool_result"

Course(e, n) ==
  /\ e \in Seq(Events) /\ Len(e) > 0 /\ n \in Nat
  /\ \A i \in 1 .. Len(e) :
       /\ e[i].kind = "run_started" <=> i = 1
       /\ e[i].sequence < n
       /\ i > 1 => e[i - 1].sequence < e[i].sequence
       /\ e[i].kind = "text_delta" => Announced(e, i)
       /\ e[i].kind \in Terminal => i = Len(e)
       /\ e[i].kind = "run_completed" => i > 1 /\ e[i - 1].kind = "usage_update"

Unended(e) == \A i \in 1 .. Len(e) : e[i].kind \notin Terminal

\* A run's stage s and outcome o, what is not translated (u), the stream's state
\* m, what the consumer has got (e), and whether all usage is recorded: the
\* last event comes from a run that is over, and nothing is left behind it.
Upstreams == {"text", "part", "call", "return", "result", "error"}
Streams == [consumer : {"reading", "left"}, complete : BOOLEAN, failed : BOOLEAN,
            expectRequest : BOOLEAN, sequence : Nat, pending : Seq(Events)]

Flow(r, s, o, u, m, e, even) ==
  /\ m \in Streams /\ u \in Seq(Upstreams) /\ e \in Seq(Events)
  /\ s \in Ending => o \in {"result", "error", "cancelled"}
  /\ r \in Streamed /\ m.consumer = "reading" => o # "cancelled"
  /\ r \notin Streamed \/ m.consumer = "left" => u = <<>>
  /\ m.consumer = "left" => s \in Ending
  /\ s \in {"settling", "over"} => even
  /\ \A i \in 1 .. Len(u) : u[i] \in {"result", "error"} => s = "over" /\ i = Len(u) /\ o = u[i]
  /\ m.complete \/ m.failed => s = "over" /\ u = <<>>
  /\ m.complete => o = "result"
  /\ Course(e \o m.pending, m.sequence)
  /\ ~m.expectRequest => Announced(e \o m.pending, Len(e \o m.pending))
  /\ ~m.complete /\ ~m.failed => Unended(e \o m.pending)
  /\ \A i \in 1 .. Len(e \o m.pending) : (e \o m.pending)[i].kind = "run_completed" => m.complete

FlowInv ==
  /\ upstream = [r \in Runs |-> upstream[r]] /\ stream = [r \in Runs |-> stream[r]]
  /\ got = [r \in Runs |-> got[r]]
  /\ used = [r \in Runs |-> used[r]] /\ previous = [r \in Runs |-> previous[r]]
  /\ \A r \in Runs :
       Flow(r, stage[r], outcome[r], upstream[r], stream[r], got[r], previous[r] = used[r])
-----------------------------------------------------------------------------
Event(k, n) == [kind |-> k, sequence |-> n]

\* One more event, with the next number.
Follows(e, n, k, f) ==
  /\ Course(e, n) /\ Unended(e) /\ f = Append(e, Event(k, n))
  /\ k \in {"model_request_started", "text_delta", "tool_call", "tool_result",
            "usage_update", "run_completed", "run_failed"}
  /\ k = "text_delta" => Announced(e, Len(e))
  /\ k = "run_completed" => e[Len(e)].kind = "usage_update"

Followed(e, n, k, f) ==
  /\ Course(f, n + 1)
  /\ k = "model_request_started" \/ (k # "tool_result" /\ Announced(e, Len(e))) => Announced(f, Len(f))
  /\ k \notin Terminal => Unended(f)
  /\ k # "run_completed" => \A i \in 1 .. Len(f) : f[i].kind # "run_completed"
  /\ Len(f) = Len(e) + 1 /\ f[Len(f)].kind = k

LEMMA CourseGoesOn ==
  ASSUME NEW e, NEW n, NEW k, NEW f, Follows(e, n, k, f)
  PROVE  Followed(e, n, k, f)
<1> USE DEF Follows
<1> DEFINE new == Event(k, n)
<1>1. e \in Seq(Events) /\ Len(e) \in Nat /\ Len(e) > 0 /\ n \in Nat
  BY DEF Course
<1>2. new \in Events /\ new.kind = k /\ new.sequence = n
  BY <1>1 DEF Event, Events
<1> HIDE DEF new
<1>3. f \in Seq(Events) /\ Len(f) = Len(e) + 1
  BY <1>1, <1>2 DEF new
<1>4. f[Len(e) + 1] = new /\ \A i \in 1 .. Len(e) : f[i] = e[i]
  BY <1>1, <1>2 DEF new
<1>5. ASSUME NEW i \in 1 .. Len(e), Announced(e, i) PROVE Announced(f, i)
  <2>1. PICK j \in 1 .. i : e[j].kind = "model_request_started" /\ \A m \in j .. i : e[m].kind # "tool_result"
    BY <1>5 DEF Announced
  <2>2. \A m \in 1 .. i : f[m] = e[m]
    BY <1>1, <1>4
  <2>3. f[j].kind = "model_request_started" /\ \A m \in j .. i : f[m].kind # "tool_result"
    BY <2>1, <2>2
  <2> QED
    BY <2>1, <2>3 DEF Announced
<1>6. ASSUME k # "tool_result", k = "model_request_started" \/ Announced(e, Len(e)) PROVE Announced(f, Len(e) + 1)
  <2>1. CASE k = "model_request_started"
    <3>1. Len(e) + 1 \in 1 .. Len(e) + 1 /\ f[Len(e) + 1].kind = "model_request_started"
      BY <1>1, <1>2, <1>4, <2>1
    <3>2. \A m \in Len(e) + 1 .. Len(e) + 1 : f[m].kind # "tool_result"
      BY <1>1, <1>2, <1>4, <2>1
    <3> QED
      BY <3>1, <3>2 DEF Announced
  <2>2. CASE Announced(e, Len(e))
    <3>1. Announced(e, Len(e))
      BY <2>2
    <3>2. PICK j \in 1 .. Len(e) : f[j].kind = "model_request_started"
                                   /\ \A m \in j .. Len(e) : f[m].kind # "tool_result"
      BY <1>1, <1>5, <3>1 DEF Announced
    <3>3. \A m \in j .. Len(e) + 1 : f[m].kind # "tool_result"
      BY <1>1, <1>2, <1>4, <1>6, <3>2
    <3> QED
      BY <1>1, <3>2, <3>3 DEF Announced
  <2> QED
    BY <1>6, <2>1, <2>2
<1>7. ASSUME NEW i \in 1 .. Len(f)
      PROVE  /\ f[i].kind = "run_started" <=> i = 1
             /\ f[i].sequence < n + 1
             /\ i > 1 => f[i - 1].sequence < f[i].sequence
             /\ f[i].kind = "text_delta" => Announced(f, i)
             /\ f[i].kind \in Terminal => i = Len(f)
             /\ f[i].kind = "run_completed" => i > 1 /\ f[i - 1].kind = "usage_update"
  <2>1. CASE i \in 1 .. Len(e)
    <3>1. f[i] = e[i] /\ (i > 1 => f[i - 1] = e[i - 1])
      BY <1>1, <1>4, <2>1
    <3>2. e[i].sequence \in Nat
      <4>1. e[i] \in Events
        BY <1>1, <2>1
      <4> QED
        BY <4>1 DEF Events
    <3>3. /\ e[i].kind = "run_started" <=> i = 1
          /\ e[i].sequence < n
          /\ i > 1 => e[i - 1].sequence < e[i].sequence
          /\ e[i].kind = "text_delta" => Announced(e, i)
          /\ e[i].kind \notin Terminal
      BY <2>1 DEF Course, Unended
    <3>4. e[i].kind # "run_completed"
      BY <3>3 DEF Terminal
    <3>5. e[i].sequence < n + 1
      BY <1>1, <3>2, <3>3
    <3> QED
      BY <1>5, <2>1, <3>1, <3>3, <3>4, <3>5
  <2>2. CASE i = Len(e) + 1
    <3>1. f[i] = new /\ i > 1 /\ i - 1 = Len(e) /\ f[i - 1] = e[Len(e)] /\ i = Len(f)
      BY <1>1, <1>3, <1>4, <2>2
    <3>2. e[Len(e)].sequence < n
      BY <1>1 DEF Course
    <3>3. k = "text_delta" => Announced(f, i)
      BY <1>6, <2>2
    <3> QED
      BY <1>1, <1>2, <3>1, <3>2, <3>3
  <2> QED
    BY <1>1, <1>3, <2>1, <2>2
<1>8. k = "model_request_started" \/ (k # "tool_result" /\ Announced(e, Len(e))) => Announced(f, Len(f))
  BY <1>3, <1>6
<1>9. Course(f, n + 1)
  BY <1>1, <1>3, <1>7 DEF Course
<1>10. ASSUME NEW i \in 1 .. Len(f) PROVE f[i].kind = k \/ f[i].kind \notin Terminal
  BY <1>1, <1>2, <1>3, <1>4 DEF Unended
<1>11. f[Len(f)].kind = k
  BY <1>2, <1>3, <1>4
<1>12. k \notin Terminal => Unended(f)
  BY <1>10 DEF Unended
<1>13. k # "run_completed" => \A i \in 1 .. Len(f) : f[i].kind # "run_completed"
  BY <1>10 DEF Terminal
<1> QED
  BY <1>3, <1>8, <1>9, <1>11, <1>12, <1>13 DEF Followed

\* A number may be skipped.
LEMMA CourseSkips ==
  ASSUME NEW e, NEW n \in Nat, NEW m \in Nat, Course(e, n), m >= n
  PROVE  Course(e, m)
<1>1. e \in Seq(Events)
  BY DEF Course
<1>2. ASSUME NEW i \in 1 .. Len(e) PROVE e[i].sequence < m
  <2>1. e[i] \in Events /\ e[i].sequence < n
    BY <1>1 DEF Course
  <2> QED
    BY <2>1 DEF Events
<1> QED
  BY <1>2 DEF Course

\* The next pending event goes to the consumer.
LEMMA Handed ==
  ASSUME NEW S, NEW e \in Seq(S), NEW p \in Seq(S), p # <<>>
  PROVE  /\ Append(e, Head(p)) \o Tail(p) = e \o p
         /\ Append(e, Head(p)) \in Seq(S) /\ Tail(p) \in Seq(S)
<1>1. Len(p) \in Nat /\ Len(p) > 0 /\ Len(e) \in Nat /\ Head(p) \in S /\ Head(p) = p[1]
  OBVIOUS
<1>2. Tail(p) \in Seq(S) /\ Len(Tail(p)) = Len(p) - 1 /\ \A i \in 1 .. Len(p) - 1 : Tail(p)[i] = p[i + 1]
  OBVIOUS
<1> DEFINE a == Append(e, Head(p))
           t == Tail(p)
<1>3. a \in Seq(S) /\ Len(a) = Len(e) + 1 /\ a[Len(e) + 1] = p[1] /\ \A i \in 1 .. Len(e) : a[i] = e[i]
  BY <1>1
<1> HIDE DEF a, t
<1>4. Len(t) = Len(p) - 1 /\ t \in Seq(S) /\ \A i \in 1 .. Len(p) - 1 : t[i] = p[i + 1]
  BY <1>2 DEF t
<1>5. a \o t \in Seq(S) /\ Len(a \o t) = Len(e) + Len(p) /\ e \o p \in Seq(S) /\ Len(e \o p) = Len(e) + Len(p)
  <2>1. a \o t \in Seq(S) /\ Len(a \o t) = Len(a) + Len(t)
    <3>1. a \in Seq(S) /\ t \in Seq(S)
      BY <1>3, <1>4
    <3> QED
      BY ONLY <3>1
  <2>2. e \o p \in Seq(S) /\ Len(e \o p) = Len(e) + Len(p)
    OBVIOUS
  <2> QED
    BY <1>1, <1>3, <1>4, <2>1, <2>2
<1>6. ASSUME NEW i \in 1 .. Len(e) + Len(p) PROVE (a \o t)[i] = (e \o p)[i]
  <2>1. CASE i \in 1 .. Len(e)
    BY <1>1, <1>3, <1>4, <2>1
  <2>2. CASE i = Len(e) + 1
    BY <1>1, <1>3, <1>4, <2>2
  <2>3. CASE i \in Len(e) + 2 .. Len(e) + Len(p)
    <3>1. (a \o t)[i] = t[i - Len(e) - 1]
      BY <1>1, <1>3, <1>4, <2>3
    <3>2. t[i - Len(e) - 1] = p[i - Len(e)]
      BY <1>1, <1>4, <2>3
    <3>3. (e \o p)[i] = p[i - Len(e)]
      BY <1>1, <2>3
    <3> QED
      BY <3>1, <3>2, <3>3
  <2>4. i \in 1 .. Len(e) \/ i = Len(e) + 1 \/ i \in Len(e) + 2 .. Len(e) + Len(p)
    BY <1>1
  <2> QED
    BY <2>1, <2>2, <2>3, <2>4
<1>7. a \o t = e \o p
  BY <1>5, <1>6
<1> QED
  BY <1>2, <1>3, <1>7 DEF a, t
-----------------------------------------------------------------------------
\* What a step changes.

LEMMA BuildFrame ==
  ASSUME StageInv, RoutingAssumption, Building, NEW r \in Runs
  PROVE  /\ UNCHANGED runVars
         /\ stage'[r] = stage[r] \/ (stage[r] \in Idle /\ stage'[r] \in Idle \cup {"selecting"})
<1> DEFINE OK == stage'[r] = stage[r] \/ (stage[r] \in Idle /\ stage'[r] \in Idle \cup {"selecting"})
<1>1. UNCHANGED runVars
  BY DEF Building, Start
<1>2. r \in Tasks /\ r \notin Agents
  BY DEF Tasks, RoutingAssumption
<1>3. ASSUME NEW t \in Tasks, NEW have, NEW cache, NEW keyOf, Walk(t, have, cache, keyOf)
      PROVE  \E to \in {"resolved", "constructing"} : Become(t, to)
  BY <1>3 DEF Walk
<1>4. ASSUME NEW a \in Agents, NEW to, Become(a, to) PROVE OK
  BY <1>2, <1>4 DEF Become, StageInv
<1>5. ASSUME NEW t \in Tasks, stage[t] \in {"new", "constructing", "resolved", "locking"},
             NEW to \in {"constructing", "resolved", "failed", "ready", "selecting"}, Become(t, to)
      PROVE  OK
  <2>1. stage'[r] = stage[r] \/ (t = r /\ stage'[r] = to)
    BY <1>2, <1>5 DEF Become, StageInv
  <2> QED
    BY <1>5, <2>1 DEF Idle
<1>6. ASSUME NEW a \in Agents, Bind(a) PROVE \E to : Become(a, to)
  BY <1>3, <1>6 DEF Bind, Resolve, Tasks
<1>7. ASSUME NEW q \in Runs, Start(q) PROVE OK
  <2>1. stage[q] = "new" /\ q \in Tasks
    BY <1>7 DEF Start, Tasks
  <2>2. \E to \in {"resolved", "constructing", "failed", "selecting"} : Become(q, to)
    BY <1>3, <1>7, <2>1 DEF Start, Resolve
  <2> QED
    BY <1>5, <2>1, <2>2
<1>8. CASE \E a \in Agents : Prepare(a) \/ Enter(a) \/ Gathered(a) \/ GatherFails(a)
  BY <1>1, <1>4, <1>6, <1>8 DEF Prepare, Enter, Gathered, GatherFails
<1>9. CASE \E a \in Agents : Extend(a)
  BY <1>1, <1>9 DEF Extend
<1>10. CASE \E t \in Tasks : Constructed(t)
  BY <1>1, <1>3, <1>5, <1>10 DEF Constructed
<1>11. CASE \E t \in Tasks : ConstructionFails(t)
  BY <1>1, <1>5, <1>11 DEF ConstructionFails
<1>12. CASE \E t \in Tasks : Compile(t)
  <2>1. PICK t \in Tasks : Compile(t)
    BY <1>12
  <2>2. stage[t] = "resolved" /\ \E to \in {"ready", "selecting", "failed"} : Become(t, to)
    BY <2>1 DEF Compile
  <2> QED
    BY <1>1, <1>5, <2>2
<1>13. CASE \E t \in Tasks : Abandon(t)
  BY <1>1, <1>5, <1>13 DEF Abandon
<1>14. CASE UNCHANGED stage
  BY <1>1, <1>14
<1> QED
  BY <1>1, <1>7, <1>8, <1>9, <1>10, <1>11, <1>12, <1>13, <1>14 DEF Building, BuildNext, BuildStep

\* A step of a run changes what belongs to the run.
Own(r) ==
  /\ At(r, stage, stage') /\ At(r, outcome, outcome') /\ At(r, upstream, upstream')
  /\ At(r, stream, stream') /\ At(r, got, got') /\ At(r, used, used') /\ At(r, previous, previous')

Shapes ==
  /\ StageInv /\ outcome = [r \in Runs |-> outcome[r]]
  /\ upstream = [r \in Runs |-> upstream[r]] /\ stream = [r \in Runs |-> stream[r]]
  /\ got = [r \in Runs |-> got[r]]
  /\ used = [r \in Runs |-> used[r]] /\ previous = [r \in Runs |-> previous[r]]

LEMMA Same ==
  ASSUME NEW S, NEW f, f = [r \in S |-> f[r]], NEW r \in S
  PROVE  At(r, f, f)
BY DEF At

LEMMA SetAt ==
  ASSUME NEW S, NEW f, f = [r \in S |-> f[r]], NEW r \in S, NEW v, NEW g, g = [f EXCEPT ![r] = v]
  PROVE  At(r, f, g) /\ g[r] = v
BY DEF At

LEMMA Elsewhere ==
  ASSUME NEW S, NEW f, f = [r \in S |-> f[r]], NEW r \in S, NEW g, At(r, f, g)
  PROVE  g = [q \in S |-> g[q]] /\ \A q \in S \ {r} : g[q] = f[q]
<1>1. g = [f EXCEPT ![r] = g[r]]
  BY DEF At
<1>2. DOMAIN g = S /\ \A q \in S : g[q] = IF q = r THEN g[r] ELSE f[q]
  BY <1>1
<1> QED
  BY <1>1, <1>2

LEMMA OwnKeeps ==
  ASSUME Shapes, FlowInv, NEW r \in Runs, Own(r),
         Flow(r, stage'[r], outcome'[r], upstream'[r], stream'[r], got'[r], previous'[r] = used'[r])
  PROVE  FlowInv'
<1>1. r \in Tasks /\ Runs \subseteq Tasks
  BY DEF Tasks
<1>2. /\ stage' = [q \in Tasks |-> stage'[q]] /\ \A q \in Tasks \ {r} : stage'[q] = stage[q]
      /\ outcome' = [q \in Runs |-> outcome'[q]] /\ \A q \in Runs \ {r} : outcome'[q] = outcome[q]
  BY <1>1, Elsewhere DEF Own, Shapes, StageInv
<1>3. /\ upstream' = [q \in Runs |-> upstream'[q]] /\ \A q \in Runs \ {r} : upstream'[q] = upstream[q]
      /\ stream' = [q \in Runs |-> stream'[q]] /\ \A q \in Runs \ {r} : stream'[q] = stream[q]
      /\ got' = [q \in Runs |-> got'[q]] /\ \A q \in Runs \ {r} : got'[q] = got[q]
  BY Elsewhere DEF Own, Shapes
<1>4. /\ used' = [q \in Runs |-> used'[q]] /\ \A q \in Runs \ {r} : used'[q] = used[q]
      /\ previous' = [q \in Runs |-> previous'[q]] /\ \A q \in Runs \ {r} : previous'[q] = previous[q]
  BY Elsewhere DEF Own, Shapes
<1>5. ASSUME NEW q \in Runs
      PROVE  Flow(q, stage'[q], outcome'[q], upstream'[q], stream'[q], got'[q], previous'[q] = used'[q])
  <2>1. CASE q = r
    BY <2>1
  <2>2. CASE q # r
    <3>1. /\ stage'[q] = stage[q] /\ outcome'[q] = outcome[q] /\ upstream'[q] = upstream[q]
          /\ stream'[q] = stream[q] /\ got'[q] = got[q] /\ used'[q] = used[q] /\ previous'[q] = previous[q]
      BY <1>1, <1>2, <1>3, <1>4, <2>2
    <3>2. Flow(q, stage[q], outcome[q], upstream[q], stream[q], got[q], previous[q] = used[q])
      BY DEF FlowInv
    <3> QED
      BY <3>1, <3>2
  <2> QED
    BY <2>1, <2>2
<1> QED
  BY <1>3, <1>4, <1>5 DEF FlowInv

Changes(r, f, g) == g = f \/ \E v : g = [f EXCEPT ![r] = v]

LEMMA ChangesAt ==
  ASSUME NEW S, NEW f, f = [r \in S |-> f[r]], NEW r \in S, NEW g, Changes(r, f, g)
  PROVE  At(r, f, g)
BY Same, SetAt DEF Changes

LEMMA OwnBy ==
  ASSUME Shapes, NEW r \in Runs,
         Changes(r, stage, stage'), Changes(r, outcome, outcome'), Changes(r, upstream, upstream'),
         Changes(r, stream, stream'), Changes(r, got, got'),
         Changes(r, used, used'), Changes(r, previous, previous')
  PROVE  Own(r)
<1>1. r \in Tasks
  BY DEF Tasks
<1>2. At(r, stage, stage') /\ At(r, outcome, outcome')
  BY <1>1, ChangesAt DEF Shapes, StageInv
<1>3. At(r, upstream, upstream') /\ At(r, stream, stream') /\ At(r, got, got')
  BY ChangesAt DEF Shapes
<1>4. At(r, used, used') /\ At(r, previous, previous')
  BY ChangesAt DEF Shapes
<1> QED
  BY <1>2, <1>3, <1>4 DEF Own

-----------------------------------------------------------------------------
\* The steps of a run as its stream sees them: the run goes on, ends, settles
\* what its last recording has begun, or is over.
Emits(r) ==
  \/ upstream'[r] = upstream[r]
  \/ /\ r \in Streamed /\ upstream[r] = <<>>
     /\ \E event \in {"text", "part", "call", "return"} : upstream'[r] = <<event>>

GoesOn(r) ==
  /\ stage[r] \notin Ending /\ stage'[r] \in Active \ Ending
  /\ outcome'[r] = outcome[r] /\ Emits(r)

Ceases(r) ==
  /\ stage[r] \in Active /\ stage'[r] = "unwinding"
  /\ \/ stage[r] \notin Ending /\ outcome'[r] \in {"result", "error"}
     \/ r \notin Streamed /\ outcome'[r] = "cancelled"
  /\ Emits(r)

Settles(r) ==
  /\ stage[r] = "unwinding" /\ stage'[r] = "settling" /\ outcome'[r] = outcome[r]
  /\ upstream'[r] = upstream[r] /\ previous'[r] = used'[r]

Closes(r) ==
  /\ stage[r] \in {"unwinding", "settling"} /\ stage'[r] = "over"
  /\ outcome'[r] \in {outcome[r], "error"} /\ previous'[r] = used'[r]
  /\ upstream'[r] = IF r \in Streamed /\ stream[r].consumer = "reading"
                      THEN Append(upstream[r], outcome'[r]) ELSE upstream[r]

Paced(r) ==
  /\ Own(r) /\ UNCHANGED <<stream, got>>
  /\ GoesOn(r) \/ Ceases(r) \/ Settles(r) \/ Closes(r)

LEMMA PacedFlows ==
  ASSUME FlowInv, NEW r \in Runs, Paced(r)
  PROVE  Flow(r, stage'[r], outcome'[r], upstream'[r], stream'[r], got'[r], previous'[r] = used'[r])
<1> DEFINE s == stage[r]
           o == outcome[r]
           u == upstream[r]
           m == stream[r]
           e == got[r]
           even == previous[r] = used[r]
<1>1. Flow(r, s, o, u, m, e, even)
  BY DEF FlowInv
<1>2. stream'[r] = m /\ got'[r] = e
  BY DEF Paced
<1>3. ASSUME NEW t, NEW p, NEW w, NEW v, t # "over",
             s \notin Ending \/ (~m.complete /\ ~m.failed),
             t \in Ending => p \in {"result", "error", "cancelled"},
             r \in Streamed /\ m.consumer = "reading" => p # "cancelled",
             m.consumer = "left" => t \in Ending,
             t = "settling" => v,
             w = u \/ (r \in Streamed /\ m.consumer # "left" /\ \E event \in {"text", "part", "call", "return"} : w = <<event>>),
             s # "over"
      PROVE  Flow(r, t, p, w, m, e, v)
  <2>1. ~m.complete /\ ~m.failed /\ \A i \in 1 .. Len(u) : u[i] \notin {"result", "error"}
    BY <1>1, <1>3 DEF Flow, Ending, Streams
  <2>2. w \in Seq(Upstreams) /\ \A i \in 1 .. Len(w) : w[i] \notin {"result", "error"}
    <3>1. CASE w = u
      BY <1>1, <2>1, <3>1 DEF Flow
    <3>2. CASE w # u
      <4>1. PICK event \in {"text", "part", "call", "return"} : w = <<event>>
        BY <1>3, <3>2
      <4>2. event \in Upstreams
        BY DEF Upstreams
      <4> QED
        BY <4>1, <4>2
    <3> QED
      BY <3>1, <3>2
  <2>3. r \notin Streamed \/ m.consumer = "left" => w = <<>>
    BY <1>1, <1>3 DEF Flow
  <2> HIDE DEF s, o, u, m, e, even
  <2> QED
    BY <1>1, <1>3, <2>1, <2>2, <2>3 DEF Flow
<1>4. m.complete \/ m.failed => s = "over"
  BY <1>1 DEF Flow
<1>5. m.consumer \in {"reading", "left"} /\ m.complete \in BOOLEAN /\ m.failed \in BOOLEAN
  BY <1>1 DEF Flow, Streams
<1>6. ASSUME Emits(r), s \notin Ending
      PROVE  upstream'[r] = u \/ (r \in Streamed /\ m.consumer # "left" /\ \E event \in {"text", "part", "call", "return"} : upstream'[r] = <<event>>)
  BY <1>1, <1>6 DEF Emits, Flow
<1>7. CASE GoesOn(r)
  <2>1. s \notin Ending /\ stage'[r] \notin Ending /\ outcome'[r] = o /\ Emits(r)
    BY <1>7 DEF GoesOn
  <2>2. stage'[r] # "over" /\ stage'[r] # "settling" /\ s # "over" /\ m.consumer # "left"
    BY <1>1, <2>1 DEF Flow, Ending
  <2>3. r \in Streamed /\ m.consumer = "reading" => outcome'[r] # "cancelled"
    BY <1>1, <2>1 DEF Flow
  <2> HIDE DEF s, o, u, m, e, even
  <2> QED
    BY <1>2, <1>3, <1>6, <2>1, <2>2, <2>3
<1>8. CASE Ceases(r)
  <2>1. s \in Active /\ stage'[r] = "unwinding" /\ Emits(r)
    BY <1>8 DEF Ceases
  <2>2. s # "over" /\ "unwinding" \in Ending /\ ~m.complete /\ ~m.failed
    BY <1>4, <2>1 DEF Active, Ending
  <2>3. CASE s \notin Ending /\ outcome'[r] \in {"result", "error"}
    <3> HIDE DEF s, o, u, m, e, even
    <3> QED
      BY <1>2, <1>3, <1>5, <1>6, <2>1, <2>2, <2>3
  <2>4. CASE r \notin Streamed /\ outcome'[r] = "cancelled"
    <3>1. upstream'[r] = u
      BY <2>1, <2>4 DEF Emits
    <3> HIDE DEF s, o, u, m, e, even
    <3> QED
      BY <1>2, <1>3, <1>5, <2>1, <2>2, <2>4, <3>1
  <2> QED
    BY <1>8, <2>3, <2>4 DEF Ceases
<1>9. CASE Settles(r)
  <2>1. /\ s = "unwinding" /\ stage'[r] = "settling" /\ outcome'[r] = o /\ upstream'[r] = u
        /\ previous'[r] = used'[r]
    BY <1>9 DEF Settles
  <2>2. /\ o \in {"result", "error", "cancelled"} /\ "settling" \in Ending
        /\ r \in Streamed /\ m.consumer = "reading" => o # "cancelled"
        /\ ~m.complete /\ ~m.failed /\ s # "over"
    BY <1>1, <1>4, <2>1 DEF Flow, Ending
  <2> HIDE DEF s, o, u, m, e, even
  <2> QED
    BY <1>2, <1>3, <1>5, <2>1, <2>2
<1>10. CASE Closes(r)
  <2> DEFINE p == outcome'[r]
             w == upstream'[r]
  <2>1. /\ s \in {"unwinding", "settling"} /\ stage'[r] = "over"
        /\ p \in {o, "error"} /\ previous'[r] = used'[r]
        /\ w = IF r \in Streamed /\ m.consumer = "reading" THEN Append(u, p) ELSE u
    BY <1>10 DEF Closes
  <2>2. /\ s # "over" /\ "over" \in Ending /\ p \in {"result", "error", "cancelled"}
        /\ r \in Streamed /\ m.consumer = "reading" => p # "cancelled"
    BY <1>1, <2>1 DEF Flow, Ending
  <2>3. ~m.complete /\ ~m.failed /\ \A i \in 1 .. Len(u) : u[i] \notin {"result", "error"}
    BY <1>1, <2>2 DEF Flow
  <2>4. u \in Seq(Upstreams) /\ (r \notin Streamed \/ m.consumer = "left" => u = <<>>)
    BY <1>1 DEF Flow
  <2>5. /\ w \in Seq(Upstreams)
        /\ \A i \in 1 .. Len(w) : w[i] \in {"result", "error"} => i = Len(w) /\ p = w[i]
    <3>1. CASE r \in Streamed /\ m.consumer = "reading"
      <4>1. w = Append(u, p) /\ p \in Upstreams
        BY <2>1, <2>2, <3>1 DEF Upstreams
      <4> HIDE DEF u, w, p
      <4> QED
        BY <2>3, <2>4, <4>1
    <3>2. CASE ~(r \in Streamed /\ m.consumer = "reading")
      BY <2>1, <2>3, <2>4, <3>2
    <3> QED
      BY <3>1, <3>2
  <2>6. r \notin Streamed \/ m.consumer = "left" => w = <<>>
    BY <1>5, <2>1, <2>4
  <2> HIDE DEF s, o, u, m, e, even, p, w
  <2>7. Flow(r, "over", p, w, m, e, TRUE)
    BY <1>1, <2>2, <2>3, <2>5, <2>6 DEF Flow
  <2> QED
    BY <1>2, <2>1, <2>7 DEF p, w
<1> QED
  BY <1>7, <1>8, <1>9, <1>10 DEF Paced

LEMMA EmitEmits ==
  ASSUME Shapes, NEW r \in Runs, NEW event \in {"text", "part", "call", "return"}, Emit(r, event)
  PROVE  Emits(r) /\ Changes(r, upstream, upstream')
<1>1. CASE r \in Streamed
  <2>1. upstream[r] = <<>> /\ upstream' = [upstream EXCEPT ![r] = <<event>>]
    BY <1>1 DEF Emit
  <2>2. upstream'[r] = <<event>>
    BY <2>1 DEF Shapes
  <2> QED
    BY <1>1, <2>1, <2>2 DEF Emits, Changes
<1>2. CASE r \notin Streamed
  BY <1>2 DEF Emit, Emits, Changes
<1> QED
  BY <1>1, <1>2

LEMMA BecomeChanges ==
  ASSUME Shapes, NEW r \in Runs, NEW to, Become(r, to)
  PROVE  Changes(r, stage, stage') /\ stage'[r] = to
BY DEF Become, Changes, Shapes, StageInv, Tasks

LEMMA OutcomeChanges ==
  ASSUME Shapes, NEW r \in Runs, NEW how, outcome' = [outcome EXCEPT ![r] = how]
  PROVE  Changes(r, outcome, outcome') /\ outcome'[r] = how
BY DEF Changes, Shapes

\* A run that goes on, or ends, with or without an event, and counts.
LEMMA GoesOnPaces ==
  ASSUME Shapes, NEW r \in Runs, NEW to \in Active \ Ending, stage[r] \notin Ending,
         Become(r, to) \/ (stage' = stage /\ to = stage[r]),
         outcome' = outcome, UNCHANGED <<stream, got>>,
         Emits(r) /\ Changes(r, upstream, upstream'),
         Changes(r, used, used'), Changes(r, previous, previous')
  PROVE  Paced(r)
<1>1. Changes(r, stage, stage') /\ stage'[r] = to
  BY BecomeChanges DEF Changes
<1>2. Own(r)
  BY <1>1, OwnBy DEF Changes
<1>3. GoesOn(r)
  BY <1>1 DEF GoesOn
<1> QED
  BY <1>2, <1>3 DEF Paced

LEMMA CeasesPaces ==
  ASSUME Shapes, NEW r \in Runs, stage[r] \in Active, NEW how, End(r, how),
         (stage[r] \notin Ending /\ how \in {"result", "error"}) \/ (r \notin Streamed /\ how = "cancelled"),
         UNCHANGED <<stream, got>>, Emits(r) /\ Changes(r, upstream, upstream'),
         Changes(r, used, used'), Changes(r, previous, previous')
  PROVE  Paced(r)
<1>1. Changes(r, stage, stage') /\ stage'[r] = "unwinding"
  BY BecomeChanges DEF End
<1>2. Changes(r, outcome, outcome') /\ outcome'[r] = how
  BY OutcomeChanges DEF End
<1>3. Own(r)
  BY <1>1, <1>2, OwnBy DEF Changes
<1>4. Ceases(r)
  BY <1>1, <1>2 DEF Ceases
<1> QED
  BY <1>3, <1>4 DEF Paced

LEMMA ConcludePaces ==
  ASSUME Shapes, NEW r \in Runs, stage[r] \in {"unwinding", "settling"},
         NEW how \in {outcome[r], "error"}, Conclude(r, how),
         UNCHANGED <<stream, got>>, previous'[r] = used'[r],
         Changes(r, used, used'), Changes(r, previous, previous')
  PROVE  Paced(r)
<1>1. Changes(r, stage, stage') /\ stage'[r] = "over"
  BY BecomeChanges DEF Conclude
<1>2. Changes(r, outcome, outcome') /\ outcome'[r] = how
  BY OutcomeChanges DEF Conclude
<1>3. /\ Changes(r, upstream, upstream')
      /\ upstream'[r] = IF r \in Streamed /\ stream[r].consumer = "reading"
                          THEN Append(upstream[r], how) ELSE upstream[r]
  <2>1. CASE r \in Streamed /\ stream[r].consumer = "reading"
    <3>1. upstream' = [upstream EXCEPT ![r] = Append(upstream[r], how)]
      BY <2>1 DEF Conclude
    <3> QED
      BY <2>1, <3>1 DEF Changes, Shapes
  <2>2. CASE ~(r \in Streamed /\ stream[r].consumer = "reading")
    BY <2>2 DEF Conclude, Changes
  <2> QED
    BY <2>1, <2>2
<1>4. Own(r)
  BY <1>1, <1>2, <1>3, OwnBy DEF Changes
<1>5. Closes(r)
  BY <1>1, <1>2, <1>3 DEF Closes
<1> QED
  BY <1>4, <1>5 DEF Paced

LEMMA CutPaces ==
  ASSUME Shapes, NEW r \in Runs, Cut(r)
  PROVE  /\ Changes(r, used, used') /\ previous' = previous
         /\ End(r, "cancelled") /\ stage[r] \in Active \ {"unwinding"}
 <1>1. PICK n \in {0, 1} : /\ n = 1 => stage[r] \in {"requesting", "answering"}
                          /\ used' = [used EXCEPT ![r].requests = @ + n]
  BY DEF Cut
<1> DEFINE f == [used[r] EXCEPT !.requests = @ + n]
<1>2. used' = [used EXCEPT ![r] = f]
  BY <1>1
<1> QED
  BY <1>1, <1>2 DEF Changes, Cut

LEMMA RunPaces ==
  ASSUME Shapes, FlowInv, ThenInv, NEW r \in Runs, RunStep(r) \/ Interrupt(r)
  PROVE  Paced(r)
<1> DEFINE Still == upstream' = upstream /\ UNCHANGED <<stream, got>>
           Uncounted == used' = used /\ previous' = previous
<1>1. Changes(r, used, used) /\ Changes(r, previous, previous) /\ Changes(r, upstream, upstream)
  BY DEF Changes
<1>2. upstream' = upstream => Emits(r)
  BY DEF Emits
<1>3. ASSUME Still, Changes(r, used, used'), Changes(r, previous, previous'), outcome' = outcome,
             NEW to \in Active \ Ending, stage[r] \notin Ending,
             Become(r, to) \/ (stage' = stage /\ to = stage[r])
      PROVE  Paced(r)
  BY <1>1, <1>2, <1>3, GoesOnPaces
<1>4. ASSUME Still, Changes(r, used, used'), Changes(r, previous, previous'),
             stage[r] \in Active \ Ending, NEW how \in {"result", "error"}, End(r, how)
      PROVE  Paced(r)
  BY <1>1, <1>2, <1>4, CeasesPaces
<1>5. Uncounted => Changes(r, used, used') /\ Changes(r, previous, previous')
  BY <1>1
<1>6. CASE SelectModels(r)
  <2>1. Still /\ Uncounted /\ outcome' = outcome
    BY <1>6 DEF SelectModels, runVars, streamVars, ledgerVars
  <2>2. stage[r] \in {"selecting", "asking"} /\ (stage' = stage \/ Become(r, "asking") \/ Become(r, "selected"))
    BY <1>6 DEF SelectModels, Select, Selected
  <2> HIDE DEF Still, Uncounted
  <2> QED
    BY <1>3, <1>5, <2>1, <2>2 DEF Active, Ending
<1>7. CASE SelectFails(r) \/ OfferFails(r)
  <2>1. Still /\ Uncounted /\ End(r, "error") /\ stage[r] \in {"asking", "selected"}
    BY <1>7 DEF SelectFails, OfferFails, streamVars, ledgerVars, Fail
  <2> HIDE DEF Still, Uncounted
  <2> QED
    BY <1>4, <1>5, <2>1 DEF Active, Ending
<1>8. CASE BeforeRequest(r)
  <2>1. Still /\ Uncounted /\ stage[r] = "selected"
        /\ (End(r, "error") \/ (Become(r, "requesting") /\ outcome' = outcome))
    BY <1>8 DEF BeforeRequest, streamVars, ledgerVars, Fail, Continue
  <2> HIDE DEF Still, Uncounted
  <2> QED
    BY <1>3, <1>4, <1>5, <2>1 DEF Active, Ending
<1>9. CASE Part(r)
  <2>1. /\ Uncounted /\ stage[r] = "requesting" /\ UNCHANGED <<stream, got>> /\ outcome' = outcome
        /\ Become(r, "answering")
    BY <1>9 DEF Part, ledgerVars
  <2>2. Emits(r) /\ Changes(r, upstream, upstream')
    BY <1>9, EmitEmits DEF Part
  <2> QED
    BY <1>5, <2>1, <2>2, GoesOnPaces DEF Active, Ending
<1>10. CASE Respond(r)
  <2>1. Still /\ stage[r] \in {"requesting", "answering"}
        /\ (End(r, "error") \/ (Become(r, "noting") /\ outcome' = outcome))
    BY <1>10 DEF Respond, streamVars, Fail
  <2>2. used' = [used EXCEPT ![r] = [used[r] EXCEPT !.requests = @ + 1]]
        /\ previous' = [previous EXCEPT ![r] = used'[r]]
    BY <1>10 DEF Respond, Record
  <2>3. Changes(r, used, used') /\ Changes(r, previous, previous')
    BY <2>2 DEF Changes
  <2> HIDE DEF Still, Uncounted
  <2> QED
    BY <1>3, <1>4, <2>1, <2>3 DEF Active, Ending
<1>11. CASE RequestFails(r)
  <2>1. Still /\ stage[r] \in {"requesting", "answering"} /\ End(r, "error") /\ previous' = previous
    BY <1>11 DEF RequestFails, streamVars, Fail
  <2>2. PICK n \in {0, 1} : used' = [used EXCEPT ![r].requests = @ + n]
    BY <1>11 DEF RequestFails
  <2>3. used' = [used EXCEPT ![r] = [used[r] EXCEPT !.requests = @ + n]]
    BY <2>2
  <2>4. Changes(r, used, used')
    BY <2>3 DEF Changes
  <2> HIDE DEF Still, Uncounted
  <2> QED
    BY <1>1, <1>4, <2>1, <2>4 DEF Active, Ending
<1>12. CASE Noted(r)
  <2>1. Still /\ Uncounted /\ stage[r] = "noting"
    BY <1>12 DEF Noted, streamVars, ledgerVars
  <2>2. then[r] \in {"calling", "unwinding", "selecting"}
    BY <2>1 DEF ThenInv
  <2>3. \/ End(r, "result") \/ End(r, "error")
        \/ (outcome' = outcome /\ \E to \in {"calling", "selecting"} : Become(r, to))
    BY <1>12, <2>2 DEF Noted, Continue, Fail
  <2> HIDE DEF Still, Uncounted
  <2> QED
    BY <1>3, <1>4, <1>5, <2>1, <2>3 DEF Active, Ending
<1>13. CASE Call(r)
  <2>1. Uncounted /\ stage[r] = "calling" /\ UNCHANGED <<stream, got>>
        /\ (End(r, "error") \/ (Become(r, "before") /\ outcome' = outcome))
    BY <1>13 DEF Call, ledgerVars, Continue, Fail
  <2>2. Emits(r) /\ Changes(r, upstream, upstream')
    BY <1>13, EmitEmits DEF Call
  <2>3. CASE End(r, "error")
    BY <1>5, <2>1, <2>2, <2>3, CeasesPaces DEF Active, Ending
  <2>4. CASE Become(r, "before") /\ outcome' = outcome
    BY <1>5, <2>1, <2>2, <2>4, GoesOnPaces DEF Active, Ending
  <2> QED
    BY <2>1, <2>3, <2>4
<1>14. CASE Hook(r) \/ Proceed(r) \/ Raises(r)
  <2>1. Still /\ Uncounted /\ outcome' = outcome
    BY <1>14 DEF Hook, Proceed, Raises, streamVars, ledgerVars, runVars
  <2>2. stage[r] \in {"before", "executing", "after", "notifying"}
        /\ (stage' = stage \/ \E to \in {"executing", "after", "notifying"} : Become(r, to))
    BY <1>14 DEF Hook, Proceed, Raises, NoHooks
  <2> HIDE DEF Still, Uncounted
  <2> QED
    BY <1>3, <1>5, <2>1, <2>2 DEF Active, Ending
<1>15. CASE Returned(r)
  <2>1. /\ stage[r] = "after" /\ UNCHANGED <<stream, got>> /\ outcome' = outcome /\ previous' = previous
        /\ used' = [used EXCEPT ![r] = [used[r] EXCEPT !.tools = @ + 1]]
    BY <1>15 DEF Returned
  <2>2. Emits(r) /\ Changes(r, upstream, upstream')
    BY <1>15, EmitEmits DEF Returned
  <2>3. Changes(r, used, used') /\ Changes(r, previous, previous')
    BY <1>1, <2>1 DEF Changes
  <2>4. PICK to \in {"selecting", "calling"} : Become(r, to)
    BY <1>15 DEF Returned
  <2> QED
    BY <2>1, <2>2, <2>3, <2>4, GoesOnPaces DEF Active, Ending
<1>16. CASE Notified(r)
  <2>1. Still /\ Uncounted /\ End(r, "error") /\ stage[r] = "notifying"
    BY <1>16 DEF Notified, streamVars, ledgerVars, Fail
  <2> HIDE DEF Still, Uncounted
  <2> QED
    BY <1>4, <1>5, <2>1 DEF Active, Ending
<1>17. ASSUME NEW how \in Ends(r) \cup {"error"} PROVE how \in {outcome[r], "error"}
  BY DEF Ends
<1>18. CASE Unwind(r)
  <2>1. /\ stage[r] = "unwinding" /\ used' = used /\ UNCHANGED <<stream, got>>
        /\ previous' = [previous EXCEPT ![r] = used[r]]
    BY <1>18 DEF Unwind, Record
  <2>2. Changes(r, used, used') /\ Changes(r, previous, previous') /\ previous'[r] = used'[r]
    BY <2>1 DEF Changes, Shapes
  <2>3. CASE \E how \in Ends(r) \cup {"error"} : Conclude(r, how)
    BY <1>17, <2>1, <2>2, <2>3, ConcludePaces
  <2>4. CASE Become(r, "settling") /\ outcome' = outcome /\ upstream' = upstream
    <3>1. stage'[r] = "settling" /\ Changes(r, stage, stage')
      BY <2>4, BecomeChanges
    <3>2. Own(r)
      BY <2>1, <2>2, <2>4, <3>1, OwnBy DEF Changes
    <3> QED
      BY <2>1, <2>2, <2>4, <3>1, <3>2 DEF Paced, Settles
  <2> QED
    BY <1>18, <2>3, <2>4 DEF Unwind
<1>19. CASE Settled(r)
  <2>1. stage[r] = "settling" /\ Uncounted /\ UNCHANGED <<stream, got>>
        /\ \E how \in Ends(r) \cup {"error"} : Conclude(r, how)
    BY <1>19 DEF Settled, ledgerVars
  <2>2. previous[r] = used[r]
    BY <2>1 DEF FlowInv, Flow
  <2> QED
    BY <1>5, <1>17, <2>1, <2>2, ConcludePaces
<1>20. CASE Interrupt(r)
  <2>1. r \notin Streamed /\ Cut(r) /\ Still
    BY <1>20 DEF Interrupt, streamVars
  <2> QED
    BY <1>1, <1>2, <2>1, CutPaces, CeasesPaces
<1> QED
  BY <1>6, <1>7, <1>8, <1>9, <1>10, <1>11, <1>12, <1>13, <1>14, <1>15, <1>16, <1>18, <1>19, <1>20 DEF RunStep

-----------------------------------------------------------------------------
\* What a stream makes of an event of pydantic_ai.
LEMMA NumberedFew ==
  ASSUME NEW n \in Nat, NEW k, NEW l
  PROVE  /\ Numbered(<<>>, n) = <<>>
         /\ Numbered(<<k>>, n) = <<Event(k, n)>>
         /\ Numbered(<<k, l>>, n) = <<Event(k, n), Event(l, n + 1)>>
<1>1. Numbered(<<>>, n) = <<>>
  BY DEF Numbered
<1>2. Numbered(<<k>>, n) = <<Event(k, n)>>
  BY DEF Numbered, Event
<1>3. Numbered(<<k, l>>, n) = <<Event(k, n), Event(l, n + 1)>>
  <2> DEFINE f == Numbered(<<k, l>>, n)
  <2>1. f = [i \in 1 .. 2 |-> Event(<<k, l>>[i], n + i - 1)]
    BY DEF Numbered, Event
  <2>2. f[1] = Event(k, n) /\ f[2] = Event(l, n + 1)
    BY <2>1
  <2> QED
    BY <2>1, <2>2
<1> QED
  BY <1>1, <1>2, <1>3

LEMMA JoinedFew ==
  ASSUME NEW S, NEW e \in Seq(S), NEW a \in S, NEW b \in S
  PROVE  e \o <<>> = e /\ e \o <<a>> = Append(e, a) /\ e \o <<a, b>> = Append(Append(e, a), b)
OBVIOUS

LEMMA PairJoined ==
  ASSUME NEW a, NEW b
  PROVE  <<a>> \o <<b>> = <<a, b>>
<1> DEFINE f == <<a>> \o <<b>>
           g == <<a, b>>
<1>1. a \in {a, b} /\ b \in {a, b}
  OBVIOUS
<1>2. <<a>> \in Seq({a, b}) /\ <<b>> \in Seq({a, b}) /\ Len(<<a>>) = 1 /\ Len(<<b>>) = 1
  BY <1>1
<1>3. f \in Seq({a, b}) /\ Len(f) = 2
  BY <1>2
<1>4. f[1] = a /\ f[2] = b
  BY <1>2
<1>5. g \in Seq({a, b}) /\ Len(g) = 2 /\ g[1] = a /\ g[2] = b
  BY <1>1
<1> HIDE DEF f, g
<1>6. f = g
  BY <1>3, <1>4, <1>5
<1> QED
  BY <1>6 DEF f, g

LEMMA CourseTranslates ==
  ASSUME NEW e, NEW n, NEW m \in Streams, Course(e, n), Unended(e),
         ~m.expectRequest => Announced(e, Len(e)), NEW event \in Upstreams
  PROVE  LET events == Numbered(Translated(m, event), n)
             f == e \o events
         IN /\ events \in Seq(Events) /\ Len(events) \in Nat
            /\ Course(f, n + Len(events))
            /\ event # "return" /\ (event \in {"text", "part"} \/ ~m.expectRequest) => Announced(f, Len(f))
            /\ event \notin {"result", "error"} => Unended(f)
            /\ event # "result" => \A i \in 1 .. Len(f) : f[i].kind # "run_completed"
<1> DEFINE x == Announced(e, Len(e))
           started == "model_request_started"
           Kinds == {"model_request_started", "text_delta", "tool_call", "tool_result",
                     "usage_update", "run_completed", "run_failed"}
           Free(f) == \A i \in 1 .. Len(f) : f[i].kind # "run_completed"
           Good(events) ==
             /\ events \in Seq(Events) /\ Len(events) \in Nat
             /\ Course(e \o events, n + Len(events))
             /\ event # "return" /\ (event \in {"text", "part"} \/ ~m.expectRequest)
                  => Announced(e \o events, Len(e \o events))
             /\ event \notin {"result", "error"} => Unended(e \o events)
             /\ event # "result" => Free(e \o events)
<1>1. m.expectRequest \in BOOLEAN /\ e \in Seq(Events) /\ n \in Nat
  BY DEF Course, Streams
<1>2. Free(e)
  BY DEF Unended, Terminal
<1>3. ASSUME NEW k \in Kinds, NEW i \in Nat
      PROVE  Event(k, i) \in Events
  BY DEF Event, Events
<1>4. ASSUME NEW k \in Kinds, k = "text_delta" => x, k # "run_completed",
             k \in Terminal => event \in {"result", "error"},
             event # "return" /\ (event \in {"text", "part"} \/ ~m.expectRequest)
               => k = started \/ (k # "tool_result" /\ x)
      PROVE  Good(<<Event(k, n)>>)
  <2> DEFINE f == Append(e, Event(k, n))
  <2>1. Event(k, n) \in Events /\ e \o <<Event(k, n)>> = f
    BY <1>1, <1>3, JoinedFew
  <2>f. f = Append(e, Event(k, n))
    OBVIOUS
  <2> HIDE DEF f
  <2>2. /\ Course(f, n + 1)
        /\ k = started \/ (k # "tool_result" /\ x) => Announced(f, Len(f))
        /\ k \notin Terminal => Unended(f)
        /\ Free(f)
    <3>1. Follows(e, n, k, f)
      BY <1>4, <2>f DEF Follows
    <3>2. Followed(e, n, k, f)
      BY <3>1, CourseGoesOn
    <3> QED
      BY <1>4, <3>2 DEF Followed
  <2>3. <<Event(k, n)>> \in Seq(Events) /\ Len(<<Event(k, n)>>) = 1
    BY <2>1
  <2> HIDE DEF x, started, f, Free
  <2> QED
    BY <1>4, <2>1, <2>2, <2>3
<1>5. ASSUME NEW k \in {"model_request_started", "usage_update"},
             NEW l \in {"text_delta", "run_completed"},
             l = "text_delta" => k = started /\ event # "result",
             l = "run_completed" => k = "usage_update" /\ event = "result"
      PROVE  Good(<<Event(k, n), Event(l, n + 1)>>)
  <2> DEFINE e1 == Append(e, Event(k, n))
             e2 == Append(e1, Event(l, n + 1))
  <2>1. Event(k, n) \in Events /\ Event(l, n + 1) \in Events
        /\ e \o <<Event(k, n), Event(l, n + 1)>> = e2
    BY <1>1, <1>3, JoinedFew
  <2>e. e1 = Append(e, Event(k, n)) /\ e2 = Append(e1, Event(l, n + 1))
    OBVIOUS
  <2> HIDE DEF e1, e2
  <2>2. /\ Course(e1, n + 1) /\ Unended(e1) /\ e1[Len(e1)].kind = k
        /\ k = started \/ x => Announced(e1, Len(e1))
    <3>1. Follows(e, n, k, e1)
      BY <2>e DEF Follows
    <3>2. Followed(e, n, k, e1)
      BY <3>1, CourseGoesOn
    <3> QED
      BY <3>2 DEF Followed, Terminal
  <2>3. l = "text_delta" => Announced(e1, Len(e1))
    BY <1>5, <2>2
  <2>4. l = "run_completed" => e1[Len(e1)].kind = "usage_update"
    BY <1>5, <2>2
  <2>5. /\ Course(e2, n + 1 + 1)
        /\ Announced(e1, Len(e1)) => Announced(e2, Len(e2))
        /\ l \notin Terminal => Unended(e2)
        /\ l # "run_completed" => Free(e2)
    <3>1. Follows(e1, n + 1, l, e2)
      BY <2>2, <2>3, <2>4, <2>e DEF Follows
    <3>2. Followed(e1, n + 1, l, e2)
      BY <3>1, CourseGoesOn
    <3> QED
      BY <3>2 DEF Followed
  <2>6. <<Event(k, n), Event(l, n + 1)>> \in Seq(Events) /\ Len(<<Event(k, n), Event(l, n + 1)>>) = 2
        /\ n + 1 + 1 = n + 2
    BY <1>1, <2>1
  <2>7. (event \notin {"result", "error"} => l \notin Terminal) /\ (event # "result" => l # "run_completed")
    BY <1>5 DEF Terminal
  <2>8. event # "return" /\ (event \in {"text", "part"} \/ ~m.expectRequest) => Announced(e1, Len(e1))
    BY <1>5, <2>2
  <2> HIDE DEF x, started, Free
  <2> QED
    BY <2>1, <2>5, <2>6, <2>7, <2>8
<1>6. ASSUME ~m.expectRequest \/ event \notin {"text", "part"} PROVE Good(<<>>)
  <2>1. e \o <<>> = e /\ <<>> \in Seq(Events) /\ Len(<<>>) = 0 /\ n + 0 = n
    BY <1>1
  <2> HIDE DEF Free
  <2> QED
    BY <1>2, <1>6, <2>1
<1> HIDE DEF Good
<1>7. Good(Numbered(Translated(m, event), n))
  <2>1. CASE event = "text" /\ m.expectRequest
    <3>1. Translated(m, event) = <<"model_request_started">> \o <<"text_delta">>
      BY <2>1 DEF Translated
    <3>2. <<"model_request_started">> \o <<"text_delta">> = <<"model_request_started", "text_delta">>
      BY PairJoined
    <3> QED
      BY <1>1, <1>5, <2>1, <3>1, <3>2, NumberedFew
  <2>2. CASE event = "text" /\ ~m.expectRequest
    <3>1. Translated(m, event) = <<"text_delta">>
      BY <2>2 DEF Translated
    <3> QED
      BY <1>1, <1>4, <2>2, <3>1, NumberedFew DEF Terminal
  <2>3. CASE event = "part" /\ m.expectRequest
    <3>1. Translated(m, event) = <<"model_request_started">>
      BY <2>3 DEF Translated
    <3> QED
      BY <1>1, <1>4, <2>3, <3>1, NumberedFew DEF Terminal
  <2>4. CASE event = "part" /\ ~m.expectRequest
    <3>1. Translated(m, event) = <<>>
      BY <2>4 DEF Translated
    <3> QED
      BY <1>1, <1>6, <2>4, <3>1, NumberedFew
  <2>5. CASE event = "call"
    <3>1. Translated(m, event) = <<"tool_call">>
      BY <2>5 DEF Translated
    <3> QED
      BY <1>1, <1>4, <2>5, <3>1, NumberedFew DEF Terminal
  <2>6. CASE event = "return"
    <3>1. Translated(m, event) = <<"tool_result">>
      BY <2>6 DEF Translated
    <3> QED
      BY <1>1, <1>4, <2>6, <3>1, NumberedFew DEF Terminal
  <2>7. CASE event = "result"
    <3>1. Translated(m, event) = <<"usage_update", "run_completed">>
      BY <2>7 DEF Translated
    <3> QED
      BY <1>1, <1>5, <2>7, <3>1, NumberedFew
  <2>8. CASE event = "error"
    <3>1. Translated(m, event) = <<"run_failed">>
      BY <2>8 DEF Translated
    <3> QED
      BY <1>1, <1>4, <2>8, <3>1, NumberedFew DEF Terminal
  <2> QED
    BY <1>1, <2>1, <2>2, <2>3, <2>4, <2>5, <2>6, <2>7, <2>8 DEF Upstreams
<1> QED
  BY <1>7 DEF Good
\* What the consumer does: it takes a pending event, or the next of pydantic_ai.
LEMMA ReadFlows ==
  ASSUME Shapes, FlowInv, NEW r \in Runs, Read(r)
  PROVE  FlowInv'
<1> DEFINE s == stage[r]
           o == outcome[r]
           u == upstream[r]
           m == stream[r]
           e == got[r]
           even == previous[r] = used[r]
<1>1. Flow(r, s, o, u, m, e, even)
  BY DEF FlowInv
<1>2. /\ e \in Seq(Events) /\ m.pending \in Seq(Events) /\ u \in Seq(Upstreams) /\ m.sequence \in Nat
      /\ m \in Streams /\ m.complete \in BOOLEAN /\ m.failed \in BOOLEAN /\ m.expectRequest \in BOOLEAN
  BY <1>1 DEF Flow, Streams
<1>3. UNCHANGED <<stage, outcome, used, previous>> /\ m.consumer = "reading"
  BY DEF Read, Deliver, Translate, TranslateFails, buildVars, ledgerVars, Opened
<1>4. ASSUME NEW n, NEW d, NEW w, stream' = [stream EXCEPT ![r] = n], got' = [got EXCEPT ![r] = d],
             upstream' = [upstream EXCEPT ![r] = w], Flow(r, s, o, w, n, d, even)
      PROVE  FlowInv'
  <2>1. stream'[r] = n /\ got'[r] = d /\ upstream'[r] = w
    BY <1>4 DEF Shapes
  <2>2. Own(r)
    BY <1>3, <1>4, OwnBy DEF Changes
  <2> QED
    BY <1>3, <1>4, <2>1, <2>2, OwnKeeps
<1>5. got = [got EXCEPT ![r] = e] /\ upstream = [upstream EXCEPT ![r] = u]
  BY DEF Shapes
<1>6. CASE Deliver(r)
  <2> DEFINE p == m.pending
             d == Append(e, Head(p))
             n == [m EXCEPT !.pending = Tail(p)]
  <2>1. p # <<>> /\ got' = [got EXCEPT ![r] = d] /\ stream' = [stream EXCEPT ![r] = n] /\ upstream' = upstream
    BY <1>6 DEF Deliver
  <2>2. d \o Tail(p) = e \o p /\ d \in Seq(Events) /\ Tail(p) \in Seq(Events)
    <3>1. p # <<>> /\ p \in Seq(Events) /\ e \in Seq(Events)
      BY <1>2, <2>1
    <3> HIDE DEF e, p
    <3> QED
      BY <3>1, Handed
  <2>3. /\ n \in Streams /\ n.pending = Tail(p) /\ n.sequence = m.sequence /\ n.expectRequest = m.expectRequest
        /\ n.complete = m.complete /\ n.failed = m.failed /\ n.consumer = m.consumer
    BY <1>2, <2>2 DEF Streams
  <2> HIDE DEF s, o, u, m, e, even, p, d, n
  <2>4. Flow(r, s, o, u, m, e, even) /\ p = m.pending
    BY <1>1 DEF p
  <2>5. Flow(r, s, o, u, n, d, even)
    BY <2>2, <2>3, <2>4 DEF Flow
  <2> QED
    BY <1>4, <1>5, <2>1, <2>5
<1>7. ASSUME NEW event, u # <<>>, event = Head(u), m.pending = <<>>
      PROVE  /\ event \in Upstreams /\ Tail(u) \in Seq(Upstreams) /\ e \o <<>> = e
             /\ Course(e, m.sequence) /\ Unended(e) /\ ~m.complete /\ ~m.failed
             /\ ~m.expectRequest => Announced(e, Len(e))
             /\ \A i \in 1 .. Len(Tail(u)) : Tail(u)[i] \in {"result", "error"} => s = "over" /\ i = Len(Tail(u)) /\ o = Tail(u)[i]
             /\ event \in {"result", "error"} => s = "over" /\ Tail(u) = <<>> /\ o = event
             /\ r \in Streamed
  <2> DEFINE t == Tail(u)
  <2>1. /\ Len(u) \in Nat /\ Len(u) > 0 /\ event = u[1] /\ t \in Seq(Upstreams)
        /\ Len(t) = Len(u) - 1 /\ \A i \in 1 .. Len(u) - 1 : t[i] = u[i + 1]
    BY <1>2, <1>7
  <2>2. event \in Upstreams
    BY <1>2, <2>1
  <2>3. ~m.complete /\ ~m.failed /\ r \in Streamed
    BY <1>1, <1>2, <1>7 DEF Flow
  <2>4. e \o m.pending = e /\ e \o <<>> = e
    BY <1>2, <1>7, JoinedFew
  <2>5. Course(e, m.sequence) /\ Unended(e) /\ (~m.expectRequest => Announced(e, Len(e)))
    BY <1>1, <2>3, <2>4 DEF Flow
  <2>6. \A i \in 1 .. Len(u) : u[i] \in {"result", "error"} => s = "over" /\ i = Len(u) /\ o = u[i]
    BY <1>1 DEF Flow
  <2> HIDE DEF s, o, u, t
  <2>7. ASSUME NEW i \in 1 .. Len(t), t[i] \in {"result", "error"}
        PROVE  s = "over" /\ i = Len(t) /\ o = t[i]
    <3>1. i + 1 \in 1 .. Len(u) /\ t[i] = u[i + 1]
      BY <2>1
    <3> QED
      BY <2>1, <2>6, <2>7, <3>1
  <2>8. event \in {"result", "error"} => s = "over" /\ t = <<>> /\ o = event
    <3>1. 1 \in 1 .. Len(u)
      BY <2>1
    <3>2. event \in {"result", "error"} => s = "over" /\ 1 = Len(u) /\ o = event
      BY <2>1, <2>6, <3>1
    <3>3. Len(u) = 1 => t = <<>>
      BY <2>1
    <3> QED
      BY <3>2, <3>3
  <2> QED
    BY <2>2, <2>1, <2>3, <2>4, <2>5, <2>7, <2>8 DEF t
<1>8. CASE Translate(r)
  <2> DEFINE event == Head(u)
             events == Numbered(Translated(m, event), m.sequence)
             d == IF events = <<>> THEN e ELSE Append(e, Head(events))
             p == IF events = <<>> THEN <<>> ELSE Tail(events)
             again == event = "return" \/ (m.expectRequest /\ event \notin {"text", "part"})
             n == [m EXCEPT !.pending = p, !.sequence = @ + Len(events), !.expectRequest = again,
                            !.complete = @ \/ event = "result", !.failed = @ \/ event = "error"]
  <2>1. /\ u # <<>> /\ m.pending = <<>> /\ upstream' = [upstream EXCEPT ![r] = Tail(u)]
        /\ got' = [got EXCEPT ![r] = d] /\ stream' = [stream EXCEPT ![r] = n]
    <3>1. u # <<>> /\ m.pending = <<>> /\ upstream' = [upstream EXCEPT ![r] = Tail(u)]
      BY <1>8 DEF Translate
    <3>2. got' = [got EXCEPT ![r] = d]
      BY <1>5, <1>8 DEF Translate
    <3>3. stream' = [stream EXCEPT ![r] = n]
      BY <1>8 DEF Translate, Shapes
    <3> QED
      BY <3>1, <3>2, <3>3
  <2>2. /\ event \in Upstreams /\ Tail(u) \in Seq(Upstreams) /\ e \o <<>> = e
        /\ Course(e, m.sequence) /\ Unended(e) /\ ~m.complete /\ ~m.failed
        /\ ~m.expectRequest => Announced(e, Len(e))
        /\ \A i \in 1 .. Len(Tail(u)) : Tail(u)[i] \in {"result", "error"} => s = "over" /\ i = Len(Tail(u)) /\ o = Tail(u)[i]
        /\ event \in {"result", "error"} => s = "over" /\ Tail(u) = <<>> /\ o = event
        /\ r \in Streamed
    BY <1>7, <2>1
  <2>3. /\ events \in Seq(Events) /\ Len(events) \in Nat
        /\ Course(e \o events, m.sequence + Len(events))
        /\ event # "return" /\ (event \in {"text", "part"} \/ ~m.expectRequest) => Announced(e \o events, Len(e \o events))
        /\ event \notin {"result", "error"} => Unended(e \o events)
        /\ event # "result" => \A i \in 1 .. Len(e \o events) : (e \o events)[i].kind # "run_completed"
    BY <1>2, <2>2, CourseTranslates
  <2>4. d \o p = e \o events /\ d \in Seq(Events) /\ p \in Seq(Events)
    <3>1. CASE events = <<>>
      <4>1. d = e /\ p = <<>> /\ <<>> \in Seq(Events)
        BY <3>1
      <4> HIDE DEF events, e, d, p
      <4> QED
        BY <1>2, <3>1, <4>1
    <3>2. CASE events # <<>>
      <4>1. d = Append(e, Head(events)) /\ p = Tail(events)
        BY <3>2
      <4>2. e \in Seq(Events) /\ events \in Seq(Events)
        BY <1>2, <2>3
      <4> HIDE DEF events, e, d, p
      <4> QED
        BY ONLY <3>2, <4>1, <4>2, Handed
    <3> QED
      BY <3>1, <3>2
  <2>5. /\ n \in Streams /\ n.pending = p /\ n.sequence = m.sequence + Len(events) /\ n.expectRequest = again
        /\ n.complete = (event = "result") /\ n.failed = (event = "error") /\ n.consumer = "reading"
    <3>1. /\ again \in BOOLEAN /\ m.sequence + Len(events) \in Nat
          /\ (m.complete \/ event = "result") = (event = "result")
          /\ (m.failed \/ event = "error") = (event = "error")
      BY <1>2, <2>2, <2>3
    <3> HIDE DEF again, p, events, event
    <3>2. n = [m EXCEPT !.pending = p, !.sequence = m.sequence + Len(events), !.expectRequest = again,
                        !.complete = (event = "result"), !.failed = (event = "error")]
      BY <3>1
    <3> QED
      BY <1>2, <1>3, <2>4, <3>1, <3>2 DEF Streams
  <2>6. ~again => event # "return" /\ (event \in {"text", "part"} \/ ~m.expectRequest)
    OBVIOUS
  <2>7. ~n.complete /\ ~n.failed => Unended(d \o n.pending)
    BY <2>3, <2>4, <2>5
  <2>8. \A i \in 1 .. Len(d \o n.pending) : (d \o n.pending)[i].kind = "run_completed" => n.complete
    BY <2>3, <2>4, <2>5
  <2>9. Course(d \o n.pending, n.sequence)
        /\ (~n.expectRequest => Announced(d \o n.pending, Len(d \o n.pending)))
    BY <2>3, <2>4, <2>5, <2>6
  <2>10. /\ n.complete \/ n.failed => s = "over" /\ Tail(u) = <<>>
         /\ n.complete => o = "result"
    BY <2>2, <2>5
  <2>11. /\ s \in Ending => o \in {"result", "error", "cancelled"}
         /\ r \in Streamed => o # "cancelled"
         /\ s \in {"settling", "over"} => even
    BY <1>1, <1>3 DEF Flow
  <2> DEFINE w == Tail(u)
  <2>12. /\ w \in Seq(Upstreams) /\ upstream' = [upstream EXCEPT ![r] = w]
         /\ \A i \in 1 .. Len(w) : w[i] \in {"result", "error"} => s = "over" /\ i = Len(w) /\ o = w[i]
         /\ n.complete \/ n.failed => s = "over" /\ w = <<>>
    BY <2>1, <2>2, <2>10
  <2> HIDE DEF s, o, u, m, e, even, event, events, d, p, again, n, w
  <2>13. Flow(r, s, o, w, n, d, even)
    BY <2>2, <2>4, <2>5, <2>7, <2>8, <2>9, <2>10, <2>11, <2>12 DEF Flow
  <2> QED
    BY <1>4, <2>1, <2>12, <2>13
<1>9. CASE TranslateFails(r)
  <2> DEFINE event == Head(u)
             w == Tail(u)
             n == [m EXCEPT !.sequence = IF event = "return" THEN @ + 1 ELSE @,
                            !.expectRequest = @ \/ event = "return"]
  <2>1. /\ u # <<>> /\ m.pending = <<>> /\ upstream' = [upstream EXCEPT ![r] = w]
        /\ got' = got /\ stream' = [stream EXCEPT ![r] = n]
    BY <1>9 DEF TranslateFails, Shapes
  <2>2. /\ w \in Seq(Upstreams) /\ e \o <<>> = e
        /\ Course(e, m.sequence) /\ Unended(e) /\ ~m.complete /\ ~m.failed
        /\ ~m.expectRequest => Announced(e, Len(e))
        /\ \A i \in 1 .. Len(w) : w[i] \in {"result", "error"} => s = "over" /\ i = Len(w) /\ o = w[i]
        /\ r \in Streamed
    BY <1>7, <2>1
  <2>3. n.expectRequest \in BOOLEAN /\ n.sequence \in Nat /\ n.sequence >= m.sequence
        /\ (~n.expectRequest => ~m.expectRequest)
    BY <1>2 DEF Streams
  <2>4. /\ n \in Streams /\ n.pending = <<>> /\ n.consumer = "reading"
        /\ n.complete = FALSE /\ n.failed = FALSE
    BY <1>2, <1>3, <2>1, <2>2, <2>3 DEF Streams
  <2>5. Course(e, n.sequence)
    BY <1>2, <2>2, <2>3, CourseSkips
  <2>6. \A i \in 1 .. Len(e) : e[i].kind # "run_completed"
    BY <2>2 DEF Unended, Terminal
  <2>7. /\ s \in Ending => o \in {"result", "error", "cancelled"}
        /\ r \in Streamed => o # "cancelled"
        /\ s \in {"settling", "over"} => even
    BY <1>1, <1>3 DEF Flow
  <2> HIDE DEF s, o, u, m, e, even, event, n, w
  <2>8. Flow(r, s, o, w, n, e, even)
    BY <1>2, <2>2, <2>3, <2>4, <2>5, <2>6, <2>7 DEF Flow
  <2> QED
    BY <1>4, <1>5, <2>1, <2>8
<1> QED
  BY <1>6, <1>8, <1>9 DEF Read

\* The consumer leaves.
LEMMA LeaveFlows ==
  ASSUME Shapes, FlowInv, NEW r \in Runs, Leave(r)
  PROVE  FlowInv'
<1> DEFINE s == stage[r]
           o == outcome[r]
           u == upstream[r]
           m == stream[r]
           e == got[r]
           even == previous[r] = used[r]
           n == [m EXCEPT !.consumer = "left"]
<1>1. Flow(r, s, o, u, m, e, even)
  BY DEF FlowInv
<1>2. /\ stream' = [stream EXCEPT ![r] = n] /\ upstream' = [upstream EXCEPT ![r] = <<>>] /\ got' = got
      /\ r \in Streamed
  BY DEF Leave, Opened
<1>3. stream'[r] = n /\ upstream'[r] = <<>> /\ got'[r] = e
  BY <1>2 DEF Shapes
<1>4. /\ n \in Streams /\ n.consumer = "left" /\ n.complete = m.complete /\ n.failed = m.failed
      /\ n.pending = m.pending /\ n.sequence = m.sequence /\ n.expectRequest = m.expectRequest
      /\ e \in Seq(Events) /\ <<>> \in Seq(Upstreams) /\ Len(<<>>) = 0
      /\ m.complete \in BOOLEAN /\ m.failed \in BOOLEAN
  BY <1>1 DEF Flow, Streams
<1>5. CASE Cut(r)
  <2>1. /\ Changes(r, used, used') /\ previous' = previous /\ End(r, "cancelled")
        /\ s \in Active \ {"unwinding"}
    BY <1>5, CutPaces
  <2>2. Changes(r, stage, stage') /\ stage'[r] = "unwinding"
    BY <2>1, BecomeChanges DEF End
  <2>3. Changes(r, outcome, outcome') /\ outcome'[r] = "cancelled"
    BY <2>1, OutcomeChanges DEF End
  <2>4. Own(r)
    BY <1>2, <2>1, <2>2, <2>3, OwnBy DEF Changes
  <2>5. ~m.complete /\ ~m.failed
    BY <1>1, <2>1 DEF Flow, Active
  <2> DEFINE v == previous'[r] = used'[r]
  <2> HIDE DEF s, o, u, m, e, even, n, v
  <2>6. Flow(r, "unwinding", "cancelled", <<>>, n, e, v)
    BY <1>1, <1>4, <2>5 DEF Flow, Ending
  <2> QED
    BY <1>3, <2>2, <2>3, <2>4, <2>6, OwnKeeps DEF v
<1>6. CASE s = "over" /\ UNCHANGED <<stage, used, outcome>>
           /\ IF m.complete THEN Record(r, used[r]) ELSE UNCHANGED <<previous, ledger>>
  <2>1. even
    BY <1>1, <1>6 DEF Flow
  <2>2. Changes(r, previous, previous') /\ previous'[r] = used'[r]
    BY <1>6, <2>1 DEF Record, Changes, Shapes
  <2>3. Own(r)
    BY <1>2, <1>6, <2>2, OwnBy DEF Changes
  <2>4. o \in {"result", "error", "cancelled"}
    BY <1>1, <1>6 DEF Flow, Ending
  <2> DEFINE v == previous'[r] = used'[r]
  <2> HIDE DEF s, o, u, m, e, even, n, v
  <2>5. Flow(r, s, o, <<>>, n, e, v)
    BY <1>1, <1>4, <1>6, <2>2, <2>4 DEF Flow, Ending, v
  <2> QED
    BY <1>3, <1>6, <2>3, <2>5, OwnKeeps DEF v, s, o
<1> QED
  BY <1>5, <1>6 DEF Leave

LEMMA FlowStarts ==
  ASSUME Init
  PROVE  FlowInv
<1> DEFINE first == <<[kind |-> "run_started", sequence |-> 0]>>
           m == [consumer |-> "reading", complete |-> FALSE, failed |-> FALSE,
                 expectRequest |-> TRUE, sequence |-> 1, pending |-> first]
<1>1. /\ upstream = [r \in Runs |-> <<>>] /\ stream = [r \in Runs |-> m] /\ got = [r \in Runs |-> <<>>]
      /\ used = [r \in Runs |-> Zero] /\ previous = [r \in Runs |-> Zero]
      /\ stage = [t \in Tasks |-> "new"] /\ outcome = [r \in Runs |-> "none"]
  BY DEF Init, BuildInit
<1>2. first \in Seq(Events) /\ Len(first) = 1 /\ first[1].kind = "run_started" /\ first[1].sequence = 0
  BY DEF Events
<1>3. <<>> \o first = first
  BY <1>2
<1> HIDE DEF first
<1>4. \A i \in 1 .. Len(first) : i = 1 /\ first[i].kind = "run_started" /\ first[i].sequence = 0
  BY <1>2
<1>5. Course(first, 1) /\ Unended(first)
  BY <1>2, <1>4 DEF Course, Unended, Terminal
<1>6. m \in Streams /\ m.pending = first /\ m.sequence = 1 /\ m.expectRequest = TRUE /\ m.complete = FALSE
      /\ m.failed = FALSE /\ m.consumer = "reading"
  BY <1>2 DEF Streams
<1>7. \A i \in 1 .. Len(first) : first[i].kind # "run_completed"
  BY <1>4
<1>8. <<>> \in Seq(Upstreams) /\ <<>> \in Seq(Events) /\ Len(<<>>) = 0
  OBVIOUS
<1> HIDE DEF m
<1>9. ASSUME NEW r \in Runs PROVE Flow(r, "new", "none", <<>>, m, <<>>, TRUE)
  BY <1>3, <1>5, <1>6, <1>7, <1>8 DEF Flow, Ending
<1>10. ASSUME NEW r \in Runs
       PROVE  /\ stage[r] = "new" /\ outcome[r] = "none" /\ upstream[r] = <<>> /\ stream[r] = m
              /\ got[r] = <<>> /\ previous[r] = used[r]
  BY <1>1 DEF Tasks, m
<1>11. ASSUME NEW r \in Runs
       PROVE  Flow(r, stage[r], outcome[r], upstream[r], stream[r], got[r], previous[r] = used[r])
  BY <1>9, <1>10 DEF Flow
<1> QED
  BY <1>1, <1>11 DEF FlowInv

LEMMA FlowKeeps ==
  ASSUME RoutingAssumption, AppInv, FlowInv, [Next]_vars
  PROVE  FlowInv'
<1>1. StageInv /\ Shapes /\ ThenInv
  BY DEF AppInv, RoutingInv, HookInv, Reported, FlowInv, Shapes, ThenInv
<1>2. CASE Building
  <2>1. UNCHANGED <<used, previous, outcome, upstream, stream, got>>
    BY <1>1, <1>2, BuildFrame DEF runVars, ledgerVars, streamVars, Building, Start
  <2>2. ASSUME NEW r \in Runs
        PROVE  Flow(r, stage'[r], outcome'[r], upstream'[r], stream'[r], got'[r], previous'[r] = used'[r])
    <3> DEFINE s == stage[r]
               t == stage'[r]
               o == outcome[r]
               u == upstream[r]
               m == stream[r]
               e == got[r]
               even == previous[r] = used[r]
    <3>1. Flow(r, s, o, u, m, e, even)
      BY DEF FlowInv
    <3>2. t = s \/ (s \in Idle /\ t \in Idle \cup {"selecting"})
      BY <1>1, <1>2, BuildFrame
    <3>3. t = s \/ (s \notin Ending /\ t \notin Ending /\ s \notin {"settling", "over"} /\ t \notin {"settling", "over"})
      BY <3>2 DEF Idle, Ending
    <3> HIDE DEF s, t, o, u, m, e, even
    <3>4. Flow(r, t, o, u, m, e, even)
      BY <3>1, <3>3 DEF Flow
    <3> QED
      BY <2>1, <3>4 DEF t, o, u, m, e, even
  <2> QED
    BY <2>1, <2>2 DEF FlowInv
<1>3. ASSUME NEW r \in Runs, RunStep(r) \/ Interrupt(r) PROVE FlowInv'
  <2>1. Paced(r)
    BY <1>1, <1>3, RunPaces
  <2> QED
    BY <1>1, <2>1, PacedFlows, OwnKeeps DEF Paced
<1>4. ASSUME NEW r \in Runs, Read(r) PROVE FlowInv'
  BY <1>1, <1>4, ReadFlows
<1>5. ASSUME NEW r \in Runs, Leave(r) PROVE FlowInv'
  BY <1>1, <1>5, LeaveFlows
<1>6. CASE UNCHANGED vars
  BY <1>6 DEF vars, buildVars, runVars, ledgerVars, streamVars, FlowInv
<1> QED
  BY <1>2, <1>3, <1>4, <1>5, <1>6 DEF Next, Building

LEMMA FlowHolds == Spec => []FlowInv
<1>1. Init => FlowInv
  BY FlowStarts
<1>2. AppInv /\ FlowInv /\ [Next]_vars => FlowInv'
  BY FlowKeeps, RoutingAssumption
<1> QED
  BY <1>1, <1>2, AppHolds, PTL DEF Spec

\* For any number of runs and events, with consumers that leave at any time and
\* results that cannot be converted: run_started comes first, the numbers
\* increase, text follows an announced request, a terminal event comes last, and
\* run_completed follows the final usage, which has been recorded
\* (PydanticAIStream.__anext__, _translate).
THEOREM EventsCome == Spec => []EventsInOrder
<1>1. FlowInv => EventsInOrder
  <2> SUFFICES ASSUME FlowInv, NEW r \in Runs, NEW i \in DOMAIN got[r]
      PROVE  LET e == got[r]
                 kind(j) == e[j].kind
             IN /\ kind(i) = "run_started" <=> i = 1
                /\ i > 1 => e[i - 1].sequence < e[i].sequence
                /\ kind(i) = "text_delta" =>
                     \E j \in 1 .. i - 1 : /\ kind(j) = "model_request_started"
                                           /\ \A k \in j .. i : kind(k) # "tool_result"
                /\ kind(i) \in {"run_completed", "run_failed"} => i = Len(e)
                /\ kind(i) = "run_completed" =>
                     kind(i - 1) = "usage_update" /\ outcome[r] = "result" /\ previous[r] = used[r]
    BY DEF EventsInOrder
  <2> DEFINE e == got[r]
             p == stream[r].pending
             all == e \o p
             m == stream[r]
             even == previous[r] = used[r]
  <2>1. Flow(r, stage[r], outcome[r], upstream[r], m, e, even)
    BY DEF FlowInv
  <2>2. e \in Seq(Events) /\ p \in Seq(Events) /\ i \in 1 .. Len(e) /\ Len(e) \in Nat /\ Len(p) \in Nat
    BY <2>1 DEF Flow, Streams
  <2>3. Len(all) = Len(e) + Len(p) /\ \A j \in 1 .. Len(e) : all[j] = e[j]
    <3> HIDE DEF e, p
    <3> QED
      BY <2>2
  <2>4. Course(all, m.sequence) /\ (all[i].kind = "run_completed" => m.complete)
    <3>1. i \in 1 .. Len(all)
      <4> HIDE DEF e, p, all
      <4> QED
        BY <2>2, <2>3
    <3> QED
      BY <2>1, <3>1 DEF Flow
  <2>5. m.complete => outcome[r] = "result" /\ even
    BY <2>1 DEF Flow
  <2> HIDE DEF all, e, p, m, even
  <2>6. /\ all[i].kind = "run_started" <=> i = 1
        /\ i > 1 => all[i - 1].sequence < all[i].sequence
        /\ all[i].kind = "text_delta" => Announced(all, i)
        /\ all[i].kind \in Terminal => i = Len(all)
        /\ all[i].kind = "run_completed" => i > 1 /\ all[i - 1].kind = "usage_update"
    BY <2>2, <2>3, <2>4 DEF Course
  <2>7. all[i] = e[i] /\ (i > 1 => all[i - 1] = e[i - 1])
    BY <2>2, <2>3
  <2>8. e[i].kind = "text_delta" =>
          \E j \in 1 .. i - 1 : /\ e[j].kind = "model_request_started"
                                /\ \A k \in j .. i : e[k].kind # "tool_result"
    <3> SUFFICES ASSUME e[i].kind = "text_delta"
                 PROVE  \E j \in 1 .. i - 1 : /\ e[j].kind = "model_request_started"
                                              /\ \A k \in j .. i : e[k].kind # "tool_result"
      OBVIOUS
    <3>1. PICK j \in 1 .. i : /\ all[j].kind = "model_request_started"
                              /\ \A k \in j .. i : all[k].kind # "tool_result"
      BY <2>6, <2>7 DEF Announced
    <3>2. \A k \in 1 .. i : all[k] = e[k]
      BY <2>2, <2>3
    <3>3. e[j].kind = "model_request_started" /\ j # i
      BY <3>1, <3>2
    <3>4. j \in 1 .. i - 1
      BY <2>2, <3>1, <3>3
    <3>5. \A k \in j .. i : e[k].kind # "tool_result"
      BY <3>1, <3>2
    <3> QED
      BY <3>3, <3>4, <3>5
  <2>9. e[i].kind \in {"run_completed", "run_failed"} => i = Len(e)
    BY <2>2, <2>3, <2>6, <2>7 DEF Terminal
  <2> QED
    BY <2>4, <2>5, <2>6, <2>7, <2>8, <2>9 DEF e, even
<1> QED
  BY <1>1, FlowHolds, PTL
-----------------------------------------------------------------------------
\* Sums over finite sets, as MapThenSumSet takes them: the element that is
\* chosen first, and the sum over the others.
First(s) == CHOOSE x \in s : TRUE

Sums(it, u, k, S) ==
  it = [s \in SUBSET S |-> IF s = {} THEN 0 ELSE u[First(s)][k] + it[s \ {First(s)}]]

Tally(u, k, S) == (CHOOSE it : Sums(it, u, k, S))[S]

\* A set of natural numbers has a least element, and a set of subsets has one
\* that is left when anything is taken from it: induction without operators.
LEMMA LeastNumber ==
  ASSUME NEW I \in SUBSET Nat, I # {}
  PROVE  \E m \in I : \A y \in I : m <= y
<1> DEFINE R == {p \in Nat \X Nat : p[1] < p[2]}
<1>1. R = OpToRel(<, Nat)
  BY DEF OpToRel
<1>2. IsWellFoundedOn(R, Nat)
  BY NatLessThanWellFounded, <1>1
<1>3. PICK m \in I : \A y \in I : <<y, m>> \notin R
  <2> HIDE DEF R
  <2> QED
    BY <1>2, WFMin
<1>4. ASSUME NEW y \in I PROVE m <= y
  <2>1. <<y, m>> \in Nat \X Nat /\ <<y, m>> \notin R
    BY <1>3
  <2> QED
    BY <2>1
<1> QED
  BY <1>4

LEMMA SmallestSet ==
  ASSUME NEW S, IsFiniteSet(S), NEW B \in SUBSET (SUBSET S), B # {}
  PROVE  \E s \in B : \A x \in s : s \ {x} \notin B
<1> DEFINE I == {Cardinality(s) : s \in B}
<1>1. \A s \in B : IsFiniteSet(s) /\ Cardinality(s) \in Nat
  BY FS_Subset, FS_CardinalityType
<1>2. I \subseteq Nat /\ I # {}
  BY <1>1
<1>3. PICK m \in I : \A y \in I : m <= y
  <2> HIDE DEF I
  <2> QED
    BY <1>2, LeastNumber
<1>4. PICK s \in B : Cardinality(s) = m
  OBVIOUS
<1>5. ASSUME NEW x \in s, s \ {x} \in B PROVE FALSE
  <2>1. Cardinality(s \ {x}) = Cardinality(s) - 1
    BY <1>1, FS_RemoveElement
  <2>2. m <= Cardinality(s \ {x})
    BY <1>3, <1>5
  <2> QED
    BY <1>1, <1>4, <2>1, <2>2
<1> QED
  BY <1>5

LEMMA ChosenIn ==
  ASSUME NEW s, s # {}
  PROVE  First(s) \in s
BY DEF First

\* The recursion defines a function, by steps of one element more.
LEMMA SumsExist ==
  ASSUME NEW S, IsFiniteSet(S), NEW u, NEW k
  PROVE  \E it : Sums(it, u, k, S)
<1> DEFINE D(n) == {s \in SUBSET S : Cardinality(s) <= n}
           Step(it, s) == IF s = {} THEN 0 ELSE u[First(s)][k] + it[s \ {First(s)}]
           I == {n \in Nat : ~ \E it : it = [s \in D(n) |-> Step(it, s)]}
<1>1. \A s \in SUBSET S : IsFiniteSet(s) /\ Cardinality(s) \in Nat /\ Cardinality(s) <= Cardinality(S)
  BY FS_Subset, FS_CardinalityType
<1>2. Cardinality(S) \in Nat
  BY FS_CardinalityType
<1>3. 0 \notin I
  <2>1. \A s \in D(0) : s = {}
    BY <1>1, FS_EmptySet
  <2> DEFINE it == [s \in D(0) |-> 0]
  <2>2. it = [s \in D(0) |-> Step(it, s)]
    BY <2>1
  <2> QED
    BY <2>2
<1>4. ASSUME NEW n \in Nat, n \notin I PROVE n + 1 \notin I
  <2>1. PICK it : it = [s \in D(n) |-> Step(it, s)]
    BY <1>4
  <2> DEFINE new == [s \in D(n + 1) |-> IF s \in D(n) THEN it[s] ELSE Step(it, s)]
  <2>2. ASSUME NEW s \in D(n + 1) PROVE new[s] = Step(new, s)
    <3>1. CASE s = {}
      <4>1. s \in D(n)
        BY <1>4, <3>1, FS_EmptySet
      <4>2. it[s] = 0
        BY <2>1, <3>1, <4>1
      <4> QED
        BY <3>1, <4>1, <4>2
    <3>2. CASE s # {}
      <4> DEFINE t == s \ {First(s)}
      <4>1. First(s) \in s
        BY <3>2, ChosenIn
      <4>2. t \in SUBSET S /\ Cardinality(t) = Cardinality(s) - 1
        BY <1>1, <4>1, FS_RemoveElement
      <4>3. t \in D(n) /\ t \in D(n + 1)
        BY <1>1, <1>4, <4>2
      <4>4. new[t] = it[t]
        BY <4>3
      <4>5. new[s] = Step(it, s)
        BY <2>1
      <4> QED
        BY <3>2, <4>4, <4>5
    <3> QED
      BY <3>1, <3>2
  <2>3. new = [s \in D(n + 1) |-> Step(new, s)]
    BY <2>2
  <2> QED
    BY <2>3
<1>5. I = {}
  <2> SUFFICES ASSUME I # {} PROVE FALSE
    OBVIOUS
  <2>1. PICK m \in I : \A y \in I : m <= y
    <3>1. I \in SUBSET Nat /\ I # {}
      OBVIOUS
    <3> HIDE DEF I
    <3> QED
      BY <3>1, LeastNumber
  <2>2. m \in Nat /\ m # 0
    BY <1>3
  <2>3. m - 1 \in Nat /\ m - 1 + 1 = m
    BY <2>2
  <2>4. m - 1 \notin I
    <3> HIDE DEF I
    <3> QED
      BY <2>1, <2>2
  <2> HIDE DEF I
  <2>5. m - 1 + 1 \notin I
    BY <1>4, <2>3, <2>4
  <2> QED
    BY <2>1, <2>3, <2>5
<1>6. D(Cardinality(S)) = SUBSET S
  BY <1>1
<1>7. Cardinality(S) \notin I
  BY <1>5
<1>8. \E it : it = [s \in D(Cardinality(S)) |-> Step(it, s)]
  BY <1>2, <1>7
<1> QED
  BY <1>6, <1>8 DEF Sums

LEMMA SumStep ==
  ASSUME NEW S, NEW u, NEW k, NEW it, Sums(it, u, k, S), NEW s \in SUBSET S
  PROVE  it[s] = IF s = {} THEN 0 ELSE u[First(s)][k] + it[s \ {First(s)}]
<1>1. it = [z \in SUBSET S |-> IF z = {} THEN 0 ELSE u[First(z)][k] + it[z \ {First(z)}]]
  BY DEF Sums
<1> DEFINE Value(z) == IF z = {} THEN 0 ELSE u[First(z)][k] + it[z \ {First(z)}]
<1>2. it = [z \in SUBSET S |-> Value(z)]
  BY <1>1
<1>3. it[s] = Value(s)
  <2> HIDE DEF Value
  <2> QED
    BY <1>2
<1> QED
  BY <1>3

LEMMA SumIsNatural ==
  ASSUME NEW S, IsFiniteSet(S), NEW u, NEW k, \A x \in S : u[x][k] \in Nat,
         NEW it, Sums(it, u, k, S), NEW s \in SUBSET S
  PROVE  it[s] \in Nat
<1> DEFINE B == {z \in SUBSET S : it[z] \notin Nat}
<1>1. B = {}
  <2> SUFFICES ASSUME B # {} PROVE FALSE
    OBVIOUS
  <2>1. PICK z \in B : \A x \in z : z \ {x} \notin B
    <3>1. B \in SUBSET (SUBSET S) /\ B # {}
      OBVIOUS
    <3> HIDE DEF B
    <3> QED
      BY <3>1, SmallestSet
  <2>2. z # {}
    <3>1. it[{}] = 0
      BY SumStep
    <3>2. it[z] \notin Nat
      OBVIOUS
    <3> HIDE DEF B
    <3> QED
      BY <3>1, <3>2
  <2>3. First(z) \in z /\ u[First(z)][k] \in Nat
    BY <2>2, ChosenIn
  <2>4. it[z \ {First(z)}] \in Nat
    BY <2>1, <2>3
  <2>5. it[z] = u[First(z)][k] + it[z \ {First(z)}]
    BY <2>2, SumStep
  <2> QED
    BY <2>3, <2>4, <2>5
<1> QED
  BY <1>1

\* A sum begins with any of its elements.
LEMMA SumPicks ==
  ASSUME NEW S, IsFiniteSet(S), NEW u, NEW k, \A x \in S : u[x][k] \in Nat,
         NEW it, Sums(it, u, k, S), NEW s \in SUBSET S, NEW x \in s
  PROVE  it[s] = u[x][k] + it[s \ {x}]
<1> DEFINE B == {z \in SUBSET S : \E y \in z : it[z] # u[y][k] + it[z \ {y}]}
<1>1. B = {}
  <2> SUFFICES ASSUME B # {} PROVE FALSE
    OBVIOUS
  <2>1. PICK z \in B : \A y \in z : z \ {y} \notin B
    <3>1. B \in SUBSET (SUBSET S) /\ B # {}
      OBVIOUS
    <3> HIDE DEF B
    <3> QED
      BY <3>1, SmallestSet
  <2>2. PICK y \in z : it[z] # u[y][k] + it[z \ {y}]
    OBVIOUS
  <2> DEFINE c == First(z)
  <2>3. c \in z
    BY ChosenIn
  <2> HIDE DEF c
  <2>4. it[z] = u[c][k] + it[z \ {c}]
    BY SumStep DEF c
  <2>5. c # y
    BY <2>2, <2>4
  <2>6. it[z \ {c}] = u[y][k] + it[(z \ {c}) \ {y}]
    BY <2>1, <2>2, <2>3, <2>5
  <2>7. it[z \ {y}] = u[c][k] + it[(z \ {y}) \ {c}]
    BY <2>1, <2>2, <2>3, <2>5
  <2> DEFINE rest == it[(z \ {c}) \ {y}]
  <2>8. it[z \ {y}] = u[c][k] + rest
    <3>1. (z \ {y}) \ {c} = (z \ {c}) \ {y}
      OBVIOUS
    <3> QED
      BY <2>7, <3>1
  <2>9. u[c][k] \in Nat /\ u[y][k] \in Nat
    BY <2>2, <2>3
  <2>10. rest \in Nat
    <3>1. (z \ {c}) \ {y} \in SUBSET S
      OBVIOUS
    <3> QED
      BY <3>1, SumIsNatural
  <2>11. it[z \ {c}] = u[y][k] + rest
    BY <2>6
  <2> HIDE DEF B, rest
  <2> QED
    BY <2>2, <2>4, <2>8, <2>9, <2>10, <2>11
<1> QED
  BY <1>1

\* Multiples of a natural number: of one, of one more, and of a sum.
LEMMA Multiples ==
  ASSUME NEW n \in Nat
  PROVE  /\ n * 0 = 0 /\ n * 1 = n
         /\ \A a \in Nat : n * a \in Nat /\ n * (a + 1) = n * a + n
         /\ \A a, b \in Nat : n * (a + b) = n * a + n * b
         /\ \A a, b \in Nat : a <= b => n * a <= n * b
<1>1. \A a, b \in Nat : n * (a + b) = n * a + n * b
  OBVIOUS
<1>2. \A a \in Nat : n * a \in Nat
  OBVIOUS
<1>3. ASSUME NEW a \in Nat, NEW b \in Nat, a <= b PROVE n * a <= n * b
  <2>1. b - a \in Nat /\ b = a + (b - a)
    BY <1>3
  <2>2. n * b = n * a + n * (b - a)
    BY <1>1, <2>1
  <2>3. n * (b - a) \in Nat /\ n * a \in Nat
    BY <1>2, <2>1
  <2> QED
    BY <2>2, <2>3
<1>4. n * 0 = 0 /\ n * 1 = n
  OBVIOUS
<1>5. \A a \in Nat : n * (a + 1) = n * a + n
  BY <1>1, <1>4
<1> QED
  BY <1>1, <1>2, <1>3, <1>4, <1>5

\* Where v exceeds u by n at most, in F only, so does its sum for each of F.
LEMMA SumCounts ==
  ASSUME NEW S, IsFiniteSet(S), NEW u, NEW v, NEW k, NEW F, NEW n \in Nat,
         \A x \in S : /\ u[x][k] \in Nat /\ v[x][k] \in Nat
                      /\ v[x][k] <= u[x][k] + (IF x \in F THEN n ELSE 0),
         NEW i, Sums(i, u, k, S), NEW j, Sums(j, v, k, S), NEW s \in SUBSET S
  PROVE  j[s] <= i[s] + n * Cardinality(F \cap s)
<1> DEFINE B == {z \in SUBSET S : ~(j[z] <= i[z] + n * Cardinality(F \cap z))}
<1>1. B = {}
  <2> SUFFICES ASSUME B # {} PROVE FALSE
    OBVIOUS
  <2>1. PICK z \in B : \A x \in z : z \ {x} \notin B
    <3>1. B \in SUBSET (SUBSET S) /\ B # {}
      OBVIOUS
    <3> HIDE DEF B
    <3> QED
      BY <3>1, SmallestSet
  <2>2. IsFiniteSet(F \cap z) /\ Cardinality(F \cap z) \in Nat
    <3>1. IsFiniteSet(F \cap z)
      BY FS_Subset
    <3> QED
      BY <3>1, FS_CardinalityType
  <2>3. z # {}
    <3>1. ~(j[z] <= i[z] + n * Cardinality(F \cap z))
      OBVIOUS
    <3>2. n * Cardinality(F \cap z) \in Nat
      BY <2>2, Multiples
    <3>3. j[{}] = 0 /\ i[{}] = 0
      BY SumStep
    <3> DEFINE m == n * Cardinality(F \cap z)
               jz == j[z]
               iz == i[z]
    <3>4. m \in Nat /\ ~(jz <= iz + m) /\ (z = {} => jz = 0 /\ iz = 0)
      BY <3>1, <3>2, <3>3
    <3> HIDE DEF m, jz, iz, B
    <3> QED
      BY <3>4
  <2>4. PICK x \in z : TRUE
    BY <2>3
  <2> DEFINE t == z \ {x}
             c == Cardinality(F \cap t)
             d == Cardinality(F \cap z)
  <2>5. j[t] <= i[t] + n * c
    BY <2>1, <2>4
  <2>6. j[z] = v[x][k] + j[t] /\ i[z] = u[x][k] + i[t]
    BY <2>4, SumPicks
  <2>7. c \in Nat /\ d = c + (IF x \in F THEN 1 ELSE 0)
    <3>1. IsFiniteSet(F \cap t) /\ c \in Nat
      <4>1. IsFiniteSet(F \cap t)
        BY FS_Subset
      <4> QED
        BY <4>1, FS_CardinalityType
    <3>2. CASE x \in F
      <4>1. F \cap t = (F \cap z) \ {x} /\ x \in F \cap z
        BY <2>4, <3>2
      <4>2. Cardinality((F \cap z) \ {x}) = Cardinality(F \cap z) - 1
        BY <2>2, <4>1, FS_RemoveElement
      <4>3. c = d - 1
        BY <4>1, <4>2
      <4> HIDE DEF c, d
      <4> QED
        BY <2>2, <3>1, <3>2, <4>3 DEF d
    <3>3. CASE x \notin F
      <4>1. F \cap t = F \cap z
        BY <3>3
      <4>2. c = d
        BY <4>1
      <4> HIDE DEF c, d
      <4> QED
        BY <3>1, <3>3, <4>2
    <3> QED
      BY <3>2, <3>3
  <2>8. j[t] \in Nat /\ i[t] \in Nat /\ u[x][k] \in Nat /\ v[x][k] \in Nat
        /\ v[x][k] <= u[x][k] + (IF x \in F THEN n ELSE 0)
    BY <2>4, SumIsNatural
  <2>9. ~(j[z] <= i[z] + n * d)
    OBVIOUS
  <2> HIDE DEF c, d, t, B
  <2>10. n * c \in Nat /\ n * d = n * c + (IF x \in F THEN n ELSE 0)
    <3>1. n * c \in Nat /\ n * (c + 1) = n * c + n
      BY <2>7, Multiples
    <3>2. c + 0 = c
      BY <2>7
    <3> QED
      BY <2>7, <3>1, <3>2
  <2> DEFINE nc == n * c
             nd == n * d
  <2>11. j[t] <= i[t] + nc /\ ~(j[z] <= i[z] + nd) /\ nc \in Nat /\ nd = nc + (IF x \in F THEN n ELSE 0)
    BY <2>5, <2>9, <2>10
  <2> HIDE DEF nc, nd
  <2> QED
    BY <2>6, <2>8, <2>11
<1> QED
  BY <1>1
-----------------------------------------------------------------------------
LEMMA TallyIs ==
  ASSUME NEW S, IsFiniteSet(S), NEW u, NEW k
  PROVE  \E it : Sums(it, u, k, S) /\ Tally(u, k, S) = it[S]
<1>1. Sums(CHOOSE it : Sums(it, u, k, S), u, k, S)
  BY SumsExist
<1> QED
  BY <1>1 DEF Tally

LEMMA TallyIsNatural ==
  ASSUME NEW S, IsFiniteSet(S), NEW u, NEW k, \A x \in S : u[x][k] \in Nat
  PROVE  Tally(u, k, S) \in Nat
BY TallyIs, SumIsNatural

LEMMA TallyCounts ==
  ASSUME NEW S, IsFiniteSet(S), NEW u, NEW v, NEW k, NEW F, NEW n \in Nat,
         \A x \in S : /\ u[x][k] \in Nat /\ v[x][k] \in Nat
                      /\ v[x][k] <= u[x][k] + (IF x \in F THEN n ELSE 0)
  PROVE  Tally(v, k, S) <= Tally(u, k, S) + n * Cardinality(F \cap S)
<1>1. PICK i : Sums(i, u, k, S) /\ Tally(u, k, S) = i[S]
  BY TallyIs
<1>2. PICK j : Sums(j, v, k, S) /\ Tally(v, k, S) = j[S]
  BY TallyIs
<1>3. j[S] <= i[S] + n * Cardinality(F \cap S)
  BY <1>1, <1>2, SumCounts
<1> QED
  BY <1>1, <1>2, <1>3

LEMMA TallyIsMonotone ==
  ASSUME NEW S, IsFiniteSet(S), NEW u, NEW v, NEW k,
         \A x \in S : u[x][k] \in Nat /\ v[x][k] \in Nat /\ v[x][k] <= u[x][k]
  PROVE  Tally(v, k, S) <= Tally(u, k, S)
<1> DEFINE F == {}
<1>1. Tally(v, k, S) <= Tally(u, k, S) + 1 * Cardinality(F \cap S)
  <2>1. \A x \in S : /\ u[x][k] \in Nat /\ v[x][k] \in Nat
                     /\ v[x][k] <= u[x][k] + (IF x \in F THEN 1 ELSE 0)
    OBVIOUS
  <2> HIDE DEF F
  <2> QED
    BY <2>1, TallyCounts
<1>2. Cardinality(F \cap S) = 0
  BY FS_EmptySet
<1>3. Tally(v, k, S) \in Nat /\ Tally(u, k, S) \in Nat
  BY TallyIsNatural
<1> QED
  BY <1>1, <1>2, <1>3

LEMMA TallyOfZero ==
  ASSUME NEW S, IsFiniteSet(S), NEW u, NEW k, \A x \in S : u[x][k] = 0
  PROVE  Tally(u, k, S) = 0
<1>1. PICK i : Sums(i, u, k, S) /\ Tally(u, k, S) = i[S]
  BY TallyIs
<1> DEFINE B == {z \in SUBSET S : i[z] # 0}
<1>2. B = {}
  <2> SUFFICES ASSUME B # {} PROVE FALSE
    OBVIOUS
  <2>1. PICK z \in B : \A x \in z : z \ {x} \notin B
    <3>1. B \in SUBSET (SUBSET S) /\ B # {}
      OBVIOUS
    <3> HIDE DEF B
    <3> QED
      BY <3>1, SmallestSet
  <2>2. z # {}
    BY <1>1, SumStep
  <2>3. First(z) \in z
    BY <2>2, ChosenIn
  <2>4. i[z] = u[First(z)][k] + i[z \ {First(z)}]
    BY <1>1, <2>2, SumStep
  <2>5. u[First(z)][k] = 0 /\ i[z \ {First(z)}] = 0
    BY <2>1, <2>3
  <2> QED
    BY <2>4, <2>5
<1> QED
  BY <1>1, <1>2

\* A sum grows by what one of its elements grows by.
LEMMA TallyGrows ==
  ASSUME NEW S, IsFiniteSet(S), NEW u, NEW v, NEW k, NEW r \in S, NEW d \in Nat,
         \A x \in S : u[x][k] \in Nat, v[r][k] = u[r][k] + d, \A x \in S \ {r} : v[x][k] = u[x][k]
  PROVE  Tally(v, k, S) = Tally(u, k, S) + d
<1>1. PICK i : Sums(i, u, k, S) /\ Tally(u, k, S) = i[S]
  BY TallyIs
<1>2. PICK j : Sums(j, v, k, S) /\ Tally(v, k, S) = j[S]
  BY TallyIs
<1>3. \A x \in S : v[x][k] \in Nat
  OBVIOUS
<1> DEFINE B == {z \in SUBSET (S \ {r}) : i[z] # j[z]}
<1>4. B = {}
  <2> SUFFICES ASSUME B # {} PROVE FALSE
    OBVIOUS
  <2>1. PICK z \in B : \A x \in z : z \ {x} \notin B
    <3>1. B \in SUBSET (SUBSET S) /\ B # {}
      OBVIOUS
    <3> HIDE DEF B
    <3> QED
      BY <3>1, SmallestSet
  <2>2. z # {}
    <3>1. i[{}] = 0
      BY <1>1, SumStep
    <3>2. j[{}] = 0
      BY <1>2, SumStep
    <3> QED
      BY <3>1, <3>2
  <2>3. First(z) \in z
    BY <2>2, ChosenIn
  <2>4. i[z] = u[First(z)][k] + i[z \ {First(z)}]
    BY <1>1, <2>2, SumStep
  <2>5. j[z] = v[First(z)][k] + j[z \ {First(z)}]
    BY <1>2, <2>2, SumStep
  <2>6. u[First(z)][k] = v[First(z)][k] /\ i[z \ {First(z)}] = j[z \ {First(z)}]
    BY <2>1, <2>3
  <2> QED
    BY <2>4, <2>5, <2>6
<1>5. i[S] = u[r][k] + i[S \ {r}]
  BY <1>1, SumPicks
<1>6. j[S] = v[r][k] + j[S \ {r}]
  BY <1>2, <1>3, SumPicks
<1>7. i[S \ {r}] = j[S \ {r}]
  BY <1>4
<1>8. i[S \ {r}] \in Nat /\ u[r][k] \in Nat
  BY <1>1, SumIsNatural
<1> QED
  BY <1>1, <1>2, <1>5, <1>6, <1>7, <1>8
-----------------------------------------------------------------------------
\* The usage of runs and the ledger of their trackers.
Kinds == {"requests", "tools"}
Limit(k) == IF k = "requests" THEN RequestLimit ELSE ToolLimit

\* Where a request or a tool call is under way, where another may still be
\* counted, and where those that were may wait for the next recording.
Flying(k) == IF k = "requests" THEN {"requesting", "answering"} ELSE {"before", "executing", "after"}
Room(k) == Flying(k) \cup (IF k = "requests" THEN {} ELSE {"calling"})
Owing(k) == IF k = "requests" THEN {"unwinding"}
            ELSE {"calling", "before", "executing", "after", "notifying", "selecting", "asking", "selected",
                  "requesting", "answering", "unwinding"}

Account(s, u, p) ==
  /\ u \in Usages /\ p \in Usages
  /\ \A k \in Kinds : /\ p[k] <= u[k] /\ u[k] <= p[k] + Burst[k]
                      /\ s \in Room(k) => u[k] < p[k] + Burst[k]
                      /\ u[k] # p[k] => s \in Owing(k)

Open(k, s, u, p) == s \in Flying(k) \/ u[k] # p[k]

InFlight(k) == {r \in Runs : Open(k, stage[r], used[r], previous[r])}
Spending(k) == {r \in Runs : used[r][k] > 0 \/ Open(k, stage[r], used[r], previous[r])}
Times(n, S) == n * Cardinality(S)
Spare(n, W) == IF W = {} THEN 0 ELSE Times(n, W) - 1

\* A tracker has what was recorded below it.  With what may be under way in the
\* runs that passed the check of the limit, it has no more than the limit and
\* what all who spend may count before they record, less one.
LedgerInv ==
  /\ used = [r \in Runs |-> used[r]] /\ previous = [r \in Runs |-> previous[r]]
  /\ ledger = [t \in Trackers |-> ledger[t]]
  /\ \A r \in Runs : Account(stage[r], used[r], previous[r])
  /\ \A t \in Trackers : /\ ledger[t] \in Usages
                         /\ \A k \in Kinds : ledger[t][k] = Tally(previous, k, Under(t))
  /\ \A k \in Kinds :
       ledger[Root][k] + Times(Burst[k], InFlight(k)) <= Limit(k) + Spare(Burst[k], Spending(k))

LEMMA BurstIsPositive ==
  ASSUME NEW k \in Kinds
  PROVE  Burst[k] \in Nat /\ Burst[k] > 0
BY RunAssumption DEF Burst, Kinds

LEMMA UsageOf ==
  ASSUME NEW u \in Usages, NEW k \in Kinds
  PROVE  u[k] \in Nat
<1>1. u.requests \in Nat /\ u.tools \in Nat
  BY DEF Usages
<1> QED
  BY <1>1 DEF Kinds

LEMMA TimesOf ==
  ASSUME NEW n \in Nat, NEW S, IsFiniteSet(S)
  PROVE  /\ Times(n, S) \in Nat /\ (S = {} => Times(n, S) = 0)
         /\ \A x \in S : Times(n, S) = Times(n, S \ {x}) + n
         /\ \A T \in SUBSET S : Times(n, T) <= Times(n, S)
<1>1. Cardinality(S) \in Nat
  BY FS_CardinalityType
<1>2. Times(n, S) \in Nat
  BY <1>1, Multiples DEF Times
<1>3. S = {} => Times(n, S) = 0
  BY FS_EmptySet, Multiples DEF Times
<1>4. ASSUME NEW x \in S PROVE Times(n, S) = Times(n, S \ {x}) + n
  <2> DEFINE c == Cardinality(S \ {x})
  <2>1. IsFiniteSet(S \ {x}) /\ c = Cardinality(S) - 1
    BY <1>4, FS_RemoveElement
  <2>2. c \in Nat
    BY <2>1, FS_CardinalityType
  <2>3. Cardinality(S) = c + 1
    BY <1>1, <2>1
  <2>4. n * (c + 1) = n * c + n
    BY <2>2, Multiples
  <2> QED
    BY <2>3, <2>4 DEF Times
<1>5. ASSUME NEW T \in SUBSET S PROVE Times(n, T) <= Times(n, S)
  <2>1. IsFiniteSet(T) /\ Cardinality(T) <= Cardinality(S)
    BY FS_Subset
  <2>2. Cardinality(T) \in Nat
    BY <2>1, FS_CardinalityType
  <2> QED
    BY <1>1, <2>1, <2>2, Multiples DEF Times
<1> QED
  BY <1>2, <1>3, <1>4, <1>5

\* One run takes up a request or calls, ends them, or has them recorded.
LEMMA BudgetTurns ==
  ASSUME NEW n \in Nat, n > 0,
         NEW W, IsFiniteSet(W), NEW F \in SUBSET W, NEW V, NEW G \in SUBSET V, NEW r,
         G \ {r} = F \ {r}, V \ {r} = W \ {r}, NEW l \in Nat, NEW d \in Nat, d <= n, NEW limit \in Nat,
         l + Times(n, F) <= limit + Spare(n, W),
         \/ G = F /\ V = W /\ d = 0
         \/ r \notin F /\ r \in G /\ d = 0 /\ l < limit
         \/ r \in F /\ r \notin G /\ (d = 0 \/ r \in V)
  PROVE  l + d + Times(n, G) <= limit + Spare(n, V)
<1>1. IsFiniteSet(F) /\ IsFiniteSet(V) /\ IsFiniteSet(G)
  <2>1. IsFiniteSet(W \cup {r})
    BY FS_AddElement
  <2>2. V \subseteq W \cup {r} /\ G \subseteq W \cup {r} /\ F \subseteq W \cup {r}
    OBVIOUS
  <2> QED
    BY <2>1, <2>2, FS_Subset
<1>2. /\ Times(n, W) \in Nat /\ Times(n, F) \in Nat /\ Times(n, V) \in Nat /\ Times(n, G) \in Nat
      /\ \A S : S # {} => Spare(n, S) = Times(n, S) - 1
  BY <1>1, TimesOf DEF Spare
<1>3. CASE G = F /\ V = W /\ d = 0
  BY <1>2, <1>3
<1>4. CASE r \notin F /\ r \in G /\ d = 0 /\ l < limit
  <2>1. Times(n, G) <= Times(n, V) /\ Spare(n, V) = Times(n, V) - 1
    BY <1>1, <1>2, <1>4, TimesOf
  <2> QED
    BY <1>2, <1>4, <2>1
<1>5. CASE r \in F /\ r \notin G /\ (d = 0 \/ r \in V)
  <2>1. G = F \ {r} /\ r \in W
    BY <1>5
  <2>2. Times(n, F) = Times(n, G) + n /\ Times(n, F) <= Times(n, W) /\ Spare(n, W) = Times(n, W) - 1
    BY <1>1, <1>2, <1>5, <2>1, TimesOf
  <2>3. CASE r \in V
    <3>1. V = W
      BY <2>1, <2>3
    <3>2. l + d + Times(n, G) <= limit + Spare(n, W)
      BY <1>2, <2>2
    <3> QED
      BY <3>1, <3>2
  <2>4. CASE r \notin V
    <3>1. V = W \ {r} /\ d = 0
      BY <1>5, <2>4
    <3>2. Times(n, W) = Times(n, V) + n
      BY <2>1, <3>1, TimesOf
    <3>3. CASE V = {}
      <4>1. G = {} /\ Times(n, V) = 0 /\ Times(n, G) = 0 /\ Spare(n, V) = 0
        BY <1>1, <3>3, TimesOf DEF Spare
      <4> QED
        BY <1>2, <2>2, <3>1, <3>2, <4>1
    <3>4. CASE V # {}
      <4>1. Spare(n, V) = Times(n, V) - 1
        BY <1>2, <3>4
      <4> QED
        BY <1>2, <2>2, <3>1, <3>2, <4>1
    <3> QED
      BY <3>3, <3>4
  <2> QED
    BY <2>3, <2>4
<1> QED
  BY <1>3, <1>4, <1>5

\* What a step of a run may do to its usage and the ledger, kind by kind: it
\* changes nothing, takes up a request or call below the limit, or ends one,
\* which was recorded or had not been counted.
Turns(r, k, n) ==
  LET open == Open(k, stage[r], used[r], previous[r])
      still == Open(k, stage'[r], used'[r], previous'[r])
  IN \/ n = 0 /\ (still <=> open) /\ ((used'[r][k] > 0 \/ still) <=> (used[r][k] > 0 \/ open))
     \/ n = 0 /\ ~open /\ still /\ ledger[Root][k] < Limit(k)
     \/ open /\ ~still /\ (n = 0 \/ used'[r][k] > 0)

Transfers(r, d) ==
  /\ At(r, stage, stage') /\ At(r, used, used') /\ At(r, previous, previous')
  /\ Account(stage'[r], used'[r], previous'[r])
  /\ \A k \in Kinds : d[k] \in 0 .. Burst[k]
  /\ ledger' = [t \in Trackers |-> ledger'[t]]
  /\ \A t \in Trackers :
       /\ ledger'[t] \in Usages
       /\ \A k \in Kinds : ledger'[t][k] = ledger[t][k] + (IF t \in Chain[TrackerOf[r]] THEN d[k] ELSE 0)
  /\ \A k \in Kinds : previous'[r][k] = previous[r][k] + d[k] /\ Turns(r, k, d[k])

LEMMA RootSeesAll == Root \in Trackers /\ \A r \in Runs : Root \in Chain[TrackerOf[r]]
BY RunAssumption

LEMMA TransferKeeps ==
  ASSUME StageInv, LedgerInv, NEW r \in Runs, NEW d, Transfers(r, d)
  PROVE  LedgerInv'
<1>1. r \in Tasks /\ Runs \subseteq Tasks
  BY DEF Tasks
<1>2. /\ stage' = [q \in Tasks |-> stage'[q]] /\ \A q \in Tasks \ {r} : stage'[q] = stage[q]
      /\ used' = [q \in Runs |-> used'[q]] /\ \A q \in Runs \ {r} : used'[q] = used[q]
      /\ previous' = [q \in Runs |-> previous'[q]] /\ \A q \in Runs \ {r} : previous'[q] = previous[q]
  BY <1>1, Elsewhere DEF Transfers, StageInv, LedgerInv
<1>3. ASSUME NEW q \in Runs \ {r}
      PROVE  stage'[q] = stage[q] /\ used'[q] = used[q] /\ previous'[q] = previous[q]
  BY <1>1, <1>2, <1>3
<1>4. \A q \in Runs : Account(stage'[q], used'[q], previous'[q])
  <2> SUFFICES ASSUME NEW q \in Runs PROVE Account(stage'[q], used'[q], previous'[q])
    OBVIOUS
  <2>1. CASE q = r
    BY <2>1 DEF Transfers
  <2>2. CASE q # r
    <3>1. Account(stage[q], used[q], previous[q])
      BY DEF LedgerInv
    <3> QED
      BY <1>3, <2>2, <3>1
  <2> QED
    BY <2>1, <2>2
<1>5. \A q \in Runs : previous[q] \in Usages /\ used[q] \in Usages /\ previous'[q] \in Usages /\ used'[q] \in Usages
  BY <1>4 DEF LedgerInv, Account
<1>6. \A t \in Trackers : IsFiniteSet(Under(t)) /\ Under(t) \subseteq Runs
  BY RunsAreFinite, FS_Subset DEF Under
<1>7. ASSUME NEW t \in Trackers, NEW k \in Kinds
      PROVE  ledger'[t][k] = Tally(previous', k, Under(t))
  <2>1. ledger[t][k] = Tally(previous, k, Under(t))
    BY DEF LedgerInv
  <2>2. \A q \in Under(t) : previous[q][k] \in Nat /\ previous'[q][k] \in Nat
    BY <1>5, <1>6, UsageOf
  <2>3. d[k] \in Nat
    BY BurstIsPositive DEF Transfers
  <2>4. CASE r \in Under(t)
    <3>1. previous'[r][k] = previous[r][k] + d[k]
      BY DEF Transfers
    <3>2. \A q \in Under(t) \ {r} : previous'[q][k] = previous[q][k]
      BY <1>3, <1>6
    <3>3. Tally(previous', k, Under(t)) = Tally(previous, k, Under(t)) + d[k]
      BY <1>6, <2>2, <2>3, <2>4, <3>1, <3>2, TallyGrows
    <3>4. t \in Chain[TrackerOf[r]]
      BY <2>4 DEF Under
    <3> QED
      BY <2>1, <3>3, <3>4 DEF Transfers
  <2>5. CASE r \notin Under(t)
    <3>1. \A q \in Under(t) : previous'[q][k] = previous[q][k]
      BY <1>3, <1>6, <2>5
    <3>2. Tally(previous', k, Under(t)) <= Tally(previous, k, Under(t))
      BY <1>6, <2>2, <3>1, TallyIsMonotone
    <3>3. Tally(previous, k, Under(t)) <= Tally(previous', k, Under(t))
      BY <1>6, <2>2, <3>1, TallyIsMonotone
    <3>4. Tally(previous, k, Under(t)) \in Nat /\ Tally(previous', k, Under(t)) \in Nat
      BY <1>6, <2>2, TallyIsNatural
    <3>5. t \notin Chain[TrackerOf[r]]
      BY <2>5 DEF Under
    <3>6. ledger'[t][k] = ledger[t][k] + 0
      BY <3>5 DEF Transfers
    <3> QED
      BY <2>1, <3>2, <3>3, <3>4, <3>6
  <2> QED
    BY <2>4, <2>5
<1>8. ASSUME NEW k \in Kinds
      PROVE  ledger'[Root][k] + Times(Burst[k], InFlight(k)')
               <= Limit(k) + Spare(Burst[k], Spending(k)')
  <2> DEFINE W == Spending(k)
             F == InFlight(k)
             V == Spending(k)'
             G == InFlight(k)'
  <2>1. F \in SUBSET W /\ G \in SUBSET V /\ IsFiniteSet(W)
    <3>1. W \subseteq Runs
      BY DEF Spending
    <3>2. IsFiniteSet(W)
      BY <3>1, RunsAreFinite, FS_Subset
    <3> QED
      BY <3>2 DEF Spending, InFlight
  <2>2. \A q \in Runs \ {r} : Open(k, stage'[q], used'[q], previous'[q]) <=> Open(k, stage[q], used[q], previous[q])
    BY <1>3
  <2>3. G \ {r} = F \ {r}
    BY <2>2 DEF InFlight
  <2>4. V \ {r} = W \ {r}
    BY <1>3, <2>2 DEF Spending
  <2>5. /\ r \in F <=> Open(k, stage[r], used[r], previous[r])
        /\ r \in G <=> Open(k, stage'[r], used'[r], previous'[r])
        /\ r \in W <=> (used[r][k] > 0 \/ Open(k, stage[r], used[r], previous[r]))
        /\ r \in V <=> (used'[r][k] > 0 \/ Open(k, stage'[r], used'[r], previous'[r]))
    BY DEF InFlight, Spending
  <2>6. Turns(r, k, d[k]) /\ d[k] \in 0 .. Burst[k] /\ Burst[k] \in Nat /\ Burst[k] > 0
    BY BurstIsPositive DEF Transfers
  <2>7. Root \in Trackers /\ Root \in Chain[TrackerOf[r]]
    BY RootSeesAll
  <2>8. ledger'[Root][k] = ledger[Root][k] + d[k] /\ ledger[Root][k] \in Nat
    BY <2>7, UsageOf DEF Transfers, LedgerInv
  <2>9. Limit(k) \in Nat
    BY RunAssumption DEF Limit
  <2>10. ledger[Root][k] + Times(Burst[k], F) <= Limit(k) + Spare(Burst[k], W)
    BY DEF LedgerInv
  <2> HIDE DEF W, F, V, G
  <2>11. \/ G = F /\ V = W /\ d[k] = 0
         \/ r \notin F /\ r \in G /\ d[k] = 0 /\ ledger[Root][k] < Limit(k)
         \/ r \in F /\ r \notin G /\ (d[k] = 0 \/ r \in V)
    <3>1. (r \in G <=> r \in F) => G = F
      BY <2>3
    <3>2. (r \in V <=> r \in W) => V = W
      BY <2>4
    <3> QED
      BY <2>5, <2>6, <3>1, <3>2 DEF Turns
  <2>12. ledger[Root][k] + d[k] + Times(Burst[k], G) <= Limit(k) + Spare(Burst[k], V)
    <3>1. d[k] \in Nat /\ d[k] <= Burst[k]
      BY <2>6
    <3> QED
      BY <2>1, <2>3, <2>4, <2>6, <2>8, <2>9, <2>10, <2>11, <3>1, BudgetTurns
  <2> QED
    BY <2>8, <2>12 DEF G, V
<1>9. \A t \in Trackers : ledger'[t] \in Usages
  BY DEF Transfers
<1>10. ledger' = [t \in Trackers |-> ledger'[t]]
  BY DEF Transfers
<1> QED
  BY <1>2, <1>4, <1>7, <1>8, <1>9, <1>10 DEF LedgerInv

\* The steps of a run: it moves on, counts what it has done, or has its usage
\* recorded, and with it what the step counts.
Moving(r) ==
  /\ UNCHANGED ledgerVars /\ At(r, stage, stage')
  /\ \A k \in Kinds :
       /\ stage[r] \in Owing(k) => stage'[r] \in Owing(k)
       /\ stage'[r] \in Flying(k) => stage[r] \in Flying(k) \/ ledger[Root][k] < Limit(k)
       /\ stage'[r] \in Room(k) => stage[r] \in Room(k) \/ stage[r] \notin Owing(k)

Counts(r, k, n) ==
  \A j \in Kinds : used'[r][j] = used[r][j] + (IF j = k THEN n ELSE 0)

Counting(r, k) ==
  /\ previous' = previous /\ ledger' = ledger /\ At(r, stage, stage') /\ At(r, used, used')
  /\ used'[r] \in Usages /\ Counts(r, k, 1)
  /\ stage[r] \in Flying(k) /\ stage'[r] \in Owing(k)
  /\ \A j \in Kinds : /\ stage'[r] \notin Flying(j) /\ (stage[r] \in Owing(j) => stage'[r] \in Owing(j))
                      /\ stage'[r] \in Room(j) => used'[r][j] < previous[r][j] + Burst[j]

Paying(r) ==
  /\ At(r, stage, stage') /\ At(r, used, used') /\ Record(r, used'[r])
  /\ used'[r] \in Usages
  /\ \A k \in Kinds :
       /\ stage'[r] \notin Flying(k)
       /\ used'[r][k] = used[r][k] \/ (stage[r] \in Flying(k) /\ used'[r][k] = used[r][k] + 1)

LEMMA FlyingHasRoom ==
  /\ \A k \in Kinds : Flying(k) \subseteq Room(k)
  /\ \A k, j \in Kinds : Flying(k) \cap Flying(j) # {} => k = j
BY DEF Kinds, Flying, Room

LEMMA LedgerTypes ==
  ASSUME LedgerInv, NEW r \in Runs, NEW k \in Kinds
  PROVE  /\ used[r] \in Usages /\ previous[r] \in Usages
         /\ used[r][k] \in Nat /\ previous[r][k] \in Nat
         /\ previous[r][k] <= used[r][k] /\ used[r][k] <= previous[r][k] + Burst[k]
         /\ stage[r] \in Room(k) => used[r][k] < previous[r][k] + Burst[k]
         /\ used[r][k] # previous[r][k] => stage[r] \in Owing(k)
         /\ \A t \in Trackers : ledger[t] \in Usages /\ ledger[t][k] \in Nat
BY UsageOf DEF LedgerInv, Account

LEMMA MovingTransfers ==
  ASSUME LedgerInv, NEW r \in Runs, Moving(r)
  PROVE  Transfers(r, [k \in Kinds |-> 0])
<1> DEFINE d == [k \in Kinds |-> 0]
<1>1. /\ used' = used /\ previous' = previous /\ ledger' = ledger
      /\ At(r, used, used') /\ At(r, previous, previous')
  BY Same DEF Moving, ledgerVars, LedgerInv
<1>2. Account(stage'[r], used'[r], previous'[r])
  <2>1. used[r] \in Usages /\ previous[r] \in Usages
    BY DEF LedgerInv, Account
  <2>2. ASSUME NEW k \in Kinds
        PROVE  /\ previous[r][k] <= used[r][k] /\ used[r][k] <= previous[r][k] + Burst[k]
               /\ stage'[r] \in Room(k) => used[r][k] < previous[r][k] + Burst[k]
               /\ used[r][k] # previous[r][k] => stage'[r] \in Owing(k)
    BY LedgerTypes, BurstIsPositive DEF Moving
  <2> QED
    BY <1>1, <2>1, <2>2 DEF Account
<1>3. ASSUME NEW t \in Trackers
      PROVE  ledger'[t] \in Usages /\ \A k \in Kinds : ledger'[t][k] = ledger[t][k] + 0
  <2>1. ledger[t] \in Usages
    BY DEF LedgerInv
  <2>2. \A k \in Kinds : ledger[t][k] \in Nat
    BY <2>1, UsageOf
  <2> QED
    BY <1>1, <2>1, <2>2
<1>4. ASSUME NEW k \in Kinds PROVE previous'[r][k] = previous[r][k] + 0 /\ Turns(r, k, 0)
  <2>1. previous[r][k] \in Nat
    BY LedgerTypes
  <2>2. stage'[r] \in Flying(k) => stage[r] \in Flying(k) \/ ledger[Root][k] < Limit(k)
    BY DEF Moving
  <2>3. Turns(r, k, 0)
    BY <1>1, <2>2 DEF Turns, Open
  <2> QED
    BY <1>1, <2>1, <2>3
<1>5. \A k \in Kinds : d[k] = 0 /\ d[k] \in 0 .. Burst[k]
  BY BurstIsPositive
<1>6. ledger' = [t \in Trackers |-> ledger'[t]]
  BY <1>1 DEF LedgerInv
<1> HIDE DEF d
<1>7. \A t \in Trackers :
        /\ ledger'[t] \in Usages
        /\ \A k \in Kinds : ledger'[t][k] = ledger[t][k] + (IF t \in Chain[TrackerOf[r]] THEN d[k] ELSE 0)
  BY <1>3, <1>5
<1>8. \A k \in Kinds : previous'[r][k] = previous[r][k] + d[k] /\ Turns(r, k, d[k])
  BY <1>4, <1>5
<1>9. At(r, stage, stage')
  BY DEF Moving
<1>10. Transfers(r, d)
  BY <1>1, <1>2, <1>5, <1>6, <1>7, <1>8, <1>9 DEF Transfers
<1> QED
  BY <1>10 DEF d

LEMMA CountingTransfers ==
  ASSUME LedgerInv, NEW r \in Runs, NEW kind \in Kinds, Counting(r, kind)
  PROVE  Transfers(r, [k \in Kinds |-> 0])
<1> DEFINE d == [k \in Kinds |-> 0]
<1>1. previous' = previous /\ ledger' = ledger /\ At(r, previous, previous')
  BY Same DEF Counting, LedgerInv
<1>2. ASSUME NEW k \in Kinds
      PROVE  /\ previous'[r][k] <= used'[r][k] /\ used'[r][k] <= previous'[r][k] + Burst[k]
             /\ stage'[r] \in Room(k) => used'[r][k] < previous'[r][k] + Burst[k]
             /\ used'[r][k] # previous'[r][k] => stage'[r] \in Owing(k)
             /\ Turns(r, k, 0)
  <2>1. /\ used[r][k] \in Nat /\ previous[r][k] \in Nat /\ Burst[k] \in Nat
        /\ previous[r][k] <= used[r][k] /\ used[r][k] <= previous[r][k] + Burst[k]
        /\ stage[r] \in Room(k) => used[r][k] < previous[r][k] + Burst[k]
        /\ used[r][k] # previous[r][k] => stage[r] \in Owing(k)
    BY LedgerTypes, BurstIsPositive
  <2>2. /\ stage'[r] \notin Flying(k) /\ (stage[r] \in Owing(k) => stage'[r] \in Owing(k))
        /\ stage'[r] \in Room(k) => used'[r][k] < previous'[r][k] + Burst[k]
    BY <1>1 DEF Counting
  <2>3. CASE k = kind
    <3>1. used'[r][k] = used[r][k] + 1 /\ stage[r] \in Flying(k) /\ stage'[r] \in Owing(k)
      BY <2>3 DEF Counting, Counts
    <3>2. stage[r] \in Room(k)
      BY <3>1, FlyingHasRoom
    <3>3. used'[r][k] # previous'[r][k] /\ used'[r][k] > 0
      BY <1>1, <2>1, <3>1
    <3>4. Turns(r, k, 0)
      BY <3>1, <3>3 DEF Turns, Open
    <3> QED
      BY <1>1, <2>1, <2>2, <3>1, <3>2, <3>4
  <2>4. CASE k # kind
    <3>1. used'[r][k] = used[r][k] + 0 /\ stage[r] \notin Flying(k)
      BY <2>4, FlyingHasRoom DEF Counting, Counts
    <3>2. used'[r][k] = used[r][k]
      BY <2>1, <3>1
    <3>3. Turns(r, k, 0)
      BY <1>1, <2>2, <3>1, <3>2 DEF Turns, Open
    <3> QED
      BY <1>1, <2>1, <2>2, <3>2, <3>3
  <2> QED
    BY <2>3, <2>4
<1>3. used'[r] \in Usages /\ previous'[r] \in Usages
  <2>1. previous[r] \in Usages
    BY DEF LedgerInv, Account
  <2> QED
    BY <1>1, <2>1 DEF Counting
<1>4. Account(stage'[r], used'[r], previous'[r])
  BY <1>2, <1>3 DEF Account
<1>5. \A k \in Kinds : d[k] = 0 /\ d[k] \in 0 .. Burst[k]
  BY BurstIsPositive
<1>6. ledger' = [t \in Trackers |-> ledger'[t]]
  BY <1>1 DEF LedgerInv
<1> HIDE DEF d
<1>7. \A t \in Trackers :
        /\ ledger'[t] \in Usages
        /\ \A k \in Kinds : ledger'[t][k] = ledger[t][k] + (IF t \in Chain[TrackerOf[r]] THEN d[k] ELSE 0)
  <2>1. \A t \in Trackers : ledger'[t] \in Usages /\ \A k \in Kinds : ledger'[t][k] = ledger[t][k] + 0
    BY <1>1, LedgerTypes
  <2> QED
    BY <1>5, <2>1
<1>8. \A k \in Kinds : previous'[r][k] = previous[r][k] + d[k] /\ Turns(r, k, d[k])
  <2>1. \A k \in Kinds : previous'[r][k] = previous[r][k] + 0
    BY <1>1, LedgerTypes
  <2> QED
    BY <1>2, <1>5, <2>1
<1>9. At(r, stage, stage') /\ At(r, used, used')
  BY DEF Counting
<1>10. Transfers(r, d)
  BY <1>1, <1>4, <1>5, <1>6, <1>7, <1>8, <1>9 DEF Transfers
<1> QED
  BY <1>10 DEF d

\* The difference that is added.
LEMMA Added ==
  ASSUME NEW l \in Usages, NEW u \in Usages, NEW p \in Usages,
         \A k \in Kinds : p[k] <= u[k]
  PROVE  /\ Total(l, Total(u, p, -1), 1) \in Usages
         /\ \A k \in Kinds : Total(l, Total(u, p, -1), 1)[k] = l[k] + (u[k] - p[k])
<1> DEFINE x == Total(l, Total(u, p, -1), 1)
<1>1. /\ l.requests \in Nat /\ l.tools \in Nat /\ u.requests \in Nat /\ u.tools \in Nat
      /\ p.requests \in Nat /\ p.tools \in Nat
  BY DEF Usages
<1>2. p.requests <= u.requests /\ p.tools <= u.tools
  BY DEF Kinds
<1>3. x = [requests |-> l.requests + 1 * (u.requests + (-1) * p.requests),
           tools |-> l.tools + 1 * (u.tools + (-1) * p.tools)]
  BY DEF Total
<1> HIDE DEF x
<1>4. x.requests = l.requests + (u.requests - p.requests) /\ x.tools = l.tools + (u.tools - p.tools)
  BY <1>1, <1>3
<1>5. x \in Usages
  BY <1>1, <1>2, <1>3, <1>4 DEF Usages
<1>6. \A k \in Kinds : x[k] = l[k] + (u[k] - p[k])
  BY <1>4 DEF Kinds
<1> QED
  BY <1>5, <1>6 DEF x

LEMMA PayingTransfers ==
  ASSUME LedgerInv, NEW r \in Runs, Paying(r)
  PROVE  Transfers(r, [k \in Kinds |-> used'[r][k] - previous[r][k]])
<1> DEFINE d == [k \in Kinds |-> used'[r][k] - previous[r][k]]
<1>1. previous' = [previous EXCEPT ![r] = used'[r]] /\ used'[r] \in Usages
  BY DEF Paying, Record
<1>2. At(r, previous, previous') /\ previous'[r] = used'[r]
  BY <1>1, SetAt DEF LedgerInv
<1>3. ASSUME NEW k \in Kinds
      PROVE  /\ d[k] \in 0 .. Burst[k] /\ previous[r][k] <= used'[r][k] /\ used'[r][k] \in Nat
             /\ previous'[r][k] = previous[r][k] + d[k] /\ Turns(r, k, d[k])
  <2>1. /\ used[r][k] \in Nat /\ previous[r][k] \in Nat /\ Burst[k] \in Nat
        /\ previous[r][k] <= used[r][k] /\ used[r][k] <= previous[r][k] + Burst[k]
    BY LedgerTypes, BurstIsPositive
  <2>2. /\ stage'[r] \notin Flying(k)
        /\ used'[r][k] = used[r][k] \/ (stage[r] \in Flying(k) /\ used'[r][k] = used[r][k] + 1)
    BY DEF Paying
  <2>3. stage[r] \in Flying(k) => used[r][k] < previous[r][k] + Burst[k]
    BY FlyingHasRoom, LedgerTypes
  <2>4. d[k] = used'[r][k] - previous[r][k]
    OBVIOUS
  <2> HIDE DEF d
  <2>5. ~Open(k, stage'[r], used'[r], previous'[r])
    BY <1>2, <2>2 DEF Open
  <2>6. used'[r][k] \in Nat /\ d[k] \in 0 .. Burst[k] /\ previous[r][k] <= used'[r][k]
    BY <2>1, <2>2, <2>3, <2>4
  <2>7. previous'[r][k] = previous[r][k] + d[k]
    BY <1>2, <2>1, <2>4, <2>6
  <2>8. Turns(r, k, d[k])
    <3>1. CASE Open(k, stage[r], used[r], previous[r])
      <4>1. d[k] = 0 \/ used'[r][k] > 0
        BY <2>1, <2>4, <2>6
      <4> QED
        BY <2>5, <2>6, <3>1, <4>1 DEF Turns
    <3>2. CASE ~Open(k, stage[r], used[r], previous[r])
      <4>1. used'[r][k] = used[r][k] /\ used[r][k] = previous[r][k]
        BY <2>2, <3>2 DEF Open
      <4>2. d[k] = 0
        BY <2>1, <2>4, <4>1
      <4> QED
        BY <2>5, <3>2, <4>1, <4>2 DEF Turns
    <3> QED
      BY <3>1, <3>2
  <2> QED
    BY <2>6, <2>7, <2>8
<1>4. Account(stage'[r], used'[r], previous'[r])
  <2>1. \A k \in Kinds : used'[r][k] <= used'[r][k] /\ used'[r][k] < used'[r][k] + Burst[k]
                         /\ used'[r][k] <= used'[r][k] + Burst[k]
    BY <1>3, BurstIsPositive
  <2> QED
    BY <1>1, <1>2, <2>1 DEF Account
<1>5. \A k \in Kinds : d[k] \in 0 .. Burst[k]
  BY <1>3
<1>6. /\ ledger' = [t \in Trackers |-> IF t \in Chain[TrackerOf[r]]
                                         THEN Total(ledger[t], Total(used'[r], previous[r], -1), 1)
                                         ELSE ledger[t]]
      /\ ledger' = [t \in Trackers |-> ledger'[t]]
  BY DEF Paying, Record
<1>7. ASSUME NEW t \in Trackers
      PROVE  /\ ledger'[t] \in Usages
             /\ \A k \in Kinds : ledger'[t][k] = ledger[t][k] + (IF t \in Chain[TrackerOf[r]] THEN d[k] ELSE 0)
  <2>1. ledger[t] \in Usages /\ previous[r] \in Usages
    BY DEF LedgerInv, Account
  <2>2. CASE t \in Chain[TrackerOf[r]]
    <3>1. ledger'[t] = Total(ledger[t], Total(used'[r], previous[r], -1), 1)
      BY <1>6, <2>2
    <3> QED
      BY <1>1, <1>3, <2>1, <2>2, <3>1, Added
  <2>3. CASE t \notin Chain[TrackerOf[r]]
    <3>1. ledger'[t] = ledger[t]
      BY <1>6, <2>3
    <3>2. \A k \in Kinds : ledger[t][k] \in Nat
      BY <2>1, UsageOf
    <3> QED
      BY <2>1, <2>3, <3>1, <3>2
  <2> QED
    BY <2>2, <2>3
<1>8. At(r, stage, stage') /\ At(r, used, used')
  BY DEF Paying
<1>9. \A k \in Kinds : previous'[r][k] = previous[r][k] + d[k] /\ Turns(r, k, d[k])
  BY <1>3
<1> HIDE DEF d
<1>10. Transfers(r, d)
  BY <1>2, <1>4, <1>5, <1>6, <1>7, <1>8, <1>9 DEF Transfers
<1> QED
  BY <1>10 DEF d

LEMMA StagesMove ==
  ASSUME NEW r \in Runs, UNCHANGED ledgerVars, At(r, stage, stage'),
         \/ stage'[r] = stage[r]
         \/ stage'[r] = "unwinding"
         \/ stage'[r] \in {"asking", "selected"} /\ stage[r] # "unwinding"
         \/ stage'[r] = "answering" /\ stage[r] = "requesting"
         \/ stage[r] = "selected" /\ stage'[r] = "requesting" /\ ledger[Root].requests < RequestLimit
         \/ stage[r] = "calling" /\ stage'[r] = "before" /\ ledger[Root].tools < ToolLimit
         \/ stage[r] = "noting" /\ stage'[r] \in {"calling", "selecting"}
         \/ stage[r] \in {"before", "executing", "after"} /\ stage'[r] = "notifying"
         \/ stage[r] = "settling" /\ stage'[r] = "over"
         \/ stage[r] \in {"before", "executing"} /\ stage'[r] \in {"executing", "after"}
  PROVE  Moving(r)
<1>1. ASSUME NEW k \in Kinds
      PROVE  /\ stage[r] \in Owing(k) => stage'[r] \in Owing(k)
             /\ stage'[r] \in Flying(k) => stage[r] \in Flying(k) \/ ledger[Root][k] < Limit(k)
             /\ stage'[r] \in Room(k) => stage[r] \in Room(k) \/ stage[r] \notin Owing(k)
  <2>1. CASE k = "requests"
    <3>1. Owing(k) = {"unwinding"} /\ Flying(k) = {"requesting", "answering"} /\ Room(k) = Flying(k)
          /\ Limit(k) = RequestLimit /\ ledger[Root][k] = ledger[Root].requests
      BY <2>1 DEF Owing, Flying, Room, Limit
    <3> QED
      BY <3>1
  <2>2. CASE k = "tools"
    <3>1. Owing(k) = {"calling", "before", "executing", "after", "notifying", "selecting", "asking",
                      "selected", "requesting", "answering", "unwinding"}
          /\ Flying(k) = {"before", "executing", "after"} /\ Room(k) = Flying(k) \cup {"calling"}
          /\ Limit(k) = ToolLimit /\ ledger[Root][k] = ledger[Root].tools
      BY <2>2 DEF Owing, Flying, Room, Limit
    <3> QED
      BY <3>1
  <2> QED
    BY <2>1, <2>2 DEF Kinds
<1> QED
  BY <1>1 DEF Moving

\* A request that is cut short may have been counted.
LEMMA Abandoned ==
  ASSUME Shapes, LedgerInv, NEW r \in Runs, NEW n \in {0, 1},
         n = 1 => stage[r] \in {"requesting", "answering"},
         used' = [used EXCEPT ![r].requests = @ + n], previous' = previous, ledger' = ledger,
         At(r, stage, stage'), stage'[r] = "unwinding"
  PROVE  Moving(r) \/ Counting(r, "requests")
<1> DEFINE u == used[r]
           v == [u EXCEPT !.requests = @ + n]
<1>1. used' = [used EXCEPT ![r] = v]
  OBVIOUS
<1>2. At(r, used, used') /\ used'[r] = v
  BY <1>1, SetAt DEF Shapes
<1>3. u \in Usages /\ u.requests \in Nat /\ u.tools \in Nat
  BY DEF LedgerInv, Account, Usages
<1>4. CASE n = 0
  <2>1. v = u
    BY <1>3, <1>4 DEF Usages
  <2>2. used' = used
    BY <1>1, <2>1 DEF Shapes
  <2> QED
    BY <2>2, StagesMove DEF ledgerVars
<1>5. CASE n = 1
  <2>1. v \in Usages /\ v.requests = u.requests + 1 /\ v.tools = u.tools
    BY <1>3, <1>5 DEF Usages
  <2> HIDE DEF u, v
  <2>2. Counts(r, "requests", 1)
    <3>1. u.tools + 0 = u.tools
      BY <1>3
    <3> QED
      BY <1>2, <2>1, <3>1 DEF Counts, Kinds, u
  <2>3. stage[r] \in Flying("requests") /\ stage'[r] \in Owing("requests")
    BY <1>5 DEF Flying, Owing
  <2>4. \A j \in Kinds : stage'[r] \notin Room(j) /\ stage'[r] \notin Flying(j) /\ stage'[r] \in Owing(j)
    BY DEF Kinds, Flying, Room, Owing
  <2>5. Counting(r, "requests")
    BY <1>2, <2>1, <2>2, <2>3, <2>4 DEF Counting
  <2> QED
    BY <2>5
<1> QED
  BY <1>4, <1>5

Spends(r) == Moving(r) \/ (\E k \in Kinds : Counting(r, k)) \/ Paying(r)

LEMMA RunSpends ==
  ASSUME Shapes, ThenInv, LedgerInv, NEW r \in Runs, RunStep(r), Own(r)
  PROVE  Spends(r)
<1>1. At(r, stage, stage') /\ At(r, used, used')
  BY DEF Own
<1>2. r \in Tasks /\ stage = [t \in Tasks |-> stage[t]]
  BY DEF Tasks, Shapes, StageInv
<1>3. ASSUME NEW to, Become(r, to) PROVE stage'[r] = to
  BY <1>2, <1>3 DEF Become
<1>4. ASSUME NEW how, End(r, how) PROVE stage'[r] = "unwinding"
  BY <1>3, <1>4 DEF End
<1>5. ASSUME NEW how, Conclude(r, how) PROVE stage'[r] = "over"
  BY <1>3, <1>5 DEF Conclude
<1>6. CASE SelectModels(r)
  <2>1. UNCHANGED ledgerVars /\ stage[r] \in {"selecting", "asking"}
        /\ (stage' = stage \/ stage'[r] = "asking" \/ stage'[r] = "selected")
    BY <1>3, <1>6 DEF SelectModels, Select, Selected, runVars
  <2> QED
    BY <1>1, <2>1, StagesMove DEF Spends
<1>7. CASE SelectFails(r) \/ OfferFails(r) \/ Notified(r)
  <2>1. UNCHANGED ledgerVars /\ stage'[r] = "unwinding"
    BY <1>4, <1>7 DEF SelectFails, OfferFails, Notified, Fail
  <2> QED
    BY <1>1, <2>1, StagesMove DEF Spends
<1>8. CASE BeforeRequest(r)
  <2>1. /\ UNCHANGED ledgerVars /\ stage[r] = "selected"
        /\ \/ stage'[r] = "requesting" /\ ledger[Root].requests < RequestLimit
           \/ stage'[r] = "unwinding"
    BY <1>3, <1>4, <1>8 DEF BeforeRequest, Continue, MayRequest, Fail
  <2> QED
    BY <1>1, <2>1, StagesMove DEF Spends
<1>9. CASE Part(r)
  <2>1. UNCHANGED ledgerVars /\ stage[r] = "requesting" /\ stage'[r] = "answering"
    BY <1>3, <1>9 DEF Part
  <2> QED
    BY <1>1, <2>1, StagesMove DEF Spends
<1>10. CASE Respond(r)
  <2> DEFINE u == used[r]
             v == [u EXCEPT !.requests = @ + 1]
  <2>1. used' = [used EXCEPT ![r] = v] /\ Record(r, used'[r])
    BY <1>10 DEF Respond
  <2>2. used'[r] = v
    BY <2>1, SetAt DEF Shapes
  <2>3. u \in Usages /\ u.requests \in Nat /\ u.tools \in Nat
    BY DEF LedgerInv, Account, Usages
  <2>4. v \in Usages /\ v.requests = u.requests + 1 /\ v.tools = u.tools
    BY <2>3 DEF Usages
  <2>5. stage[r] \in {"requesting", "answering"} /\ stage'[r] \in {"noting", "unwinding"}
    BY <1>3, <1>4, <1>10 DEF Respond, Fail
  <2>6. \A k \in Kinds : stage'[r] \notin Flying(k)
    BY <2>5 DEF Kinds, Flying
  <2>7. \A k \in Kinds : used'[r][k] = used[r][k] \/ (stage[r] \in Flying(k) /\ used'[r][k] = used[r][k] + 1)
    <3>1. used'[r].tools = used[r].tools /\ used'[r].requests = used[r].requests + 1
      BY <2>2, <2>4
    <3>2. stage[r] \in Flying("requests")
      BY <2>5 DEF Flying
    <3> QED
      BY <3>1, <3>2 DEF Kinds
  <2> HIDE DEF v
  <2>8. Paying(r)
    BY <1>1, <2>1, <2>2, <2>4, <2>6, <2>7 DEF Paying
  <2> QED
    BY <2>8 DEF Spends
<1>11. CASE RequestFails(r)
  <2>1. previous' = previous /\ ledger' = ledger /\ stage'[r] = "unwinding"
    BY <1>4, <1>11 DEF RequestFails, Fail
  <2>2. PICK n \in {0, 1} : used' = [used EXCEPT ![r].requests = @ + n]
    BY <1>11 DEF RequestFails
  <2>3. stage[r] \in {"requesting", "answering"}
    BY <1>11 DEF RequestFails
  <2> QED
    BY <1>1, <2>1, <2>2, <2>3, Abandoned DEF Spends, Kinds
<1>12. CASE Noted(r)
  <2>1. UNCHANGED ledgerVars /\ stage[r] = "noting" /\ stage'[r] \in {"calling", "unwinding", "selecting"}
    BY <1>3, <1>4, <1>12 DEF Noted, Continue, Fail, ThenInv
  <2> QED
    BY <1>1, <2>1, StagesMove DEF Spends
<1>13. CASE Call(r)
  <2>1. /\ UNCHANGED ledgerVars /\ stage[r] = "calling"
        /\ \/ stage'[r] = "before" /\ ledger[Root].tools < ToolLimit
           \/ stage'[r] = "unwinding"
    BY <1>3, <1>4, <1>13 DEF Call, Continue, MayCall, Fail
  <2> QED
    BY <1>1, <2>1, StagesMove DEF Spends
<1>14. CASE Hook(r)
  <2>1. UNCHANGED ledgerVars /\ stage'[r] = stage[r]
    BY <1>14 DEF Hook
  <2> QED
    BY <1>1, <2>1, StagesMove DEF Spends
<1>15. CASE Proceed(r) \/ Raises(r)
  <2>1. UNCHANGED ledgerVars /\ stage[r] \in {"before", "executing", "after"}
        /\ (stage'[r] = "notifying" \/ (stage[r] # "after" /\ stage'[r] \in {"executing", "after"}))
    BY <1>3, <1>15 DEF Proceed, Raises, runVars
  <2> QED
    BY <1>1, <2>1, StagesMove DEF Spends
<1>16. CASE Returned(r)
  <2> DEFINE u == used[r]
             v == [u EXCEPT !.tools = @ + 1]
  <2>1. /\ used' = [used EXCEPT ![r] = v] /\ previous' = previous /\ ledger' = ledger
        /\ stage[r] = "after"
        /\ \/ stage'[r] = "selecting"
           \/ stage'[r] = "calling" /\ used'[r].tools < previous[r].tools + MaxCalls
    BY <1>3, <1>16 DEF Returned
  <2>2. used'[r] = v
    BY <2>1, SetAt DEF Shapes
  <2>3. u \in Usages /\ u.requests \in Nat /\ u.tools \in Nat
    BY DEF LedgerInv, Account, Usages
  <2>4. v \in Usages /\ v.requests = u.requests /\ v.tools = u.tools + 1
    BY <2>3 DEF Usages
  <2> HIDE DEF u, v
  <2>5. Counts(r, "tools", 1)
    <3>1. u.requests + 0 = u.requests
      BY <2>3
    <3> QED
      BY <2>2, <2>4, <3>1 DEF Counts, Kinds, u
  <2>6. stage[r] \in Flying("tools") /\ stage'[r] \in Owing("tools")
        /\ \A j \in Kinds : stage'[r] \notin Flying(j) /\ (stage[r] \in Owing(j) => stage'[r] \in Owing(j))
    BY <2>1 DEF Kinds, Flying, Owing
  <2>7. ASSUME NEW j \in Kinds, stage'[r] \in Room(j)
        PROVE  used'[r][j] < previous[r][j] + Burst[j]
    <3>1. stage'[r] = "calling" /\ j = "tools"
      BY <2>1, <2>7 DEF Kinds, Room, Flying
    <3> QED
      BY <2>1, <3>1 DEF Burst
  <2>8. Counting(r, "tools")
    BY <1>1, <2>1, <2>2, <2>4, <2>5, <2>6, <2>7 DEF Counting
  <2> QED
    BY <2>8 DEF Spends, Kinds
<1>17. CASE Unwind(r)
  <2>1. used' = used /\ Record(r, used'[r]) /\ stage'[r] \in {"over", "settling"}
    BY <1>3, <1>5, <1>17 DEF Unwind
  <2>2. \A k \in Kinds : stage'[r] \notin Flying(k)
    BY <2>1 DEF Kinds, Flying
  <2>3. used[r] \in Usages
    BY DEF LedgerInv, Account
  <2>4. Paying(r)
    BY <1>1, <2>1, <2>2, <2>3 DEF Paying
  <2> QED
    BY <2>4 DEF Spends
<1>18. CASE Settled(r)
  <2>1. UNCHANGED ledgerVars /\ stage[r] = "settling" /\ stage'[r] = "over"
    BY <1>5, <1>18 DEF Settled
  <2> QED
    BY <1>1, <2>1, StagesMove DEF Spends
<1> QED
  BY <1>6, <1>7, <1>8, <1>9, <1>10, <1>11, <1>12, <1>13, <1>14, <1>15, <1>16, <1>17, <1>18 DEF RunStep

\* A run that is cut off, and a stream that is left.
LEMMA CutSpends ==
  ASSUME Shapes, LedgerInv, NEW r \in Runs, Cut(r)
  PROVE  Spends(r)
<1>1. previous' = previous /\ ledger' = ledger /\ End(r, "cancelled")
  BY DEF Cut
<1>2. Changes(r, stage, stage') /\ stage'[r] = "unwinding"
  BY <1>1, BecomeChanges DEF End
<1>3. At(r, stage, stage')
  BY <1>2, ChangesAt DEF Shapes, StageInv, Tasks
<1>4. PICK n \in {0, 1} : /\ n = 1 => stage[r] \in {"requesting", "answering"}
                          /\ used' = [used EXCEPT ![r].requests = @ + n]
  BY DEF Cut
<1> QED
  BY <1>1, <1>2, <1>3, <1>4, Abandoned DEF Spends, Kinds

LEMMA LeaveSpends ==
  ASSUME Shapes, LedgerInv, NEW r \in Runs, Leave(r)
  PROVE  Spends(r)
<1>1. CASE Cut(r)
  BY <1>1, CutSpends
<1>2. CASE stage[r] = "over" /\ UNCHANGED <<stage, used>>
           /\ IF stream[r].complete THEN Record(r, used[r]) ELSE UNCHANGED <<previous, ledger>>
  <2>1. At(r, stage, stage') /\ At(r, used, used')
    BY <1>2, Same DEF Shapes, StageInv, Tasks
  <2>2. CASE stream[r].complete
    <3>1. \A k \in Kinds : stage'[r] \notin Flying(k)
      BY <1>2 DEF Kinds, Flying
    <3>2. used[r] \in Usages
      BY DEF LedgerInv, Account
    <3>3. Paying(r)
      BY <1>2, <2>1, <2>2, <3>1, <3>2 DEF Paying
    <3> QED
      BY <3>3 DEF Spends
  <2>3. CASE ~stream[r].complete
    <3>1. UNCHANGED ledgerVars
      BY <1>2, <2>3 DEF ledgerVars
    <3> QED
      BY <1>2, <2>1, <3>1, StagesMove DEF Spends
  <2> QED
    BY <2>2, <2>3
<1> QED
  BY <1>1, <1>2 DEF Leave

LEMMA SpendsKeeps ==
  ASSUME StageInv, LedgerInv, NEW r \in Runs, Spends(r)
  PROVE  LedgerInv'
BY MovingTransfers, CountingTransfers, PayingTransfers, TransferKeeps DEF Spends

LEMMA LedgerStarts ==
  ASSUME Init
  PROVE  LedgerInv
<1>1. /\ used = [r \in Runs |-> Zero] /\ previous = [r \in Runs |-> Zero]
      /\ ledger = [t \in Trackers |-> Zero] /\ stage = [t \in Tasks |-> "new"]
  BY DEF Init, BuildInit
<1>2. Zero \in Usages /\ \A k \in Kinds : Zero[k] = 0
  BY DEF Zero, Usages, Kinds
<1>3. ASSUME NEW r \in Runs PROVE used[r] = Zero /\ previous[r] = Zero /\ stage[r] = "new"
  BY <1>1 DEF Tasks
<1>4. ASSUME NEW r \in Runs PROVE Account(stage[r], used[r], previous[r])
  BY <1>2, <1>3, BurstIsPositive DEF Account
<1>5. ASSUME NEW t \in Trackers
      PROVE  ledger[t] \in Usages /\ \A k \in Kinds : ledger[t][k] = Tally(previous, k, Under(t))
  <2>1. IsFiniteSet(Under(t)) /\ Under(t) \subseteq Runs
    BY RunsAreFinite, FS_Subset DEF Under
  <2>2. ASSUME NEW k \in Kinds PROVE Tally(previous, k, Under(t)) = 0
    <3>1. \A x \in Under(t) : previous[x][k] = 0
      BY <1>2, <1>3, <2>1
    <3> QED
      BY <2>1, <3>1, TallyOfZero
  <2>3. ledger[t] = Zero
    BY <1>1
  <2> QED
    BY <1>2, <2>2, <2>3
<1>6. ASSUME NEW k \in Kinds
      PROVE  ledger[Root][k] + Times(Burst[k], InFlight(k))
               <= Limit(k) + Spare(Burst[k], Spending(k))
  <2>1. "new" \notin Flying(k)
    BY DEF Flying
  <2>2. \A r \in Runs : ~Open(k, stage[r], used[r], previous[r]) /\ ~(used[r][k] > 0)
    BY <1>2, <1>3, <2>1 DEF Open
  <2>3. InFlight(k) = {} /\ Spending(k) = {}
    BY <2>2 DEF InFlight, Spending
  <2>4. Times(Burst[k], InFlight(k)) = 0 /\ Spare(Burst[k], Spending(k)) = 0
    BY <2>3, FS_EmptySet, BurstIsPositive, Multiples DEF Spare, Times
  <2>5. ledger[Root][k] = 0
    BY <1>1, <1>2, RootSeesAll
  <2>6. Limit(k) \in Nat
    BY RunAssumption DEF Limit
  <2> QED
    BY <2>4, <2>5, <2>6
<1>7. /\ used = [r \in Runs |-> used[r]] /\ previous = [r \in Runs |-> previous[r]]
      /\ ledger = [t \in Trackers |-> ledger[t]]
  BY <1>1
<1> QED
  BY <1>4, <1>5, <1>6, <1>7 DEF LedgerInv

LEMMA BuildingKeepsLedger ==
  ASSUME StageInv, RoutingAssumption, LedgerInv, Building
  PROVE  LedgerInv'
<1>1. used' = used /\ previous' = previous /\ ledger' = ledger
  BY DEF Building, Start, runVars, ledgerVars
<1>2. ASSUME NEW r \in Runs
      PROVE  stage'[r] = stage[r] \/ (stage[r] \in Idle /\ stage'[r] \in Idle \cup {"selecting"})
  BY BuildFrame
<1>3. \A k \in Kinds : /\ Idle \cap Owing(k) = {}
                       /\ (Idle \cup {"selecting"}) \cap Flying(k) = {}
                       /\ (Idle \cup {"selecting"}) \cap Room(k) = {}
  BY DEF Kinds, Idle, Owing, Flying, Room
<1>4. ASSUME NEW r \in Runs PROVE Account(stage'[r], used'[r], previous'[r])
  <2>1. Account(stage[r], used[r], previous[r])
    BY DEF LedgerInv
  <2> QED
    BY <1>1, <1>2, <1>3, <2>1 DEF Account
<1>5. ASSUME NEW k \in Kinds, NEW r \in Runs
      PROVE  Open(k, stage'[r], used'[r], previous'[r]) <=> Open(k, stage[r], used[r], previous[r])
  BY <1>1, <1>2, <1>3 DEF Open
<1>6. ASSUME NEW k \in Kinds PROVE InFlight(k)' = InFlight(k) /\ Spending(k)' = Spending(k)
  BY <1>1, <1>5 DEF InFlight, Spending
<1>7. \A k \in Kinds :
        ledger'[Root][k] + Times(Burst[k], InFlight(k)') <= Limit(k) + Spare(Burst[k], Spending(k)')
  BY <1>1, <1>6 DEF LedgerInv
<1>8. \A t \in Trackers : /\ ledger'[t] \in Usages
                          /\ \A k \in Kinds : ledger'[t][k] = Tally(previous', k, Under(t))
  BY <1>1 DEF LedgerInv
<1>9. /\ used' = [r \in Runs |-> used'[r]] /\ previous' = [r \in Runs |-> previous'[r]]
      /\ ledger' = [t \in Trackers |-> ledger'[t]]
  BY <1>1 DEF LedgerInv
<1> QED
  BY <1>4, <1>7, <1>8, <1>9 DEF LedgerInv

LEMMA LedgerKeeps ==
  ASSUME RoutingAssumption, AppInv, FlowInv, LedgerInv, [Next]_vars
  PROVE  LedgerInv'
<1>1. StageInv /\ Shapes /\ ThenInv
  BY DEF AppInv, RoutingInv, HookInv, Reported, FlowInv, Shapes, ThenInv
<1>2. CASE Building
  BY <1>1, <1>2, BuildingKeepsLedger
<1>3. ASSUME NEW r \in Runs, RunStep(r) PROVE LedgerInv'
  <2>1. Own(r)
    BY <1>1, <1>3, RunPaces DEF Paced
  <2> QED
    BY <1>1, <1>3, <2>1, RunSpends, SpendsKeeps
<1>4. ASSUME NEW r \in Runs, Interrupt(r) PROVE LedgerInv'
  BY <1>1, <1>4, CutSpends, SpendsKeeps DEF Interrupt
<1>5. ASSUME NEW r \in Runs, Leave(r) PROVE LedgerInv'
  BY <1>1, <1>5, LeaveSpends, SpendsKeeps
<1>6. CASE UNCHANGED <<stage, used, previous, ledger>>
  <2>1. \A k \in Kinds : InFlight(k)' = InFlight(k) /\ Spending(k)' = Spending(k)
    BY <1>6 DEF InFlight, Spending
  <2>2. \A k \in Kinds :
          ledger'[Root][k] + Times(Burst[k], InFlight(k)') <= Limit(k) + Spare(Burst[k], Spending(k)')
    BY <1>6, <2>1 DEF LedgerInv
  <2>3. \A t \in Trackers : /\ ledger'[t] \in Usages
                            /\ \A k \in Kinds : ledger'[t][k] = Tally(previous', k, Under(t))
    BY <1>6 DEF LedgerInv
  <2>4. \A r \in Runs : Account(stage'[r], used'[r], previous'[r])
    BY <1>6 DEF LedgerInv
  <2>5. /\ used' = [r \in Runs |-> used'[r]] /\ previous' = [r \in Runs |-> previous'[r]]
        /\ ledger' = [t \in Trackers |-> ledger'[t]]
    BY <1>6 DEF LedgerInv
  <2> QED
    BY <2>2, <2>3, <2>4, <2>5 DEF LedgerInv
<1>7. ASSUME NEW r \in Runs, Read(r) PROVE LedgerInv'
  BY <1>6, <1>7 DEF Read, Deliver, Translate, TranslateFails, buildVars, ledgerVars
<1>8. CASE UNCHANGED vars
  BY <1>6, <1>8 DEF vars, buildVars, runVars, ledgerVars
<1> QED
  BY <1>2, <1>3, <1>4, <1>5, <1>7, <1>8 DEF Next, Building

LEMMA LedgerHolds == Spec => []LedgerInv
<1>1. Init => LedgerInv
  BY LedgerStarts
<1>2. AppInv /\ FlowInv /\ LedgerInv /\ [Next]_vars => LedgerInv'
  BY LedgerKeeps, RoutingAssumption
<1> QED
  BY <1>1, <1>2, AppHolds, FlowHolds, PTL DEF Spec

LEMMA SpentIs ==
  ASSUME NEW t
  PROVE  \A k \in Kinds : Spent(t)[k] = Tally(used, k, Under(t))
<1>1. Spent(t).requests = Tally(used, "requests", Under(t))
  BY DEF Spent, Tally, Sums, First, MapThenSumSet, MapThenFoldSet
<1>2. Spent(t).tools = Tally(used, "tools", Under(t))
  BY DEF Spent, Tally, Sums, First, MapThenSumSet, MapThenFoldSet
<1> QED
  BY <1>1, <1>2 DEF Kinds

\* For any number of runs, trackers and requests: what a tracker has recorded
\* is never more than its runs have used, and all of it when they are over,
\* however they ended (RunUsageRecorder.record, wrap_run, UsageTracker.add).
THEOREM LedgersAreExact == Spec => []LedgerIsExact
<1>1. LedgerInv => LedgerIsExact
  <2> SUFFICES ASSUME LedgerInv, NEW t \in Trackers
               PROVE  /\ ledger[t].requests <= Spent(t).requests /\ ledger[t].tools <= Spent(t).tools
                      /\ (\A r \in Under(t) : stage[r] \notin Active) => ledger[t] = Spent(t)
    BY DEF LedgerIsExact
  <2>1. IsFiniteSet(Under(t)) /\ Under(t) \subseteq Runs
    BY RunsAreFinite, FS_Subset DEF Under
  <2>2. ASSUME NEW k \in Kinds
        PROVE  /\ ledger[t][k] <= Spent(t)[k]
               /\ (\A r \in Under(t) : stage[r] \notin Active) => ledger[t][k] = Spent(t)[k]
    <3>1. \A r \in Under(t) : /\ used[r][k] \in Nat /\ previous[r][k] \in Nat /\ previous[r][k] <= used[r][k]
                              /\ used[r][k] # previous[r][k] => stage[r] \in Owing(k)
      BY <2>1, LedgerTypes
    <3>2. ledger[t][k] = Tally(previous, k, Under(t)) /\ Spent(t)[k] = Tally(used, k, Under(t))
      BY SpentIs DEF LedgerInv
    <3>3. Tally(previous, k, Under(t)) <= Tally(used, k, Under(t))
      BY <2>1, <3>1, TallyIsMonotone
    <3>4. ASSUME \A r \in Under(t) : stage[r] \notin Active
          PROVE  Tally(previous, k, Under(t)) = Tally(used, k, Under(t))
      <4>1. Owing(k) \subseteq Active
        BY DEF Owing, Active
      <4>2. \A r \in Under(t) : used[r][k] = previous[r][k]
        BY <3>1, <3>4, <4>1
      <4>3. \A r \in Under(t) : used[r][k] <= previous[r][k]
        BY <3>1, <4>2
      <4>4. Tally(used, k, Under(t)) <= Tally(previous, k, Under(t))
        BY <2>1, <3>1, <4>3, TallyIsMonotone
      <4>5. Tally(used, k, Under(t)) \in Nat /\ Tally(previous, k, Under(t)) \in Nat
        BY <2>1, <3>1, TallyIsNatural
      <4> QED
        BY <3>3, <4>4, <4>5
    <3> QED
      BY <3>2, <3>3, <3>4
  <2>3. "requests" \in Kinds /\ "tools" \in Kinds
    BY DEF Kinds
  <2>4. ledger[t].requests <= Spent(t).requests /\ ledger[t].tools <= Spent(t).tools
    BY <2>2, <2>3
  <2>5. ASSUME \A r \in Under(t) : stage[r] \notin Active PROVE ledger[t] = Spent(t)
    <3>1. ledger[t].requests = Spent(t).requests /\ ledger[t].tools = Spent(t).tools
      BY <2>2, <2>3, <2>5
    <3>2. ledger[t] = [requests |-> ledger[t].requests, tools |-> ledger[t].tools]
      BY DEF LedgerInv, Usages
    <3>3. Spent(t) = [requests |-> Spent(t).requests, tools |-> Spent(t).tools]
      BY DEF Spent
    <3> QED
      BY <3>1, <3>2, <3>3
  <2> QED
    BY <2>4, <2>5
<1> QED
  BY <1>1, LedgerHolds, PTL

\* For any number of runs that share the limits of a root tracker, and of calls
\* in a response: together they exceed a limit by no more than what each that
\* spends may count between two recordings, one request or the calls of one
\* response, less one (check_before_request, check_before_tool_call,
\* UsageTracker).
THEOREM BudgetsHold == Spec => []BudgetHolds
<1>1. LedgerInv => BudgetHolds
  <2> SUFFICES ASSUME LedgerInv, NEW k \in Kinds
               PROVE  Spent(Root)[k] <=
                        Limit(k) + Max({0, Burst[k] * Cardinality({r \in Runs : used[r][k] > 0}) - 1})
    BY DEF BudgetHolds, Zero, Kinds, Limit
  <2> DEFINE P == {r \in Runs : used[r][k] > 0}
             O == {r \in Runs : used[r][k] # previous[r][k]}
             W == Spending(k)
             F == InFlight(k)
             Q == W \ P
             n == Burst[k]
             most == Max({0, n * Cardinality(P) - 1})
             spent == Tally(used, k, Runs)
             l == ledger[Root][k]
  <2>1. /\ \A S \in SUBSET Runs : IsFiniteSet(S) /\ Cardinality(S) \in Nat
        /\ P \subseteq Runs /\ O \subseteq Runs /\ W \subseteq Runs /\ F \subseteq Runs /\ Q \subseteq Runs
    <3>1. \A S \in SUBSET Runs : IsFiniteSet(S) /\ Cardinality(S) \in Nat
      BY RunsAreFinite, FS_Subset, FS_CardinalityType
    <3> QED
      BY <3>1 DEF Spending, InFlight
  <2>2. Under(Root) = Runs
    BY RootSeesAll DEF Under
  <2>3. Spent(Root)[k] = spent
    BY <2>2, SpentIs
  <2>4. ledger[Root][k] = Tally(previous, k, Runs)
    BY <2>2, RootSeesAll DEF LedgerInv
  <2>5. \A r \in Runs : /\ used[r][k] \in Nat /\ previous[r][k] \in Nat
                        /\ previous[r][k] <= used[r][k] /\ used[r][k] <= previous[r][k] + n
    BY LedgerTypes
  <2>6. n \in Nat /\ \A S \in SUBSET Runs : Times(n, S) \in Nat
    <3>1. n \in Nat
      BY BurstIsPositive
    <3> QED
      BY <2>1, <3>1, TimesOf
  <2>7. most >= 0 /\ most >= Times(n, P) - 1 /\ most \in Int
    <3> DEFINE c == n * Cardinality(P) - 1
    <3>1. c \in Int
      BY <2>1, <2>6
    <3> HIDE DEF c
    <3>2. \E x \in {0, c} : \A y \in {0, c} : x >= y
      <4>1. CASE c >= 0
        BY <3>1, <4>1
      <4>2. CASE ~(c >= 0)
        BY <3>1, <4>2
      <4> QED
        BY <4>1, <4>2
    <3>3. Max({0, c}) \in {0, c} /\ \A y \in {0, c} : Max({0, c}) >= y
      BY <3>2 DEF Max
    <3> QED
      BY <3>1, <3>3 DEF c, Times
  <2>8. Limit(k) \in Nat /\ l \in Nat /\ spent \in Nat
    <3>1. spent \in Nat
      BY <2>5, RunsAreFinite, TallyIsNatural
    <3>2. Limit(k) \in Nat
      BY RunAssumption DEF Limit
    <3>3. l \in Nat
      BY RootSeesAll, UsageOf DEF LedgerInv
    <3> QED
      BY <3>1, <3>2, <3>3
  <2>9. CASE P = {}
    <3>1. \A r \in Runs : used[r][k] = 0
      BY <2>5, <2>9
    <3>2. spent = 0
      BY <3>1, RunsAreFinite, TallyOfZero
    <3> HIDE DEF most, spent
    <3>3. spent <= Limit(k) + most
      BY <2>7, <2>8, <3>2
    <3> QED
      BY <2>3, <3>3 DEF most
  <2>10. CASE P # {}
    <3>1. spent <= l + Times(n, O \cap Runs)
      <4>1. \A r \in Runs : /\ previous[r][k] \in Nat /\ used[r][k] \in Nat
                            /\ used[r][k] <= previous[r][k] + (IF r \in O THEN n ELSE 0)
        BY <2>5, <2>6
      <4> HIDE DEF O, n
      <4> QED
        BY <2>4, <2>6, <4>1, RunsAreFinite, TallyCounts DEF Times
    <3>2. spent <= l + Times(n, O)
      <4>1. O \cap Runs = O
        OBVIOUS
      <4> HIDE DEF O
      <4> QED
        BY <3>1, <4>1
    <3>3. O \subseteq P
      BY <2>5
    <3>4. O \subseteq F /\ Q \subseteq F /\ O \cap Q = {} /\ W = P \cup Q /\ P \cap Q = {} /\ W # {}
      <4>1. O \subseteq F /\ W = P \cup F
        BY DEF InFlight, Spending, Open
      <4> HIDE DEF O, P, W, F
      <4> QED
        BY <2>10, <3>3, <4>1
    <3> HIDE DEF O, P, W, F, Q
    <3>5. Cardinality(W) = Cardinality(P) + Cardinality(Q)
      <4>1. Cardinality(P \cup Q) = Cardinality(P) + Cardinality(Q) - Cardinality(P \cap Q)
        BY <2>1, FS_Union
      <4> QED
        BY <2>1, <3>4, <4>1, FS_EmptySet
    <3>6. Cardinality(O) + Cardinality(Q) <= Cardinality(F)
      <4>1. Cardinality(O \cup Q) = Cardinality(O) + Cardinality(Q) - Cardinality(O \cap Q)
        BY <2>1, FS_Union
      <4>2. O \cup Q \subseteq F
        BY <3>4
      <4>3. Cardinality(O \cup Q) <= Cardinality(F)
        BY <2>1, <4>2, FS_Subset
      <4> QED
        BY <2>1, <3>4, <4>1, <4>3, FS_EmptySet
    <3>7. /\ Times(n, W) = Times(n, P) + Times(n, Q)
          /\ Times(n, O) + Times(n, Q) <= Times(n, F)
      <4>1. Times(n, W) = Times(n, P) + Times(n, Q)
        BY <2>1, <2>6, <3>5, Multiples DEF Times
      <4>2. n * (Cardinality(O) + Cardinality(Q)) = Times(n, O) + Times(n, Q)
        BY <2>1, <2>6, Multiples DEF Times
      <4>3. n * (Cardinality(O) + Cardinality(Q)) <= Times(n, F)
        <5>1. Cardinality(O) + Cardinality(Q) \in Nat /\ Cardinality(F) \in Nat
          BY <2>1
        <5> QED
          BY <2>6, <3>6, <5>1, Multiples DEF Times
      <4> QED
        BY <4>1, <4>2, <4>3
    <3>8. l + Times(n, F) <= Limit(k) + (Times(n, W) - 1)
      <4>1. l + Times(n, F) <= Limit(k) + Spare(n, W)
        BY DEF LedgerInv, F, W
      <4> QED
        BY <3>4, <4>1 DEF Spare
    <3>9. /\ Times(n, O) \in Nat /\ Times(n, P) \in Nat /\ Times(n, Q) \in Nat
          /\ Times(n, F) \in Nat /\ Times(n, W) \in Nat
      BY <2>1, <2>6
    <3> HIDE DEF most, spent, l, n
    <3>10. spent <= Limit(k) + most
      BY <2>7, <2>8, <3>2, <3>7, <3>8, <3>9
    <3> QED
      BY <2>3, <3>10 DEF most, P, n
  <2> QED
    BY <2>9, <2>10
<1> QED
  BY <1>1, LedgerHolds, PTL
-----------------------------------------------------------------------------
\* The types of what the invariants above leave open.
Stages == Active \cup {"new", "locking", "gathering", "constructing", "resolved", "ready", "failed", "over"}
Nexts == {"calling", "unwinding", "selecting", None}
Descriptors == [id : DOMAIN Requires, source : {"configuration", "caller"}]

TypeInv ==
  /\ stage \in [Tasks -> Stages] /\ then \in [Runs -> Nexts]
  /\ \A a \in Agents : context[a] \in Seq(Descriptors)

LEMMA BoundTyped ==
  ASSUME NEW d \in Definable, NEW c, Bound(d, c)
  PROVE  c \in Seq(Descriptors)
<1> DEFINE n == Len(d.capabilities)
<1>1. d.capabilities \in Seq(DOMAIN Requires)
  BY DEF Definable
<1>2. n \in Nat /\ \A i \in 1 .. n : d.capabilities[i] \in DOMAIN Requires
  BY <1>1
<1>3. c = [i \in 1 .. n |-> [id |-> d.capabilities[i],
                              source |-> IF i <= Len(Configured) THEN "configuration" ELSE "caller"]]
  BY DEF Bound
<1>4. \A i \in 1 .. n : c[i] \in Descriptors
  BY <1>2, <1>3 DEF Descriptors
<1>5. DOMAIN c = 1 .. n /\ c = [i \in 1 .. n |-> c[i]]
  BY <1>3
<1> HIDE DEF n
<1> QED
  BY <1>2, <1>4, <1>5

LEMMA StageTypes ==
  ASSUME RoutingAssumption, BuildAssumption, RunAssumption, AppInv, TypeInv, [Next]_vars
  PROVE  stage' \in [Tasks -> Stages]
<1>1. RouteInv /\ ThenInv
  BY DEF AppInv, RoutingInv, HookInv, Reported, ThenInv
<1>2. ASSUME NEW t \in Tasks, NEW to \in Stages, stage' = [stage EXCEPT ![t] = to]
      PROVE  stage' \in [Tasks -> Stages]
  BY <1>2 DEF TypeInv
<1>3. CASE UNCHANGED stage
  BY <1>3 DEF TypeInv
<1>4. ASSUME NEW t \in Tasks, Moved(t) PROVE stage' \in [Tasks -> Stages]
  <2>1. \E to \in {"failed", "locking", "gathering", "ready", "selecting"} : stage' = [stage EXCEPT ![t] = to]
    BY <1>4 DEF Moved, Become
  <2> QED
    BY <1>2, <2>1 DEF Stages, Active
<1>5. ASSUME NEW t \in Tasks, Chosen(t) PROVE stage' \in [Tasks -> Stages]
  <2>1. \E to \in {"resolved", "constructing"} : stage' = [stage EXCEPT ![t] = to]
    BY <1>5 DEF Chosen, Become
  <2> QED
    BY <1>2, <2>1 DEF Stages
<1>6. ASSUME NEW r \in Runs, Quiet(r) PROVE stage' \in [Tasks -> Stages]
  <2>1. r \in Tasks /\ \E to \in Active \cup {"over"} : stage' = [stage EXCEPT ![r] = to]
    BY <1>6 DEF Quiet, Tasks
  <2> QED
    BY <1>2, <2>1 DEF Stages
<1>7. ASSUME NEW r \in Runs, SelectModels(r) PROVE stage' \in [Tasks -> Stages]
  <2>1. r \in Tasks /\ (stage' = stage \/ \E to \in {"asking", "selected"} : stage' = [stage EXCEPT ![r] = to])
    BY <1>7 DEF SelectModels, Select, Selected, Become, Tasks
  <2> QED
    BY <1>2, <1>3, <2>1 DEF Stages, Active
<1> QED
  BY <1>1, <1>3, <1>4, <1>5, <1>6, <1>7, Steps

LEMMA ContextTypes ==
  ASSUME RoutingAssumption, BuildAssumption, RunAssumption, AppInv, TypeInv, [Next]_vars
  PROVE  \A a \in Agents : context'[a] \in Seq(Descriptors)
<1> DEFINE Typed == \A a \in Agents : context'[a] \in Seq(Descriptors)
<1>1. RoutingInv /\ ThenInv /\ ContextInv /\ FactoryInv /\ RoutingInv
  BY DEF AppInv, HookInv, Reported, ThenInv, FactoryInv
<1>2. ASSUME NEW a \in Agents, NEW c \in Seq(Descriptors), context' = [context EXCEPT ![a] = c]
      PROVE  Typed
  BY <1>1, <1>2 DEF TypeInv, ContextInv
<1>3. CASE UNCHANGED context
  BY <1>3 DEF TypeInv
<1>4. ASSUME NEW a \in Agents, Bind(a), stage[a] # "new" PROVE Typed
  <2> DEFINE own == definition[a].capabilities
             d == [definition[a] EXCEPT !.capabilities = Configured \o own]
             c == Described(d.capabilities, From("configuration", Configured) \o From("caller", own))
  <2>1. definition[a] \in Definable
    BY <1>1, <1>4 DEF ContextInv
  <2>2. d \in Definable /\ Bound(d, c)
    BY <2>1, BoundBy
  <2>3. context' = [context EXCEPT ![a] = c]
    BY <1>4 DEF Bind
  <2> HIDE DEF own, d, c
  <2>4. c \in Seq(Descriptors)
    BY <2>2, BoundTyped
  <2> QED
    BY <1>2, <2>3, <2>4
<1>5. ASSUME NEW a \in Agents, Extend(a) PROVE Typed
  <2>1. stage[a] = "resolved" /\ definition[a] \in Definable /\ Bound(definition[a], context[a])
    BY <1>1, <1>5 DEF Extend, ContextInv
  <2>2. PICK x \in Extras :
          LET d == [definition[a] EXCEPT !.capabilities = Append(@, x)]
              sources == [i \in DOMAIN context[a] |-> context[a][i].source]
          IN context' = [context EXCEPT ![a] = Described(d.capabilities, Append(sources, "caller"))]
    BY <1>5 DEF Extend
  <2> DEFINE d == [definition[a] EXCEPT !.capabilities = Append(@, x)]
             c == Described(d.capabilities, Append([i \in DOMAIN context[a] |-> context[a][i].source], "caller"))
  <2>3. x \in DOMAIN Requires
    BY DEF BuildAssumption
  <2>4. d \in Definable /\ Bound(d, c)
    BY <2>1, <2>3, ExtendedBy
  <2>5. context' = [context EXCEPT ![a] = c]
    BY <2>2
  <2> HIDE DEF d, c
  <2>6. c \in Seq(Descriptors)
    BY <2>4, BoundTyped
  <2> QED
    BY <1>2, <2>5, <2>6
<1>6. ASSUME NEW a \in Agents, Enter(a) PROVE Typed
  <2>1. CASE Bind(a)
    BY <1>4, <1>6, <2>1 DEF Enter
  <2>2. CASE UNCHANGED definitionVars
    BY <1>3, <2>2 DEF definitionVars
  <2> QED
    BY <1>6, <2>1, <2>2 DEF Enter
<1>7. ASSUME NEW a \in Agents, Gathered(a) PROVE Typed
  BY <1>4, <1>7 DEF Gathered
<1>8. ASSUME NEW a \in Agents, Prepare(a) \/ GatherFails(a) PROVE Typed
  BY <1>3, <1>8 DEF Prepare, GatherFails, definitionVars
<1>9. CASE UNCHANGED factoryVars
  BY <1>3, <1>9 DEF factoryVars, definitionVars
<1>10. CASE BuildNext
  BY <1>5, <1>6, <1>7, <1>8, <1>9, <1>10 DEF BuildNext, BuildStep, Compile, Abandon
<1>11. CASE \E r \in Runs : Start(r) \/ RunStep(r) \/ Interrupt(r) \/ Read(r) \/ Leave(r)
  BY <1>1, <1>9, <1>11, RunFrame
<1>12. CASE UNCHANGED vars
  BY <1>9, <1>12 DEF vars, buildVars
<1> QED
  BY <1>10, <1>11, <1>12 DEF Next

LEMMA ThenTypes ==
  ASSUME TypeInv, [Next]_vars
  PROVE  then' \in [Runs -> Nexts]
<1>1. ASSUME NEW r \in Runs, NEW v \in Nexts, then' = [then EXCEPT ![r] = v]
      PROVE  then' \in [Runs -> Nexts]
  BY <1>1 DEF TypeInv
<1>2. CASE UNCHANGED then
  BY <1>2 DEF TypeInv
<1>3. CASE BuildNext /\ UNCHANGED runVars
  BY <1>2, <1>3 DEF runVars
<1>4. ASSUME NEW r \in Runs, Start(r) \/ Read(r) PROVE then' \in [Runs -> Nexts]
  BY <1>2, <1>4 DEF Start, runVars, Read, Deliver, Translate, TranslateFails
<1>5. ASSUME NEW r \in Runs, Respond(r) PROVE then' \in [Runs -> Nexts]
  <2>1. then' = then \/ \E v \in {"calling", "unwinding", "selecting"} : then' = [then EXCEPT ![r] = v]
    BY <1>5 DEF Respond
  <2> QED
    BY <1>1, <1>2, <2>1 DEF Nexts
<1>6. ASSUME NEW r \in Runs, Noted(r) PROVE then' \in [Runs -> Nexts]
  BY <1>1, <1>6 DEF Noted, Nexts
<1>7. ASSUME NEW r \in Runs, RunStep(r), ~Respond(r), ~Noted(r) PROVE then' \in [Runs -> Nexts]
  <2>1. UNCHANGED then
    BY <1>7 DEF RunStep, SelectModels, SelectFails, OfferFails, BeforeRequest, Part, RequestFails, Call,
                Hook, Proceed, Returned, Raises, Notified, Unwind, Settled, runVars
  <2> QED
    BY <1>2, <2>1
<1>8. ASSUME NEW r \in Runs, Cut(r) PROVE then' \in [Runs -> Nexts]
  BY <1>1, <1>8 DEF Cut, Nexts
<1>9. ASSUME NEW r \in Runs, Interrupt(r) \/ Leave(r) PROVE then' \in [Runs -> Nexts]
  BY <1>2, <1>8, <1>9 DEF Interrupt, Leave
<1>10. CASE UNCHANGED vars
  BY <1>2, <1>10 DEF vars, runVars
<1> QED
  BY <1>3, <1>4, <1>5, <1>6, <1>7, <1>9, <1>10 DEF Next

LEMMA TypesHold == Spec => []TypeInv
<1>1. Init => TypeInv
  <2> SUFFICES ASSUME Init PROVE TypeInv
    OBVIOUS
  <2>1. /\ stage = [t \in Tasks |-> "new"] /\ then = [r \in Runs |-> None]
        /\ context = [a \in Agents |-> <<>>]
    BY DEF Init, BuildInit
  <2>2. "new" \in Stages /\ None \in Nexts
    BY DEF Stages, Nexts
  <2>3. \A a \in Agents : context[a] \in Seq(Descriptors)
    <3>1. <<>> \in Seq(Descriptors)
      OBVIOUS
    <3> QED
      BY <2>1, <3>1
  <2> QED
    BY <2>1, <2>2, <2>3 DEF TypeInv
<1>2. AppInv /\ TypeInv /\ [Next]_vars => TypeInv'
  BY StageTypes, ContextTypes, ThenTypes, RoutingAssumption, BuildAssumption, RunAssumption DEF TypeInv
<1> QED
  BY <1>1, <1>2, AppHolds, PTL DEF Spec

\* The state of the factory, the router and the runs keeps its type
\* (AgentFactory, ModelRouter, RunUsageRecorder, PydanticAIStream).
THEOREM AgentsAreTyped == Spec => []TypeOK
<1>1. AppInv /\ FlowInv /\ LedgerInv /\ TypeInv => TypeOK
  <2> SUFFICES ASSUME AppInv, FlowInv, LedgerInv, TypeInv PROVE TypeOK
    OBVIOUS
  <2>1. RoutingTypeOK /\ capabilities \in BOOLEAN /\ gathering \in Agents \cup {None} /\ creations \in Nat
    <3>1. RoutingTypeOK
      BY DEF AppInv, RoutingInv, RouteInv
    <3>2. LockInv
      BY DEF AppInv, FactoryInv
    <3>3. (capabilities = TRUE \/ capabilities = FALSE) /\ (creations = 0 \/ creations = 1)
      BY <3>2 DEF LockInv
    <3>4. gathering \in Agents \cup {None}
      BY <3>2 DEF LockInv
    <3>5. capabilities \in BOOLEAN
      BY <3>3, Zenon
    <3>6. creations \in Nat
      BY <3>3
    <3> QED
      BY <3>1, <3>4, <3>5, <3>6
  <2>2. \A a \in Agents : definition[a] # None => definition[a].capabilities \in Seq(DOMAIN Requires)
    BY DEF AppInv, FactoryInv, ContextInv, Definable
  <2>3. BuildTypeOK
    BY <2>1, <2>2 DEF BuildTypeOK, TypeInv, Descriptors
  <2>4. stage \in [Tasks -> Active \cup {"new", "locking", "gathering", "constructing", "resolved",
                                          "ready", "failed", "over"}]
        /\ then \in [Runs -> {"calling", "unwinding", "selecting", None}]
    BY DEF TypeInv, Stages, Nexts
  <2>5. used \in [Runs -> Usages] /\ previous \in [Runs -> Usages] /\ ledger \in [Trackers -> Usages]
    BY DEF LedgerInv, Account
  <2>6. hooked \in [Runs -> [DOMAIN NoHooks -> 0 .. Hooks]]
    BY NoHooksCount, RunAssumption DEF AppInv, HookInv, HookCounts
  <2>7. outcome \in [Runs -> {"none", "result", "error", "cancelled"}]
    <3>1. ASSUME NEW r \in Runs PROVE outcome[r] \in {"none", "result", "error", "cancelled"}
      <4>1. stage[r] \notin Ending => outcome[r] = "none"
        BY DEF AppInv, HookInv, Reported
      <4>2. stage[r] \in Ending => outcome[r] \in {"result", "error", "cancelled"}
        BY DEF FlowInv, Flow
      <4> QED
        BY <4>1, <4>2
    <3>2. outcome = [r \in Runs |-> outcome[r]]
      BY DEF AppInv, HookInv
    <3> QED
      BY <3>1, <3>2
  <2>8. upstream \in [Runs -> Seq(Upstreams)] /\ stream \in [Runs -> Streams] /\ got \in [Runs -> Seq(Events)]
    BY DEF FlowInv, Flow
  <2> QED
    BY <2>3, <2>4, <2>5, <2>6, <2>7, <2>8 DEF TypeOK, Upstreams, Streams
<1> QED
  BY <1>1, AppHolds, FlowHolds, LedgerHolds, TypesHold, PTL

=============================================================================
