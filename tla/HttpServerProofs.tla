-------------------------- MODULE HttpServerProofs --------------------------
(***************************************************************************)
(* Theorems about the HTTP transport, for any runs, agents, conversations  *)
(* and slots: a completed run is durable, slots are conserved, responses   *)
(* are well formed and end, a history loses nothing where its runs take    *)
(* turns, and the server implements RunOutcome.                            *)
(***************************************************************************)
EXTENDS HttpServer, ServerProofs

\* The producer's frame enters the queue.
LEMMA PutIsDurable ==
  ASSUME ServerAssumption, DurableInv, NEW r \in Run, Put(r)
  PROVE  DurableInv'
<1>1. UNCHANGED <<got, seq, stored>> /\ todo[r] # <<>>
  BY DEF Put, progress, history
<1>2. Durable(todo)'
  BY <1>1, ResumeIsDurable DEF Put
<1>3. Append(queue[r], Head(todo[r])) \in Seq(Sendable(r))
  BY <1>1, HeadTailProperties, AppendProperties DEF DurableInv, Durable
<1>4. Durable(queue)'
  BY <1>1, <1>3, ReplacedIsDurable DEF Put, DurableInv, Durable
<1>5. Durable(got)'
  BY <1>1 DEF DurableInv, Durable, Sendable
<1> QED
  BY <1>1, <1>2, <1>4, <1>5 DEF DurableInv

\* The client takes the frame in the queue.
LEMMA TakeIsDurable ==
  ASSUME DurableInv, NEW r \in Run, Take(r)
  PROVE  DurableInv'
<1>1. UNCHANGED <<todo, seq, stored>> /\ queue[r] # <<>>
  BY DEF Take, progress, history
<1>2. Append(got[r], Head(queue[r])) \in Seq(Sendable(r))
  BY <1>1, HeadTailProperties, AppendProperties DEF DurableInv, Durable
<1>3. Durable(got)'
  BY <1>1, <1>2, ReplacedIsDurable DEF Take, DurableInv, Durable
<1>4. <<>> \in Seq(Sendable(r))
  OBVIOUS
<1>5. Durable(queue)'
  BY <1>1, <1>4, ReplacedIsDurable DEF Take, DurableInv, Durable
<1>6. Durable(todo)'
  BY <1>1 DEF DurableInv, Durable, Sendable
<1> QED
  BY <1>1, <1>3, <1>5, <1>6 DEF DurableInv

\* Every step of the server preserves the invariant.
LEMMA HttpStepIsDurable ==
  ASSUME ServerAssumption, DurableInv, [Next]_vars
  PROVE  DurableInv'
<1>1. ASSUME NEW r \in Run, Start(r)
      PROVE  DurableInv'
  BY <1>1, EnterIsDurable DEF Start
<1>2. ASSUME NEW r \in Run, TaskStep(r)
      PROVE  DurableInv'
  <2>1. CASE RunStep(r)
    BY <2>1, RunStepIsDurable
  <2>2. CASE InterruptRun(r)
    BY <2>2, InterruptIsDurable
  <2>3. CASE InterruptReport(r)
    <3>1. UNCHANGED <<seq, stored, queue, got>>
      BY <2>3 DEF InterruptReport, progress, history
    <3>2. <<>> \in Seq(Sendable(r)) /\ todo' = [todo EXCEPT ![r] = <<>>]
      BY <2>3 DEF InterruptReport
    <3>3. Durable(todo)'
      BY <3>1, <3>2, ReplacedIsDurable DEF DurableInv, Durable
    <3>4. Durable(queue)' /\ Durable(got)'
      BY <3>1 DEF DurableInv, Durable, Sendable
    <3> QED
      BY <3>1, <3>3, <3>4 DEF DurableInv
  <2>4. CASE Put(r)
    BY <2>4, PutIsDurable
  <2> QED
    BY <1>2, <2>1, <2>2, <2>3, <2>4 DEF TaskStep
<1>3. ASSUME NEW r \in Run, Expire(r)
      PROVE  DurableInv'
  BY <1>3, QuietIsDurable DEF Expire, progress, history
<1>4. ASSUME NEW r \in Run, Take(r)
      PROVE  DurableInv'
  BY <1>4, TakeIsDurable
<1>5. ASSUME NEW r \in Run, Disconnect(r) \/ Cancel(r)
      PROVE  DurableInv'
  BY <1>5, QuietIsDurable DEF Disconnect, Cancel, progress, history
<1>6. CASE Close
  BY <1>6, QuietIsDurable DEF Close, progress, history
<1>7. CASE UNCHANGED vars
  BY <1>7, QuietIsDurable DEF vars, runtimeVars, control, progress, history
<1> QED
  BY <1>1, <1>2, <1>3, <1>4, <1>5, <1>6, <1>7 DEF Next

\* For any number of runs, agents and conversations, capacities and stores, and
\* whatever is cancelled, times out or disconnects when: run_completed and
\* run_result reach the queue or the client only when the conversation has the
\* run's messages.
THEOREM HttpCompletedIsDurable == Spec => []CompletedIsDurable
<1>1. Init => DurableInv
  BY InitIsDurable DEF Init
<1>2. DurableInv /\ [Next]_vars => DurableInv'
  BY ServerAssumption, HttpStepIsDurable
<1>3. DurableInv => CompletedIsDurable
  BY DurableImplies
<1> QED
  BY <1>1, <1>2, <1>3, PTL DEF Spec

-----------------------------------------------------------------------------
(* Responses *)

\* What may come before what in a response.
Follows(f, g) ==
  /\ f.kind \in Events /\ g.kind \in Events => f.seq < g.seq
  /\ f.kind \in Terminals => g = End
  /\ f.kind = "run_completed" => g.kind \in {"run_result", "end"}
  /\ f.kind = "run_failed" => g.kind \in {"server_error", "run_cancelled", "end"}

WellFormed(s) ==
  \A j \in 1 .. Len(s) :
    /\ \A i \in 1 .. j - 1 : Follows(s[i], s[j])
    /\ s[j].kind = "run_result" => \E i \in 1 .. j - 1 : s[i].kind = "run_completed"

\* A response that goes on with another one.
LEMMA JoinedIsWellFormed ==
  ASSUME NEW s \in Seq(Frames), NEW t \in Seq(Frames), WellFormed(s), WellFormed(t),
         \A i \in 1 .. Len(s), j \in 1 .. Len(t) : Follows(s[i], t[j])
  PROVE  WellFormed(s \o t)
<1> DEFINE u == s \o t
<1>1. /\ Len(s) \in Nat /\ Len(t) \in Nat /\ Len(u) = Len(s) + Len(t)
      /\ \A i \in 1 .. Len(u) : u[i] = IF i <= Len(s) THEN s[i] ELSE t[i - Len(s)]
  BY ConcatProperties
<1> HIDE DEF u
<1>2. ASSUME NEW j \in 1 .. Len(u)
      PROVE  /\ \A i \in 1 .. j - 1 : Follows(u[i], u[j])
             /\ u[j].kind = "run_result" => \E i \in 1 .. j - 1 : u[i].kind = "run_completed"
  <2>1. CASE j <= Len(s)
    <3>1. j \in 1 .. Len(s) /\ u[j] = s[j]
      BY <1>1, <2>1
    <3>2. \A i \in 1 .. j - 1 : u[i] = s[i]
      BY <1>1, <2>1
    <3> QED
      BY <3>1, <3>2 DEF WellFormed
  <2>2. CASE j > Len(s)
    <3> DEFINE k == j - Len(s)
    <3>1. k \in 1 .. Len(t) /\ u[j] = t[k] /\ j = k + Len(s)
      BY <1>1, <2>2
    <3> HIDE DEF k
    <3>2. ASSUME NEW i \in 1 .. j - 1
          PROVE  Follows(u[i], u[j])
      <4>1. CASE i <= Len(s)
        <5>1. i \in 1 .. Len(s) /\ u[i] = s[i]
          BY <1>1, <4>1, <3>1
        <5> QED
          BY <3>1, <5>1
      <4>2. CASE i > Len(s)
        <5>1. i - Len(s) \in 1 .. k - 1 /\ u[i] = t[i - Len(s)]
          BY <1>1, <4>2, <3>1
        <5> QED
          BY <3>1, <5>1 DEF WellFormed
      <4> QED
        BY <4>1, <4>2, <1>1
    <3>3. ASSUME u[j].kind = "run_result"
          PROVE  \E i \in 1 .. j - 1 : u[i].kind = "run_completed"
      <4>1. PICK n \in 1 .. k - 1 : t[n].kind = "run_completed"
        BY <3>1, <3>3 DEF WellFormed
      <4>2. n + Len(s) \in 1 .. j - 1 /\ u[n + Len(s)] = t[n]
        BY <1>1, <3>1, <4>1
      <4> QED
        BY <4>1, <4>2
    <3> QED
      BY <3>2, <3>3
  <2> QED
    BY <2>1, <2>2, <1>1
<1> QED
  BY <1>2 DEF WellFormed, u

\* What has been sent of a response.
LEMMA PrefixIsWellFormed ==
  ASSUME NEW s \in Seq(Frames), NEW t \in Seq(Frames), WellFormed(s \o t)
  PROVE  WellFormed(s)
<1> DEFINE u == s \o t
<1>1. /\ Len(s) \in Nat /\ Len(t) \in Nat /\ Len(u) = Len(s) + Len(t)
      /\ \A i \in 1 .. Len(u) : u[i] = IF i <= Len(s) THEN s[i] ELSE t[i - Len(s)]
  BY ConcatProperties
<1>2. WellFormed(u)
  OBVIOUS
<1> HIDE DEF u
<1>3. \A i \in 1 .. Len(s) : u[i] = s[i] /\ i \in 1 .. Len(u)
  BY <1>1
<1> QED
  BY <1>1, <1>2, <1>3 DEF WellFormed

\* A run that has not begun to end has sent events only.
Opened(s, n) == \A i \in 1 .. Len(s) : s[i].kind = "event" /\ s[i].seq < n

\* After the events every ending is well-formed.
LEMMA EndingFollows ==
  ASSUME NEW s \in Seq(Frames), NEW n \in Nat, WellFormed(s), Opened(s, n),
         NEW t \in Seq(Frames), WellFormed(t),
         \A j \in 1 .. Len(t) : t[j].kind \in Events => t[j].seq = n
  PROVE  WellFormed(s \o t)
<1>1. ASSUME NEW i \in 1 .. Len(s), NEW j \in 1 .. Len(t)
      PROVE  Follows(s[i], t[j])
  <2>1. s[i].kind = "event" /\ s[i].seq < n
    BY DEF Opened
  <2>2. t[j].kind \in Events => t[j].seq = n
    OBVIOUS
  <2> QED
    BY <2>1, <2>2 DEF Follows, Terminals
<1> QED
  BY <1>1, JoinedIsWellFormed

LEMMA Triple ==
  ASSUME NEW S, NEW f \in S, NEW g \in S, NEW h \in S
  PROVE  /\ <<f, g, h>> \in Seq(S) /\ Len(<<f, g, h>>) = 3
         /\ <<f, g, h>>[1] = f /\ <<f, g, h>>[2] = g /\ <<f, g, h>>[3] = h
OBVIOUS

\* The frames that the runtime sends, each a response of its own.
Ending(t, n) ==
  /\ t \in Seq(Frames) /\ WellFormed(t)
  /\ \A j \in 1 .. Len(t) : t[j].kind \in Events => t[j].seq = n

LEMMA Endings ==
  ASSUME NEW n \in Nat, NEW error \in {"server_error", "run_cancelled"}
  PROVE  /\ Ending(<<Frame("event", n)>>, n) /\ Ending(<<Frame("run_failed", n)>>, n)
         /\ Ending(<<Frame(error, 0), End>>, n)
         /\ Ending(<<Frame("run_failed", n), Frame(error, 0), End>>, n)
         /\ Ending(<<Frame("run_completed", n), Frame("run_result", 0), End>>, n)
<1> USE DEF Frame, Frames, Events, Terminals, End
<1>1. ASSUME NEW t, t = <<Frame("event", n)>> \/ t = <<Frame("run_failed", n)>>
      PROVE  Ending(t, n)
  <2>1. PICK f \in Frames : t = <<f>> /\ f.kind # "run_result" /\ f.seq = n
    BY <1>1
  <2>2. t \in Seq(Frames) /\ Len(t) = 1 /\ t[1] = f
    BY <2>1
  <2>3. \A j \in 1 .. Len(t) : j = 1
    BY <2>2
  <2> QED
    BY <2>1, <2>2, <2>3 DEF WellFormed, Ending
<1>2. ASSUME NEW t, t = <<Frame(error, 0), End>>
      PROVE  Ending(t, n)
  <2>1. Len(t) = 2 /\ t[1] = Frame(error, 0) /\ t[2] = End /\ t \in Seq(Frames)
    BY <1>2
  <2>2. \A j \in 1 .. Len(t) : j = 1 \/ j = 2
    BY <2>1
  <2> QED
    BY <2>1, <2>2 DEF WellFormed, Follows, Ending
<1>3. ASSUME NEW t, \/ t = <<Frame("run_failed", n), Frame(error, 0), End>>
                    \/ t = <<Frame("run_completed", n), Frame("run_result", 0), End>>
      PROVE  Ending(t, n)
  <2>1. /\ Len(t) = 3 /\ t[3] = End /\ t \in Seq(Frames)
        /\ \/ t[1] = Frame("run_failed", n) /\ t[2] = Frame(error, 0)
           \/ t[1] = Frame("run_completed", n) /\ t[2] = Frame("run_result", 0)
    <3>1. /\ Frame("run_failed", n) \in Frames /\ Frame(error, 0) \in Frames
          /\ Frame("run_completed", n) \in Frames /\ Frame("run_result", 0) \in Frames
          /\ End \in Frames
      OBVIOUS
    <3>2. \A f, g, h \in Frames :
            /\ <<f, g, h>> \in Seq(Frames) /\ Len(<<f, g, h>>) = 3
            /\ <<f, g, h>>[1] = f /\ <<f, g, h>>[2] = g /\ <<f, g, h>>[3] = h
      BY Triple
    <3> HIDE DEF Frame, Frames, End, Events, Terminals
    <3>3. CASE t = <<Frame("run_failed", n), Frame(error, 0), End>>
      BY <3>1, <3>2, <3>3
    <3>4. CASE t = <<Frame("run_completed", n), Frame("run_result", 0), End>>
      BY <3>1, <3>2, <3>4
    <3> QED
      BY <1>3, <3>3, <3>4
  <2>2. \A j \in 1 .. Len(t) : j = 1 \/ j = 2 \/ j = 3
    BY <2>1
  <2>3. \A j \in 1 .. Len(t) : t[j].kind \in Events => t[j].seq = n
    BY <2>1, <2>2
  <2>4. ASSUME NEW j \in 1 .. Len(t)
        PROVE  \A i \in 1 .. j - 1 : Follows(t[i], t[j])
    BY <2>1, <2>2 DEF Follows
  <2>5. ASSUME NEW j \in 1 .. Len(t), t[j].kind = "run_result"
        PROVE  \E i \in 1 .. j - 1 : t[i].kind = "run_completed"
    <3>1. j = 2 /\ t[1].kind = "run_completed"
      BY <2>1, <2>2, <2>5
    <3> QED
      BY <3>1
  <2> QED
    BY <2>1, <2>3, <2>4, <2>5 DEF WellFormed, Ending
<1> QED
  BY <1>1, <1>2, <1>3

-----------------------------------------------------------------------------
(* The response of a run *)

\* What a run has sent and has still to send make a well-formed response; by
\* stage it is open, is ending with the trailer, or has ended with it.
Response(r) ==
  /\ Len(queue[r]) <= 1
  /\ WellFormed(Sent(r) \o todo[r])
  /\ stage[r] \notin {"reporting", "done"} => Opened(Sent(r), seq[r])
  /\ stage[r] \notin Sends => todo[r] = <<>>
  /\ stage[r] \in {"sending", "usage"} =>
       \E n \in 0 .. seq[r] : n < seq[r] /\ todo[r] = <<Frame("event", n)>>
  /\ stage[r] = "failed" => todo[r] = <<Frame("run_failed", seq[r])>> /\ last[r] = "failed"
  /\ stage[r] = "reporting" =>
       /\ todo[r] # <<>> /\ todo[r][Len(todo[r])] = End
       /\ Some(Sent(r), Terminals) \/ Some(todo[r], Terminals)
  /\ stage[r] = "done" /\ ~gone[r] => queue[r] = <<End>>

\* A run whose client is gone ends before it does anything else, and only such
\* a run is interrupted while it reports.
Life(r) ==
  /\ stage[r] = "new" => ~gone[r]
  /\ gone[r] => stage[r] = "done" \/ kick[r]
  /\ stage[r] = "reporting" => terminal[r] /\ (kick[r] => gone[r])

HttpInv ==
  /\ DurableInv /\ SlotInv /\ RunTypes /\ closing \in BOOLEAN
  /\ \A r \in Run : Response(r) /\ Life(r)

LEMMA ListTypes ==
  ASSUME DurableInv, NEW r \in Run
  PROVE  /\ todo \in [Run -> Seq(Frames)] /\ queue \in [Run -> Seq(Frames)]
         /\ got \in [Run -> Seq(Frames)] /\ seq \in [Run -> Nat]
         /\ todo[r] \in Seq(Frames) /\ queue[r] \in Seq(Frames)
         /\ got[r] \in Seq(Frames) /\ Sent(r) \in Seq(Frames) /\ seq[r] \in Nat
<1>1. /\ todo \in [Run -> Seq(Frames)] /\ queue \in [Run -> Seq(Frames)]
      /\ got \in [Run -> Seq(Frames)] /\ seq \in [Run -> Nat]
  BY DEF DurableInv, Durable
<1> QED
  BY <1>1, ConcatProperties DEF Sent

\* A run that no step is about, or that is cancelled.
LEMMA OthersKeep ==
  ASSUME NEW q, Response(q), Life(q),
         queue'[q] = queue[q], todo'[q] = todo[q], got'[q] = got[q],
         stage'[q] = stage[q], seq'[q] = seq[q], last'[q] = last[q],
         gone'[q] = gone[q], terminal'[q] = terminal[q],
         kick[q] => kick'[q], kick'[q] => kick[q] \/ ~terminal[q]
  PROVE  Response(q)' /\ Life(q)'
<1>1. Sent(q)' = Sent(q)
  BY DEF Sent
<1>2. Response(q)'
  BY <1>1 DEF Response
<1>3. Life(q)'
  BY DEF Life
<1> QED
  BY <1>2, <1>3

\* A run that moves on without a word.
LEMMA MoveKeeps ==
  ASSUME NEW r, Response(r), Life(r), stage[r] \notin Sends \cup {"done"},
         stage'[r] \notin Sends \cup {"done", "new"},
         queue'[r] = queue[r], todo'[r] = todo[r], got'[r] = got[r], seq'[r] = seq[r],
         gone'[r] = gone[r], kick'[r] = kick[r]
  PROVE  Response(r)' /\ Life(r)'
<1>1. Sent(r)' = Sent(r)
  BY DEF Sent
<1>2. Response(r)'
  BY <1>1 DEF Response, Sends
<1>3. Life(r)'
  BY DEF Life, Sends
<1> QED
  BY <1>2, <1>3

\* A frame goes from what is to be sent to an empty queue.
LEMMA FrameMoves ==
  ASSUME DurableInv, NEW r \in Run, NEW frames \in Seq(Frames), frames # <<>>,
         queue[r] = <<>>, queue'[r] = Append(queue[r], Head(frames)), got'[r] = got[r]
  PROVE  /\ queue'[r] = <<Head(frames)>>
         /\ Sent(r)' = Append(Sent(r), Head(frames))
         /\ Sent(r)' \in Seq(Frames)
         /\ Sent(r)' \o Tail(frames) = Sent(r) \o frames
<1> DEFINE g == got[r]
           h == Head(frames)
           t == Tail(frames)
<1>1. g \in Seq(Frames)
  BY ListTypes
<1>2. h \in Frames /\ t \in Seq(Frames)
  BY HeadTailProperties
<1>3. frames = <<h>> \o t
  <2>1. /\ <<h>> \in Seq(Frames) /\ Len(<<h>>) = 1 /\ <<h>>[1] = h
        /\ Len(t) = Len(frames) - 1 /\ \A i \in 1 .. Len(t) : t[i] = frames[i + 1]
        /\ frames[1] = h /\ Len(frames) \in Nat \ {0}
    BY <1>2, HeadTailProperties, EmptySeq
  <2> DEFINE u == <<h>> \o t
  <2>2. /\ u \in Seq(Frames) /\ Len(u) = Len(frames)
        /\ \A i \in 1 .. Len(frames) : u[i] = IF i <= 1 THEN h ELSE t[i - 1]
    BY <1>2, <2>1, ConcatProperties
  <2> HIDE DEF u, t, h
  <2>3. \A i \in 1 .. Len(frames) : u[i] = frames[i]
    <3> SUFFICES ASSUME NEW i \in 1 .. Len(frames) PROVE u[i] = frames[i]
      OBVIOUS
    <3>1. CASE i = 1
      BY <2>1, <2>2, <3>1
    <3>2. CASE i # 1
      <4>1. i - 1 \in 1 .. Len(t) /\ (i - 1) + 1 = i /\ ~(i <= 1)
        BY <2>1, <3>2
      <4> QED
        BY <2>1, <2>2, <4>1
    <3> QED
      BY <3>1, <3>2
  <2>4. u = frames
    BY <2>2, <2>3, SeqEqual
  <2> QED
    BY <2>4 DEF u
<1>4. queue'[r] = <<h>>
  OBVIOUS
<1> HIDE DEF h, t
<1>5. Sent(r) = g /\ Sent(r)' = g \o <<h>>
  <2>1. g \o <<>> = g
    BY <1>1, ConcatEmptySeq
  <2> QED
    BY <1>4, <2>1 DEF Sent
<1> HIDE DEF g
<1>6. <<h>> \in Seq(Frames)
  BY <1>2
<1>7. g \o <<h>> = Append(g, h) /\ g \o <<h>> \in Seq(Frames)
  BY <1>1, <1>2, <1>6, AppendIsConcat, ConcatProperties
<1>8. (g \o <<h>>) \o t = g \o (<<h>> \o t)
  BY <1>1, <1>2, <1>6, ConcatAssociative
<1> QED
  BY <1>3, <1>4, <1>5, <1>7, <1>8 DEF h, t

\* Sending the frames of an ending, or an event, after events.
LEMMA PushResponse ==
  ASSUME HttpAssumption, DurableInv, SlotInv, NEW r \in Run, Response(r),
         stage[r] \notin {"reporting", "done"},
         NEW frames \in Seq(Frames), frames # <<>>, WellFormed(frames),
         \A j \in 1 .. Len(frames) : frames[j].kind \in Events => frames[j].seq = seq[r],
         NEW blocked, NEW after, Push(r, frames, blocked, after), UNCHANGED got
  PROVE  /\ \/ /\ gone[r] /\ queue' = queue /\ Sent(r)' = Sent(r) /\ todo'[r] = <<>>
               /\ stage'[r] = after
            \/ /\ ~gone[r] /\ queue[r] # <<>> /\ queue' = queue /\ Sent(r)' = Sent(r)
               /\ todo'[r] = frames /\ stage'[r] = blocked
            \/ /\ ~gone[r] /\ queue[r] = <<>> /\ queue'[r] = <<Head(frames)>>
               /\ Sent(r)' = Append(Sent(r), Head(frames)) /\ todo'[r] = Tail(frames)
               /\ stage'[r] = IF Len(frames) = 1 THEN after ELSE blocked
         /\ Len(queue'[r]) <= 1
         /\ WellFormed(Sent(r)' \o todo'[r])
         /\ \A q \in Run \ {r} :
              queue'[q] = queue[q] /\ todo'[q] = todo[q] /\ stage'[q] = stage[q]
<1>1. /\ Sent(r) \in Seq(Frames) /\ todo[r] \in Seq(Frames) /\ queue[r] \in Seq(Frames)
      /\ seq[r] \in Nat /\ queue \in [Run -> Seq(Frames)] /\ todo \in [Run -> Seq(Frames)]
      /\ stage \in [Run -> Stages]
  BY ListTypes DEF SlotInv
<1>2. WellFormed(Sent(r)) /\ Opened(Sent(r), seq[r]) /\ Len(queue[r]) <= 1
  BY <1>1, PrefixIsWellFormed DEF Response
<1>3. WellFormed(Sent(r) \o frames)
  BY <1>1, <1>2, EndingFollows
<1>4. Room(r) <=> queue[r] = <<>>
  BY <1>1, <1>2, EmptySeq DEF Room, HttpAssumption
<1>5. \A q \in Run \ {r} :
        queue'[q] = queue[q] /\ todo'[q] = todo[q] /\ stage'[q] = stage[q]
  BY <1>1 DEF Push
<1>6. CASE gone[r]
  <2>1. queue' = queue /\ todo'[r] = <<>> /\ stage'[r] = after
    BY <1>1, <1>6 DEF Push
  <2>2. Sent(r)' = Sent(r) /\ Sent(r) \o <<>> = Sent(r)
    BY <1>1, <2>1, ConcatEmptySeq DEF Sent
  <2> QED
    BY <1>2, <1>5, <1>6, <2>1, <2>2
<1>7. CASE ~gone[r] /\ queue[r] # <<>>
  <2>1. queue' = queue /\ todo'[r] = frames /\ stage'[r] = blocked
    BY <1>1, <1>4, <1>7 DEF Push
  <2>2. Sent(r)' = Sent(r)
    BY <2>1 DEF Sent
  <2> QED
    BY <1>2, <1>3, <1>5, <1>7, <2>1, <2>2
<1>8. CASE ~gone[r] /\ queue[r] = <<>>
  <2>1. /\ queue'[r] = Append(queue[r], Head(frames)) /\ todo'[r] = Tail(frames)
        /\ stage'[r] = IF Len(frames) = 1 THEN after ELSE blocked
    BY <1>1, <1>4, <1>8 DEF Push
  <2>2. /\ queue'[r] = <<Head(frames)>>
        /\ Sent(r)' = Append(Sent(r), Head(frames))
        /\ Sent(r)' \o Tail(frames) = Sent(r) \o frames
    BY <1>8, <2>1, FrameMoves
  <2>3. Len(queue'[r]) <= 1
    BY <2>2
  <2>4. WellFormed(Sent(r)' \o todo'[r])
    <3>1. Sent(r)' \o todo'[r] = Sent(r) \o frames
      BY <2>1, <2>2
    <3> QED
      BY <1>3, <3>1
  <2> QED
    BY <1>5, <1>8, <2>1, <2>2, <2>3, <2>4, Zenon
<1> QED
  BY <1>6, <1>7, <1>8

Same(q) ==
  /\ queue'[q] = queue[q] /\ todo'[q] = todo[q] /\ got'[q] = got[q]
  /\ stage'[q] = stage[q] /\ seq'[q] = seq[q] /\ last'[q] = last[q]
  /\ gone'[q] = gone[q] /\ terminal'[q] = terminal[q] /\ kick'[q] = kick[q]

Responses == \A r \in Run : Response(r) /\ Life(r)

\* It is enough to look at the run that a step is about.
LEMMA OneRun ==
  ASSUME Responses, NEW r \in Run, Response(r)', Life(r)', \A q \in Run \ {r} : Same(q)
  PROVE  Responses'
<1>1. ASSUME NEW q \in Run \ {r}
      PROVE  Response(q)' /\ Life(q)'
  BY OthersKeep DEF Same, Responses
<1> QED
  BY <1>1 DEF Responses

\* A run sends its last frames, the trailer behind them.
LEMMA EndKeeps ==
  ASSUME HttpAssumption, DurableInv, SlotInv, NEW r \in Run, Response(r),
         stage[r] \notin {"reporting", "done"},
         NEW frames \in Seq(Frames), Len(frames) >= 2, WellFormed(frames),
         \A j \in 1 .. Len(frames) : frames[j].kind \in Events => frames[j].seq = seq[r],
         frames[Len(frames)] = End, Some(frames, Terminals),
         Push(r, frames, "reporting", "done"), UNCHANGED got, gone'[r] = gone[r],
         terminal'[r], ~kick'[r]
  PROVE  Response(r)' /\ Life(r)'
<1>1. frames # <<>> /\ Len(frames) \in Nat /\ Sent(r) \in Seq(Frames)
  BY EmptySeq, ListTypes
<1>2. /\ Len(queue'[r]) <= 1
      /\ WellFormed(Sent(r)' \o todo'[r])
      /\ \/ gone[r] /\ todo'[r] = <<>> /\ stage'[r] = "done"
         \/ ~gone[r] /\ todo'[r] = frames /\ stage'[r] = "reporting"
         \/ /\ ~gone[r] /\ todo'[r] = Tail(frames) /\ Sent(r)' = Append(Sent(r), Head(frames))
            /\ stage'[r] = IF Len(frames) = 1 THEN "done" ELSE "reporting"
  BY <1>1, PushResponse
<1>3. CASE gone[r] /\ todo'[r] = <<>> /\ stage'[r] = "done"
  BY <1>2, <1>3 DEF Response, Life, Sends
<1>4. CASE ~gone[r] /\ todo'[r] = frames /\ stage'[r] = "reporting"
  BY <1>1, <1>2, <1>4 DEF Response, Life, Sends
<1>5. CASE /\ ~gone[r] /\ todo'[r] = Tail(frames) /\ Sent(r)' = Append(Sent(r), Head(frames))
           /\ stage'[r] = IF Len(frames) = 1 THEN "done" ELSE "reporting"
  <2> DEFINE t == Tail(frames)
             u == Append(Sent(r), Head(frames))
  <2>1. /\ Head(frames) \in Frames /\ t \in Seq(Frames) /\ Len(t) = Len(frames) - 1
        /\ \A i \in 1 .. Len(t) : t[i] = frames[i + 1]
        /\ Head(frames) = frames[1]
    BY <1>1, HeadTailProperties
  <2>2. Len(u) = Len(Sent(r)) + 1 /\ u[Len(Sent(r)) + 1] = frames[1] /\ Len(Sent(r)) \in Nat
    BY <1>1, <2>1, AppendProperties
  <2>3. stage'[r] = "reporting" /\ todo'[r] = t /\ Sent(r)' = u
    BY <1>5
  <2> HIDE DEF t, u
  <2>4. t # <<>> /\ t[Len(t)] = End
    BY <1>1, <2>1
  <2>5. Some(u, Terminals) \/ Some(t, Terminals)
    <3>1. PICK i \in 1 .. Len(frames) : frames[i].kind \in Terminals
      BY DEF Some
    <3>2. CASE i = 1
      <4>1. Len(Sent(r)) + 1 \in 1 .. Len(u)
        BY <2>2
      <4> QED
        BY <2>2, <3>1, <3>2, <4>1 DEF Some
    <3>3. CASE i # 1
      <4>1. i - 1 \in 1 .. Len(t) /\ (i - 1) + 1 = i
        BY <1>1, <2>1, <3>3
      <4>2. t[i - 1] = frames[i]
        BY <2>1, <4>1
      <4> QED
        BY <3>1, <4>1, <4>2 DEF Some
    <3> QED
      BY <3>2, <3>3
  <2>6. Response(r)'
    BY <1>2, <2>3, <2>4, <2>5 DEF Response, Sends
  <2>7. Life(r)'
    BY <2>3, <1>5 DEF Life
  <2> QED
    BY <2>6, <2>7
<1> QED
  BY <1>2, <1>3, <1>4, <1>5

\* A longer list, joined.
LEMMA JoinedTriple ==
  ASSUME NEW S, NEW f \in S, NEW g \in S, NEW h \in S
  PROVE  <<f, g>> \o <<h>> = <<f, g, h>>
<1> DEFINE x == <<f, g>>
           y == <<h>>
           v == <<f, g, h>>
           u == x \o y
<1>1. /\ x \in Seq(S) /\ y \in Seq(S) /\ Len(x) = 2 /\ Len(y) = 1
      /\ x[1] = f /\ x[2] = g /\ y[1] = h
  OBVIOUS
<1>2. v \in Seq(S) /\ Len(v) = 3 /\ v[1] = f /\ v[2] = g /\ v[3] = h
  BY Triple
<1> HIDE DEF x, y, v
<1>3. u \in Seq(S) /\ Len(u) = 3 /\ u[1] = f /\ u[2] = g /\ u[3] = h
  <2>1. /\ u \in Seq(S) /\ Len(u) = Len(x) + Len(y)
        /\ \A i \in 1 .. Len(x) + Len(y) : u[i] = IF i <= Len(x) THEN x[i] ELSE y[i - Len(x)]
    BY <1>1, ConcatProperties
  <2> HIDE DEF u
  <2>2. \A i \in 1 .. 3 : u[i] = IF i <= 2 THEN x[i] ELSE y[i - 2]
    BY <1>1, <2>1
  <2>3. u[1] = x[1] /\ u[2] = x[2] /\ u[3] = y[1]
    BY <2>2
  <2> QED
    BY <1>1, <2>1, <2>3
<1> HIDE DEF u
<1>4. u = v
  BY <1>2, <1>3, SeqEqual
<1> QED
  BY <1>4 DEF u, v, x, y

\* The frames of a failure and of a completion.
LEMMA FailureEnds ==
  ASSUME HttpAssumption, NEW r, seq[r] \in Nat, NEW error \in {"server_error", "run_cancelled"}
  PROVE  /\ FailureFrames(r, error) =
              IF last[r] = "event" THEN <<Frame("run_failed", seq[r]), Frame(error, 0), End>>
                                   ELSE <<Frame(error, 0), End>>
         /\ FailureFrames(r, error) \in Seq(Frames) /\ Len(FailureFrames(r, error)) >= 2
         /\ WellFormed(FailureFrames(r, error))
         /\ \A j \in 1 .. Len(FailureFrames(r, error)) :
              FailureFrames(r, error)[j].kind \in Events => FailureFrames(r, error)[j].seq = seq[r]
         /\ FailureFrames(r, error)[Len(FailureFrames(r, error))] = End
         /\ Some(FailureFrames(r, error), Terminals)
<1>1. /\ Frame("run_failed", seq[r]) \in Frames /\ Frame(error, 0) \in Frames /\ End \in Frames
      /\ Frame(error, 0).kind \in Terminals
  BY DEF Frame, Frames, Events, Terminals, End
<1>2. \A f, g, h \in Frames :
        /\ (<<f>> \o <<g>>) \o <<h>> = <<f, g, h>>
        /\ (<<>> \o <<g>>) \o <<h>> = <<g, h>>
        /\ Len(<<f, g, h>>) = 3 /\ Len(<<g, h>>) = 2
        /\ <<f, g, h>>[2] = g /\ <<f, g, h>>[3] = h /\ <<g, h>>[1] = g /\ <<g, h>>[2] = h
  <2> TAKE f, g, h \in Frames
  <2>1. /\ <<f>> \o <<g>> = <<f, g>> /\ <<g>> \o <<h>> = <<g, h>>
        /\ <<f, g>> \o <<h>> = <<f, g, h>>
    BY Pair, JoinedTriple
  <2>2. <<>> \o <<g>> = <<g>>
    OBVIOUS
  <2>3. /\ Len(<<f, g, h>>) = 3 /\ Len(<<g, h>>) = 2
        /\ <<f, g, h>>[2] = g /\ <<f, g, h>>[3] = h
        /\ <<g, h>>[1] = g /\ <<g, h>>[2] = h
    OBVIOUS
  <2> QED
    BY <2>1, <2>2, <2>3, Zenon
<1>3. FailureFrames(r, error) =
        IF last[r] = "event" THEN <<Frame("run_failed", seq[r]), Frame(error, 0), End>>
                             ELSE <<Frame(error, 0), End>>
  <2> DEFINE f == Frame("run_failed", seq[r])
             g == Frame(error, 0)
  <2>1. FailureFrames(r, error) = ((IF last[r] = "event" THEN <<f>> ELSE <<>>) \o <<g>>) \o <<End>>
    BY DEF FailureFrames, HttpAssumption
  <2>2. f \in Frames /\ g \in Frames
    BY <1>1
  <2> HIDE DEF f, g
  <2>3. CASE last[r] = "event"
    <3>1. FailureFrames(r, error) = (<<f>> \o <<g>>) \o <<End>>
      BY <2>1, <2>3
    <3> QED
      BY <1>1, <1>2, <2>2, <2>3, <3>1 DEF f, g
  <2>4. CASE last[r] # "event"
    <3>1. FailureFrames(r, error) = (<<>> \o <<g>>) \o <<End>>
      BY <2>1, <2>4
    <3> QED
      BY <1>1, <1>2, <2>2, <2>4, <3>1 DEF f, g
  <2> QED
    BY <2>3, <2>4
<1> DEFINE F == FailureFrames(r, error)
<1> HIDE DEF F
<1>4. Ending(F, seq[r])
  <2>1. /\ Ending(<<Frame("run_failed", seq[r]), Frame(error, 0), End>>, seq[r])
        /\ Ending(<<Frame(error, 0), End>>, seq[r])
    BY Endings
  <2> QED
    BY <1>3, <2>1 DEF F
<1>5. Len(F) >= 2 /\ F[Len(F)] = End /\ Some(F, Terminals)
  <2>1. \/ Len(F) = 3 /\ F[2] = Frame(error, 0) /\ F[3] = End
        \/ Len(F) = 2 /\ F[1] = Frame(error, 0) /\ F[2] = End
    BY <1>1, <1>2, <1>3 DEF F
  <2>2. CASE Len(F) = 3 /\ F[2] = Frame(error, 0) /\ F[3] = End
    BY <1>1, <2>2 DEF Some
  <2>3. CASE Len(F) = 2 /\ F[1] = Frame(error, 0) /\ F[2] = End
    BY <1>1, <2>3 DEF Some
  <2> QED
    BY <2>1, <2>2, <2>3
<1> QED
  BY <1>3, <1>4, <1>5 DEF F, Ending

LEMMA CompletionEnds ==
  ASSUME HttpAssumption, NEW r, seq[r] \in Nat
  PROVE  /\ CompletionFrames(r) \in Seq(Frames) /\ Len(CompletionFrames(r)) >= 2
         /\ WellFormed(CompletionFrames(r))
         /\ \A j \in 1 .. Len(CompletionFrames(r)) :
              CompletionFrames(r)[j].kind \in Events => CompletionFrames(r)[j].seq = seq[r]
         /\ CompletionFrames(r)[Len(CompletionFrames(r))] = End
         /\ Some(CompletionFrames(r), Terminals)
         /\ Head(CompletionFrames(r)).kind = "run_completed"
<1>1. /\ Frame("run_completed", seq[r]) \in Frames /\ Frame("run_result", 0) \in Frames
      /\ End \in Frames /\ Frame("run_result", 0).kind \in Terminals
      /\ Frame("run_completed", seq[r]).kind = "run_completed"
  BY DEF Frame, Frames, Events, Terminals, End
<1>2. \A f, g, h \in Frames :
        /\ <<f, g>> \o <<h>> = <<f, g, h>> /\ Len(<<f, g, h>>) = 3
        /\ Head(<<f, g, h>>) = f /\ <<f, g, h>>[2] = g /\ <<f, g, h>>[3] = h
  <2> TAKE f, g, h \in Frames
  <2>1. <<f, g>> \o <<h>> = <<f, g, h>>
    BY JoinedTriple
  <2>2. /\ Len(<<f, g, h>>) = 3 /\ Head(<<f, g, h>>) = f
        /\ <<f, g, h>>[2] = g /\ <<f, g, h>>[3] = h
    OBVIOUS
  <2> QED
    BY <2>1, <2>2, Zenon
<1> DEFINE C == CompletionFrames(r)
<1>3. C = <<Frame("run_completed", seq[r]), Frame("run_result", 0), End>>
  BY <1>1, <1>2 DEF CompletionFrames, HttpAssumption
<1> HIDE DEF C
<1>4. Ending(C, seq[r])
  BY <1>3, Endings
<1>5. Len(C) = 3 /\ Head(C) = Frame("run_completed", seq[r]) /\ C[2] = Frame("run_result", 0) /\ C[3] = End
  BY <1>1, <1>2, <1>3
<1>6. Some(C, Terminals)
  BY <1>1, <1>5 DEF Some
<1> QED
  BY <1>1, <1>4, <1>5, <1>6 DEF C, Ending

LEMMA FailKeeps ==
  ASSUME HttpAssumption, DurableInv, SlotInv, RunTypes, Responses, NEW r \in Run,
         stage[r] \notin {"reporting", "done"}, NEW error \in {"server_error", "run_cancelled"},
         Fail(r, error), UNCHANGED <<got, gone, seq>>,
         \A q \in Run \ {r} : last'[q] = last[q]
  PROVE  Responses'
<1> DEFINE frames == FailureFrames(r, error)
<1>1. seq[r] \in Nat /\ Response(r)
  BY ListTypes DEF Responses
<1>2. /\ frames \in Seq(Frames) /\ Len(frames) >= 2 /\ WellFormed(frames)
      /\ \A j \in 1 .. Len(frames) : frames[j].kind \in Events => frames[j].seq = seq[r]
      /\ frames[Len(frames)] = End /\ Some(frames, Terminals)
  BY <1>1, FailureEnds
<1>3. Push(r, frames, "reporting", "done")
  BY DEF Fail
<1> HIDE DEF frames
<1>4. terminal'[r] /\ ~kick'[r] /\ \A q \in Run \ {r} : terminal'[q] = terminal[q] /\ kick'[q] = kick[q]
  BY DEF Fail, RunTypes
<1>5. Response(r)' /\ Life(r)'
  BY <1>1, <1>2, <1>3, <1>4, EndKeeps
<1>6. frames # <<>>
  BY <1>2, EmptySeq
<1>7. \A q \in Run \ {r} : queue'[q] = queue[q] /\ todo'[q] = todo[q] /\ stage'[q] = stage[q]
  BY <1>1, <1>2, <1>3, <1>6, PushResponse
<1>8. \A q \in Run \ {r} : Same(q)
  BY <1>4, <1>7 DEF Same
<1> QED
  BY <1>5, <1>8, OneRun

\* Steps that only change the stage.
LEMMA QuietMove ==
  ASSUME SlotInv, Responses, NEW r \in Run, stage[r] \notin Sends \cup {"done"},
         NEW next, next \notin Sends \cup {"done", "new"},
         stage' = [stage EXCEPT ![r] = next],
         UNCHANGED <<queue, todo, got, seq, last, gone, terminal, kick>>
  PROVE  Responses'
<1>1. stage'[r] = next /\ \A q \in Run \ {r} : stage'[q] = stage[q]
  BY DEF SlotInv
<1>2. Response(r)' /\ Life(r)'
  BY <1>1, MoveKeeps DEF Responses
<1>3. \A q \in Run \ {r} : Same(q)
  BY <1>1 DEF Same
<1> QED
  BY <1>2, <1>3, OneRun

LEMMA EnterKeeps ==
  ASSUME HttpAssumption, DurableInv, SlotInv, RunTypes, Responses, NEW r \in Run,
         stage[r] = "new", Enter(r)
  PROVE  Responses'
<1>1. CASE UnknownAgent(r)
  BY <1>1, FailKeeps DEF UnknownAgent, progress
<1>2. CASE JoinLine(r)
  BY <1>2, QuietMove DEF JoinLine, progress, Sends
<1> QED
  BY <1>1, <1>2 DEF Enter

LEMMA SeqNumbers ==
  ASSUME NEW s \in Seq(Frames)
  PROVE  \A i \in 1 .. Len(s) : s[i] \in Frames /\ s[i].seq \in Nat
<1> SUFFICES ASSUME NEW i \in 1 .. Len(s) PROVE s[i] \in Frames /\ s[i].seq \in Nat
  OBVIOUS
<1>1. s[i] \in Frames
  OBVIOUS
<1> QED
  BY <1>1 DEF Frames

\* An event joins the events that were sent.
LEMMA EmitKeeps ==
  ASSUME HttpAssumption, DurableInv, SlotInv, RunTypes, Responses, NEW r \in Run,
         stage[r] \notin Sends \cup {"new", "done"}, ~kick[r],
         NEW blocked \in {"sending", "usage"}, NEW after \in {"streaming", "persisting"},
         EmitEvent(r, blocked, after)
  PROVE  Responses'
<1> DEFINE f == Frame("event", seq[r])
           frames == <<f>>
<1>1. Response(r) /\ Life(r) /\ seq[r] \in Nat /\ seq \in [Run -> Nat] /\ Sent(r) \in Seq(Frames)
  BY ListTypes DEF Responses
<1>2. ~gone[r]
  BY <1>1 DEF Life
<1>3. /\ seq' = [seq EXCEPT ![r] = @ + 1] /\ last' = [last EXCEPT ![r] = "event"]
      /\ UNCHANGED <<terminal, kick, got, gone>>
  BY DEF EmitEvent
<1>4. /\ f \in Frames /\ f.kind = "event" /\ f.seq = seq[r]
      /\ frames # <<>> /\ Len(frames) = 1 /\ Head(frames) = f /\ Tail(frames) = <<>>
  BY <1>1 DEF Frame, Frames, Events
<1>5. /\ frames \in Seq(Frames) /\ WellFormed(frames)
      /\ \A j \in 1 .. Len(frames) : frames[j].kind \in Events => frames[j].seq = seq[r]
  BY <1>1, Endings DEF Ending
<1>6. Push(r, frames, blocked, after)
  BY DEF EmitEvent
<1>7. stage[r] \notin {"reporting", "done"}
  BY DEF Sends
<1> HIDE DEF frames, f
<1>8. /\ \/ Sent(r)' = Sent(r) /\ todo'[r] = frames /\ stage'[r] = blocked
         \/ Sent(r)' = Append(Sent(r), f) /\ todo'[r] = <<>> /\ stage'[r] = after
      /\ Len(queue'[r]) <= 1
      /\ WellFormed(Sent(r)' \o todo'[r])
      /\ \A q \in Run \ {r} : queue'[q] = queue[q] /\ todo'[q] = todo[q] /\ stage'[q] = stage[q]
  <2>1. /\ \/ gone[r]
           \/ Sent(r)' = Sent(r) /\ todo'[r] = frames /\ stage'[r] = blocked
           \/ /\ Sent(r)' = Append(Sent(r), Head(frames)) /\ todo'[r] = Tail(frames)
              /\ stage'[r] = IF Len(frames) = 1 THEN after ELSE blocked
        /\ Len(queue'[r]) <= 1
        /\ WellFormed(Sent(r)' \o todo'[r])
        /\ \A q \in Run \ {r} : queue'[q] = queue[q] /\ todo'[q] = todo[q] /\ stage'[q] = stage[q]
    <3>1. /\ \/ /\ gone[r] /\ queue' = queue /\ Sent(r)' = Sent(r) /\ todo'[r] = <<>>
               /\ stage'[r] = after
            \/ /\ ~gone[r] /\ queue[r] # <<>> /\ queue' = queue /\ Sent(r)' = Sent(r)
               /\ todo'[r] = frames /\ stage'[r] = blocked
            \/ /\ ~gone[r] /\ queue[r] = <<>> /\ queue'[r] = <<Head(frames)>>
               /\ Sent(r)' = Append(Sent(r), Head(frames)) /\ todo'[r] = Tail(frames)
               /\ stage'[r] = IF Len(frames) = 1 THEN after ELSE blocked
          /\ Len(queue'[r]) <= 1
          /\ WellFormed(Sent(r)' \o todo'[r])
          /\ \A q \in Run \ {r} :
               queue'[q] = queue[q] /\ todo'[q] = todo[q] /\ stage'[q] = stage[q]
      <4>1. frames \in Seq(Frames) /\ frames # <<>> /\ WellFormed(frames)
        BY <1>4, <1>5
      <4>2. UNCHANGED got /\ Response(r)
        BY <1>1, <1>3
      <4> QED
        BY <1>5, <1>6, <1>7, <4>1, <4>2, PushResponse
    <3> QED
      BY <3>1
  <2> QED
    BY <1>2, <1>4, <2>1
<1>9. seq'[r] = seq[r] + 1 /\ gone'[r] = gone[r]
  BY <1>1, <1>3
<1>10. Opened(Sent(r), seq[r]) /\ Len(Sent(r)) \in Nat
  BY <1>1, <1>7 DEF Response
<1>11. ASSUME Sent(r)' = Sent(r), todo'[r] = frames, stage'[r] = blocked
       PROVE  Response(r)' /\ Life(r)'
  <2>1. Opened(Sent(r)', seq'[r])
    <3>1. \A i \in 1 .. Len(Sent(r)) : Sent(r)[i].seq \in Nat
      BY <1>1, SeqNumbers
    <3> QED
      BY <1>1, <1>9, <1>10, <1>11, <3>1 DEF Opened
  <2>2. seq[r] \in 0 .. seq'[r] /\ seq[r] < seq'[r] /\ todo'[r] = <<Frame("event", seq[r])>>
    BY <1>1, <1>9, <1>11 DEF frames, f
  <2>3. Response(r)'
    BY <1>8, <1>11, <2>1, <2>2 DEF Response, Sends
  <2>4. Life(r)'
    BY <1>1, <1>2, <1>3, <1>11 DEF Life
  <2> QED
    BY <2>3, <2>4
<1>12. ASSUME Sent(r)' = Append(Sent(r), f), todo'[r] = <<>>, stage'[r] = after
       PROVE  Response(r)' /\ Life(r)'
  <2> DEFINE u == Append(Sent(r), f)
  <2>1. /\ Len(u) = Len(Sent(r)) + 1 /\ u[Len(Sent(r)) + 1] = f
        /\ \A i \in 1 .. Len(Sent(r)) : u[i] = Sent(r)[i]
    BY <1>1, <1>4, AppendProperties
  <2> HIDE DEF u
  <2>2. \A i \in 1 .. Len(u) : i \in 1 .. Len(Sent(r)) \/ i = Len(Sent(r)) + 1
    BY <1>10, <2>1
  <2>3. \A i \in 1 .. Len(Sent(r)) : Sent(r)[i].seq \in Nat
    BY <1>1, SeqNumbers
  <2>4. Opened(u, seq[r] + 1)
    BY <1>1, <1>4, <1>10, <2>1, <2>2, <2>3 DEF Opened
  <2>5. Opened(Sent(r)', seq'[r])
    BY <1>9, <1>12, <2>4 DEF u
  <2>6. Response(r)'
    BY <1>8, <1>12, <2>5 DEF Response, Sends
  <2>7. Life(r)'
    BY <1>1, <1>2, <1>3, <1>12 DEF Life
  <2> QED
    BY <2>6, <2>7
<1>13. \A q \in Run \ {r} : Same(q)
  BY <1>1, <1>3, <1>8 DEF Same, RunTypes
<1> QED
  BY <1>8, <1>11, <1>12, <1>13, OneRun
\* The agent's own run_failed waits for room.
LEMMA StreamFailsKeeps ==
  ASSUME HttpAssumption, DurableInv, SlotInv, RunTypes, Responses, NEW r \in Run, StreamFails(r)
  PROVE  Responses'
<1> DEFINE f == Frame("run_failed", seq[r])
           frames == <<f>>
<1>1. /\ Response(r) /\ Life(r) /\ seq[r] \in Nat /\ stage[r] = "streaming" /\ ~kick[r]
      /\ queue[r] \in Seq(Frames) /\ last \in [Run -> {"none", "event", "failed"}]
  BY ListTypes DEF Responses, StreamFails, RunTypes
<1>2. /\ last' = [last EXCEPT ![r] = "failed"] /\ UNCHANGED <<got, gone, seq>>
      /\ last'[r] = "failed" /\ \A q \in Run \ {r} : last'[q] = last[q]
  BY <1>1 DEF StreamFails
<1>3. CASE Room(r)
  <2>1. Fail(r, "server_error")
    BY <1>3 DEF StreamFails
  <2> QED
    BY <1>1, <1>2, <2>1, FailKeeps
<1>4. CASE ~Room(r)
  <2>1. Push(r, frames, "failed", "failed") /\ UNCHANGED <<terminal, kick>>
    BY <1>4 DEF StreamFails
  <2>2. frames \in Seq(Frames) /\ WellFormed(frames) /\ Ending(frames, seq[r])
    BY <1>1, Endings DEF Ending
  <2>3. /\ frames # <<>>
        /\ \A j \in 1 .. Len(frames) : frames[j].kind \in Events => frames[j].seq = seq[r]
    BY <2>2 DEF Ending
  <2>4. queue[r] # <<>>
    BY <1>4 DEF Room, HttpAssumption
  <2> HIDE DEF frames
  <2>5. /\ \/ gone[r]
           \/ queue[r] # <<>> /\ Sent(r)' = Sent(r) /\ todo'[r] = frames /\ stage'[r] = "failed"
           \/ queue[r] = <<>>
        /\ Len(queue'[r]) <= 1
        /\ WellFormed(Sent(r)' \o todo'[r])
        /\ \A q \in Run \ {r} : queue'[q] = queue[q] /\ todo'[q] = todo[q] /\ stage'[q] = stage[q]
    <3>1. /\ \/ /\ gone[r] /\ queue' = queue /\ Sent(r)' = Sent(r) /\ todo'[r] = <<>>
                /\ stage'[r] = "failed"
             \/ /\ ~gone[r] /\ queue[r] # <<>> /\ queue' = queue /\ Sent(r)' = Sent(r)
                /\ todo'[r] = frames /\ stage'[r] = "failed"
             \/ /\ ~gone[r] /\ queue[r] = <<>> /\ queue'[r] = <<Head(frames)>>
                /\ Sent(r)' = Append(Sent(r), Head(frames)) /\ todo'[r] = Tail(frames)
                /\ stage'[r] = IF Len(frames) = 1 THEN "failed" ELSE "failed"
          /\ Len(queue'[r]) <= 1
          /\ WellFormed(Sent(r)' \o todo'[r])
          /\ \A q \in Run \ {r} :
               queue'[q] = queue[q] /\ todo'[q] = todo[q] /\ stage'[q] = stage[q]
      BY <1>1, <1>2, <2>1, <2>2, <2>3, PushResponse
    <3> QED
      BY <3>1
  <2>6. Sent(r)' = Sent(r) /\ todo'[r] = frames /\ stage'[r] = "failed" /\ ~gone[r]
    BY <1>1, <2>4, <2>5 DEF Life
  <2>7. seq'[r] = seq[r] /\ gone'[r] = gone[r]
    BY <1>2
  <2>8. Opened(Sent(r)', seq'[r]) /\ todo'[r] = <<Frame("run_failed", seq'[r])>>
    BY <1>1, <2>6, <2>7 DEF Response, frames
  <2>9. Response(r)' /\ Life(r)'
    <3>1. Response(r)'
      BY <1>2, <2>5, <2>6, <2>8 DEF Response, Sends
    <3>2. Life(r)'
      BY <2>6, <2>7 DEF Life
    <3> QED
      BY <3>1, <3>2
  <2>10. \A q \in Run \ {r} : Same(q)
    BY <1>2, <2>1, <2>5 DEF Same
  <2> QED
    BY <2>9, <2>10, OneRun
<1> QED
  BY <1>3, <1>4

\* The frames of a completed run.
LEMMA PersistReturnsKeeps ==
  ASSUME HttpAssumption, DurableInv, SlotInv, RunTypes, Responses, NEW r \in Run, PersistReturns(r)
  PROVE  Responses'
<1> DEFINE frames == CompletionFrames(r)
<1>1. /\ seq[r] \in Nat /\ Response(r) /\ stage[r] = "persisting" /\ ~kick[r]
      /\ UNCHANGED <<kick, got, gone, seq, last>> /\ terminal' = [terminal EXCEPT ![r] = TRUE]
      /\ Push(r, frames, "reporting", "done")
  BY ListTypes DEF Responses, PersistReturns, progress
<1>2. /\ frames \in Seq(Frames) /\ Len(frames) >= 2 /\ WellFormed(frames)
      /\ \A j \in 1 .. Len(frames) : frames[j].kind \in Events => frames[j].seq = seq[r]
      /\ frames[Len(frames)] = End /\ Some(frames, Terminals)
  BY <1>1, CompletionEnds
<1> HIDE DEF frames
<1>3. terminal'[r] /\ ~kick'[r] /\ \A q \in Run \ {r} : terminal'[q] = terminal[q] /\ kick'[q] = kick[q]
  BY <1>1 DEF RunTypes
<1>4. Response(r)' /\ Life(r)'
  BY <1>1, <1>2, <1>3, EndKeeps
<1>5. frames # <<>>
  BY <1>2, EmptySeq
<1>6. \A q \in Run \ {r} : queue'[q] = queue[q] /\ todo'[q] = todo[q] /\ stage'[q] = stage[q]
  BY <1>1, <1>2, <1>5, PushResponse
<1>7. \A q \in Run \ {r} : Same(q)
  BY <1>1, <1>3, <1>6 DEF Same
<1> QED
  BY <1>4, <1>7, OneRun

LEMMA InterruptRunKeeps ==
  ASSUME HttpAssumption, DurableInv, SlotInv, RunTypes, Responses, NEW r \in Run, InterruptRun(r)
  PROVE  Responses'
<1>1. stage[r] \notin {"reporting", "done"} /\ Fail(r, Cause(r)) /\ UNCHANGED <<got, gone, seq, last>>
  BY DEF InterruptRun, InSession, progress
<1>2. Cause(r) \in {"server_error", "run_cancelled"}
  BY DEF Cause
<1> QED
  BY <1>1, <1>2, FailKeeps

LEMMA RunStepKeeps ==
  ASSUME HttpAssumption, DurableInv, SlotInv, RunTypes, Responses, NEW r \in Run, RunStep(r)
  PROVE  Responses'
<1>1. CASE TakeServerSlot(r)
  BY <1>1, QuietMove DEF TakeServerSlot, progress, Sends
<1>2. CASE TakeAgentSlot(r)
  BY <1>2, QuietMove DEF TakeAgentSlot, progress, Sends
<1>3. CASE Authorize(r)
  BY <1>3, QuietMove DEF Authorize, Sends
<1>4. CASE Load(r)
  BY <1>4, QuietMove DEF Load, progress, Sends
<1>5. CASE SessionFails(r)
  BY <1>5, FailKeeps DEF SessionFails, progress
<1>6. CASE OpenStream(r)
  BY <1>6, EmitKeeps DEF OpenStream, Sends
<1>7. CASE StreamEvent(r)
  BY <1>7, EmitKeeps DEF StreamEvent, Sends
<1>8. CASE StreamResult(r)
  BY <1>8, EmitKeeps DEF StreamResult, Sends
<1>9. CASE StreamFails(r)
  BY <1>9, StreamFailsKeeps
<1>10. CASE StoreApplies(r)
  <2>1. UNCHANGED <<stage, todo, queue, terminal, kick, got, gone, seq, last>>
    BY <1>10 DEF StoreApplies, control, progress
  <2>2. \A q \in Run : Same(q)
    BY <2>1 DEF Same
  <2>3. \A q \in Run : Response(q)' /\ Life(q)'
    BY <2>2, OthersKeep DEF Same, Responses
  <2> QED
    BY <2>3 DEF Responses
<1>11. CASE PersistReturns(r)
  BY <1>11, PersistReturnsKeeps
<1>12. CASE PersistFails(r)
  BY <1>12, FailKeeps DEF PersistFails, progress
<1> QED
  BY <1>1, <1>2, <1>3, <1>4, <1>5, <1>6, <1>7, <1>8, <1>9, <1>10, <1>11, <1>12 DEF RunStep

\* The producer's frame enters the empty queue.
LEMMA PutMoves ==
  ASSUME HttpAssumption, DurableInv, SlotInv, Responses, NEW r \in Run, Put(r)
  PROVE  /\ Response(r) /\ Life(r) /\ Resume(r) /\ todo[r] # <<>> /\ ~kick[r] /\ ~gone[r]
         /\ todo[r] \in Seq(Frames) /\ Sent(r) \in Seq(Frames) /\ seq[r] \in Nat
         /\ queue'[r] = <<Head(todo[r])>> /\ Len(queue'[r]) <= 1
         /\ Sent(r)' = Append(Sent(r), Head(todo[r])) /\ Sent(r)' \in Seq(Frames)
         /\ Sent(r)' \o Tail(todo[r]) = Sent(r) \o todo[r]
         /\ WellFormed(Sent(r)' \o Tail(todo[r]))
         /\ stage[r] \in Sends
         /\ UNCHANGED <<kick, got, gone, seq, last>>
         /\ \A q \in Run \ {r} : queue'[q] = queue[q]
<1>1. /\ Response(r) /\ Life(r) /\ todo[r] \in Seq(Frames) /\ queue[r] \in Seq(Frames)
      /\ queue \in [Run -> Seq(Frames)] /\ Sent(r) \in Seq(Frames) /\ seq[r] \in Nat
  BY ListTypes DEF Responses
<1>2. /\ todo[r] # <<>> /\ ~kick[r] /\ Resume(r) /\ UNCHANGED <<kick, got, gone, seq, last>>
      /\ queue' = [queue EXCEPT ![r] = Append(@, Head(todo[r]))]
  BY DEF Put, progress
<1>3. queue[r] = <<>>
  BY <1>1, EmptySeq DEF Put, Room, HttpAssumption
<1>4. queue'[r] = Append(queue[r], Head(todo[r])) /\ \A q \in Run \ {r} : queue'[q] = queue[q]
  BY <1>1, <1>2
<1>5. /\ queue'[r] = <<Head(todo[r])>> /\ Sent(r)' = Append(Sent(r), Head(todo[r]))
      /\ Sent(r)' \in Seq(Frames) /\ Sent(r)' \o Tail(todo[r]) = Sent(r) \o todo[r]
  BY <1>1, <1>2, <1>3, <1>4, FrameMoves
<1>6. Len(queue'[r]) <= 1
  BY <1>5
<1>7. stage[r] \in Sends /\ WellFormed(Sent(r)' \o Tail(todo[r]))
  BY <1>1, <1>2, <1>5 DEF Response
<1>8. ~gone[r]
  BY <1>1, <1>2, <1>7 DEF Life, Sends
<1> QED
  BY <1>1, <1>2, <1>4, <1>5, <1>6, <1>7, <1>8

\* More frames of an ending wait.
LEMMA PutContinues ==
  ASSUME HttpAssumption, DurableInv, SlotInv, Responses, NEW r \in Run, Put(r), Len(todo[r]) > 1
  PROVE  Responses'
<1> DEFINE h == Head(todo[r])
           t == Tail(todo[r])
<1>1. /\ Response(r) /\ Life(r) /\ Resume(r) /\ todo[r] # <<>> /\ ~kick[r] /\ ~gone[r]
      /\ todo[r] \in Seq(Frames) /\ Sent(r) \in Seq(Frames)
      /\ Len(queue'[r]) <= 1 /\ Sent(r)' = Append(Sent(r), h)
      /\ WellFormed(Sent(r)' \o t) /\ stage[r] \in Sends
      /\ UNCHANGED <<kick, got, gone, seq, last>>
      /\ \A q \in Run \ {r} : queue'[q] = queue[q]
  BY PutMoves
<1>2. todo' = [todo EXCEPT ![r] = Tail(@)] /\ UNCHANGED <<stage, terminal>> /\ todo \in [Run -> Seq(Frames)]
  BY <1>1, ListTypes DEF Resume
<1>3. todo'[r] = t /\ \A q \in Run \ {r} : todo'[q] = todo[q]
  BY <1>2
<1>4. stage[r] = "reporting"
  <2>1. \A f : Len(<<f>>) = 1
    OBVIOUS
  <2>2. ASSUME stage[r] = "failed"
        PROVE  FALSE
    <3>1. todo[r] = <<Frame("run_failed", seq[r])>>
      BY <1>1, <2>2 DEF Response
    <3> QED
      BY <2>1, <3>1
  <2>3. ASSUME stage[r] \in {"sending", "usage"}
        PROVE  FALSE
    <3>1. \E f : todo[r] = <<f>>
      BY <1>1, <2>3 DEF Response
    <3> QED
      BY <2>1, <3>1
  <2> QED
    BY <1>1, <2>2, <2>3 DEF Sends
<1>5. /\ h = todo[r][1] /\ h \in Frames /\ t \in Seq(Frames) /\ Len(t) = Len(todo[r]) - 1
      /\ Len(todo[r]) \in Nat /\ \A i \in 1 .. Len(t) : t[i] = todo[r][i + 1]
  BY <1>1, HeadTailProperties
<1> HIDE DEF h, t
<1>6. t # <<>> /\ t[Len(t)] = End
  BY <1>1, <1>4, <1>5 DEF Response
<1>7. Some(Append(Sent(r), h), Terminals) \/ Some(t, Terminals)
  <2> DEFINE u == Append(Sent(r), h)
  <2>1. /\ Len(u) = Len(Sent(r)) + 1 /\ u[Len(Sent(r)) + 1] = h /\ Len(Sent(r)) \in Nat
        /\ \A i \in 1 .. Len(Sent(r)) : u[i] = Sent(r)[i]
    BY <1>1, <1>5, AppendProperties
  <2> HIDE DEF u
  <2>2. CASE Some(Sent(r), Terminals)
    BY <2>1, <2>2 DEF Some, u
  <2>3. CASE Some(todo[r], Terminals)
    <3>1. PICK i \in 1 .. Len(todo[r]) : todo[r][i].kind \in Terminals
      BY <2>3 DEF Some
    <3>2. CASE i = 1
      <4>1. Len(Sent(r)) + 1 \in 1 .. Len(u) /\ u[Len(Sent(r)) + 1].kind \in Terminals
        BY <1>5, <2>1, <3>1, <3>2
      <4> QED
        BY <4>1 DEF Some, u
    <3>3. CASE i # 1
      <4>1. i - 1 \in 1 .. Len(t) /\ (i - 1) + 1 = i
        BY <1>5, <3>3
      <4>2. t[i - 1].kind \in Terminals
        BY <1>5, <3>1, <4>1
      <4> QED
        BY <4>1, <4>2 DEF Some
    <3> QED
      BY <3>2, <3>3
  <2> QED
    BY <1>1, <1>4, <2>2, <2>3 DEF Response
<1>8. Response(r)'
  BY <1>1, <1>2, <1>3, <1>4, <1>6, <1>7 DEF Response, Sends
<1>9. Life(r)'
  BY <1>1, <1>2, <1>4 DEF Life
<1>10. \A q \in Run \ {r} : Same(q)
  BY <1>1, <1>2, <1>3 DEF Same
<1> QED
  BY <1>8, <1>9, <1>10, OneRun

\* The agent's run_failed is out, and the failure is reported.
LEMMA PutFails ==
  ASSUME HttpAssumption, DurableInv, SlotInv, RunTypes, Responses, NEW r \in Run, Put(r),
         stage[r] = "failed"
  PROVE  Responses'
<1> DEFINE f == Frame("run_failed", seq[r])
           e == Frame("server_error", 0)
           F == FailureFrames(r, "server_error")
<1>1. /\ Response(r) /\ Life(r) /\ Resume(r) /\ ~kick[r] /\ ~gone[r]
      /\ Sent(r) \in Seq(Frames) /\ seq[r] \in Nat /\ Sent(r)' \in Seq(Frames)
      /\ Len(queue'[r]) <= 1 /\ Sent(r)' = Append(Sent(r), Head(todo[r]))
      /\ WellFormed(Sent(r)' \o Tail(todo[r]))
      /\ UNCHANGED <<kick, got, gone, seq, last>>
      /\ \A q \in Run \ {r} : queue'[q] = queue[q]
  BY PutMoves
<1>2. todo[r] = <<f>> /\ last[r] = "failed" /\ Opened(Sent(r), seq[r])
  BY <1>1 DEF Response
<1>3. Len(todo[r]) = 1 /\ Head(todo[r]) = f /\ Tail(todo[r]) = <<>> /\ f \in Frames
  BY <1>1, <1>2 DEF Frame, Frames, Events
<1>4. /\ todo' = [todo EXCEPT ![r] = F] /\ stage' = [stage EXCEPT ![r] = "reporting"]
      /\ terminal' = [terminal EXCEPT ![r] = TRUE] /\ todo \in [Run -> Seq(Frames)]
      /\ stage \in [Run -> Stages] /\ terminal \in [Run -> BOOLEAN]
  BY <1>1, <1>3, ListTypes DEF Resume, SlotInv, RunTypes
<1>5. /\ todo'[r] = F /\ stage'[r] = "reporting" /\ terminal'[r]
      /\ \A q \in Run \ {r} : todo'[q] = todo[q] /\ stage'[q] = stage[q] /\ terminal'[q] = terminal[q]
  BY <1>4
<1>6. F = <<e, End>> /\ F \in Seq(Frames) /\ WellFormed(F) /\ F[Len(F)] = End /\ Some(F, Terminals)
  BY <1>1, <1>2, FailureEnds
<1>7. Len(F) = 2 /\ F[1] = e /\ F[2] = End /\ F # <<>>
  BY <1>6
<1> HIDE DEF F
<1>8. Sent(r)' = Append(Sent(r), f) /\ WellFormed(Sent(r)')
  <2>1. WellFormed(Sent(r)' \o <<>>) /\ Sent(r)' \o <<>> = Sent(r)'
    BY <1>1, <1>3, ConcatEmptySeq
  <2> QED
    BY <1>1, <1>3, <2>1
<1>9. WellFormed(Sent(r)' \o F)
  <2> DEFINE u == Append(Sent(r), f)
  <2>1. /\ Len(u) = Len(Sent(r)) + 1 /\ u[Len(Sent(r)) + 1] = f /\ Len(Sent(r)) \in Nat
        /\ \A i \in 1 .. Len(Sent(r)) : u[i] = Sent(r)[i]
    BY <1>1, <1>3, AppendProperties
  <2>2. u \in Seq(Frames) /\ WellFormed(u)
    BY <1>1, <1>8
  <2> HIDE DEF u
  <2>3. ASSUME NEW i \in 1 .. Len(u)
        PROVE  u[i].kind \in {"event", "run_failed"}
    <3>1. CASE i \in 1 .. Len(Sent(r))
      BY <1>2, <2>1, <3>1 DEF Opened
    <3>2. CASE i = Len(Sent(r)) + 1
      BY <2>1, <3>2 DEF f, Frame
    <3> QED
      BY <2>1, <3>1, <3>2
  <2>4. ASSUME NEW j \in 1 .. Len(F)
        PROVE  F[j].kind \in {"server_error", "end"}
    <3>1. j = 1 \/ j = 2
      BY <1>7
    <3> QED
      BY <1>7, <3>1 DEF e, End, Frame
  <2>5. \A i \in 1 .. Len(u), j \in 1 .. Len(F) : Follows(u[i], F[j])
    BY <2>3, <2>4 DEF Follows, Events, Terminals
  <2>6. WellFormed(u \o F)
    BY <1>6, <2>2, <2>5, JoinedIsWellFormed
  <2> QED
    BY <1>8, <2>6 DEF u
<1>10. Response(r)'
  BY <1>1, <1>5, <1>6, <1>7, <1>9 DEF Response, Sends
<1>11. Life(r)'
  BY <1>1, <1>5 DEF Life
<1>12. \A q \in Run \ {r} : Same(q)
  BY <1>1, <1>5 DEF Same
<1> QED
  BY <1>10, <1>11, <1>12, OneRun

\* The last frame that a send waits for.
LEMMA PutFinishes ==
  ASSUME HttpAssumption, DurableInv, SlotInv, RunTypes, Responses, NEW r \in Run, Put(r),
         ~(Len(todo[r]) > 1), stage[r] # "failed"
  PROVE  Responses'
<1> DEFINE h == Head(todo[r])
<1>1. /\ Response(r) /\ Life(r) /\ Resume(r) /\ todo[r] # <<>> /\ ~kick[r] /\ ~gone[r]
      /\ todo[r] \in Seq(Frames) /\ Sent(r) \in Seq(Frames) /\ seq[r] \in Nat
      /\ Sent(r)' \in Seq(Frames) /\ queue'[r] = <<h>> /\ Len(queue'[r]) <= 1
      /\ Sent(r)' = Append(Sent(r), h) /\ WellFormed(Sent(r)' \o Tail(todo[r]))
      /\ stage[r] \in Sends
      /\ UNCHANGED <<kick, got, gone, seq, last>>
      /\ \A q \in Run \ {r} : queue'[q] = queue[q]
  BY PutMoves
<1>2. Len(todo[r]) = 1 /\ h = todo[r][1] /\ h \in Frames
  BY <1>1, EmptySeq, HeadTailProperties
<1>3. Tail(todo[r]) = <<>>
  <2>1. Tail(todo[r]) \in Seq(Frames) /\ Len(Tail(todo[r])) = 0
    BY <1>1, <1>2, HeadTailProperties
  <2> QED
    BY <2>1, EmptySeq
<1>4. Sent(r)' \o <<>> = Sent(r)'
  BY <1>1, ConcatEmptySeq
<1>5. WellFormed(Sent(r)')
  BY <1>1, <1>3, <1>4
<1>6. /\ todo' = [todo EXCEPT ![r] = <<>>]
      /\ stage' = [stage EXCEPT ![r] = CASE @ = "sending" -> "streaming"
                                         [] @ = "usage" -> "persisting"
                                         [] @ = "reporting" -> "done"]
      /\ UNCHANGED terminal /\ todo \in [Run -> Seq(Frames)] /\ stage \in [Run -> Stages]
  BY <1>1, ListTypes DEF Resume, SlotInv
<1>7. todo'[r] = <<>> /\ \A q \in Run \ {r} : todo'[q] = todo[q] /\ stage'[q] = stage[q]
  BY <1>6
<1>8. ASSUME stage[r] \in {"sending", "usage"}
      PROVE  Response(r)' /\ Life(r)'
  <2>1. stage'[r] \in {"streaming", "persisting"}
    BY <1>6, <1>8
  <2>2. PICK n \in 0 .. seq[r] : n < seq[r] /\ todo[r] = <<Frame("event", n)>>
    BY <1>1, <1>8 DEF Response
  <2>3. h.kind = "event" /\ h.seq < seq[r]
    BY <2>2 DEF Frame
  <2>4. Opened(Sent(r), seq[r])
    BY <1>1, <1>8 DEF Response
  <2> DEFINE u == Append(Sent(r), h)
  <2>5. /\ Len(u) = Len(Sent(r)) + 1 /\ u[Len(Sent(r)) + 1] = h /\ Len(Sent(r)) \in Nat
        /\ \A i \in 1 .. Len(Sent(r)) : u[i] = Sent(r)[i]
    BY <1>1, <1>2, AppendProperties
  <2> HIDE DEF u, h
  <2>6. Opened(u, seq[r])
    <3>1. \A i \in 1 .. Len(u) : i \in 1 .. Len(Sent(r)) \/ i = Len(Sent(r)) + 1
      BY <2>5
    <3> QED
      BY <2>3, <2>4, <2>5, <3>1 DEF Opened
  <2>7. Opened(Sent(r)', seq'[r])
    BY <1>1, <2>6 DEF u
  <2>8. Response(r)'
    BY <1>1, <1>4, <1>5, <1>7, <2>1, <2>7 DEF Response, Sends
  <2>9. Life(r)'
    BY <1>1, <2>1 DEF Life
  <2> QED
    BY <2>8, <2>9
<1>9. ASSUME stage[r] = "reporting"
      PROVE  Response(r)' /\ Life(r)'
  <2>1. stage'[r] = "done"
    BY <1>6, <1>9
  <2>2. queue'[r] = <<End>>
    BY <1>1, <1>2, <1>9 DEF Response
  <2>3. Response(r)'
    BY <1>1, <1>4, <1>5, <1>7, <2>1, <2>2 DEF Response, Sends
  <2>4. Life(r)'
    BY <1>1, <2>1 DEF Life
  <2> QED
    BY <2>3, <2>4
<1>10. Response(r)' /\ Life(r)'
  BY <1>1, <1>8, <1>9 DEF Sends
<1>11. \A q \in Run \ {r} : Same(q)
  BY <1>1, <1>6, <1>7 DEF Same
<1> QED
  BY <1>10, <1>11, OneRun

LEMMA PutKeeps ==
  ASSUME HttpAssumption, DurableInv, SlotInv, RunTypes, Responses, NEW r \in Run, Put(r)
  PROVE  Responses'
BY PutContinues, PutFails, PutFinishes

\* The client takes the frame of the queue: it was sent already.
LEMMA TakeMoves ==
  ASSUME DurableInv, Responses, NEW r \in Run, Take(r)
  PROVE  /\ queue[r] # <<>> /\ Head(queue[r]) \in Frames /\ queue[r] = <<Head(queue[r])>>
         /\ Sent(r) = Append(got[r], Head(queue[r])) /\ got[r] \in Seq(Frames)
         /\ Sent(r)' = Sent(r) /\ Len(queue'[r]) <= 1
         /\ \A q \in Run \ {r} : queue'[q] = queue[q] /\ got'[q] = got[q]
<1> DEFINE h == Head(queue[r])
           g == got[r]
<1>1. /\ Response(r) /\ queue[r] \in Seq(Frames) /\ g \in Seq(Frames)
      /\ got \in [Run -> Seq(Frames)] /\ queue \in [Run -> Seq(Frames)]
  BY ListTypes DEF Responses
<1>2. /\ queue[r] # <<>>
      /\ got' = [got EXCEPT ![r] = Append(@, h)] /\ queue' = [queue EXCEPT ![r] = <<>>]
  BY DEF Take
<1>3. Len(queue[r]) = 1 /\ h \in Frames /\ h = queue[r][1]
  <2>1. Len(queue[r]) \in Nat \ {0} /\ h \in Frames /\ h = queue[r][1]
    BY <1>1, <1>2, EmptySeq, HeadTailProperties
  <2>2. Len(queue[r]) <= 1
    BY <1>1 DEF Response
  <2> QED
    BY <2>1, <2>2
<1>4. queue[r] = <<h>>
  BY <1>1, <1>3, SeqEqual
<1>5. /\ got'[r] = Append(g, h) /\ queue'[r] = <<>>
      /\ \A q \in Run \ {r} : queue'[q] = queue[q] /\ got'[q] = got[q]
  BY <1>1, <1>2
<1> HIDE DEF h, g
<1>6. Sent(r) = Append(g, h) /\ Append(g, h) \in Seq(Frames)
  BY <1>1, <1>3, <1>4, AppendIsConcat, AppendProperties DEF Sent, g
<1>7. Sent(r)' = Append(g, h) \o <<>>
  BY <1>5 DEF Sent
<1>8. Sent(r)' = Sent(r)
  BY <1>6, <1>7, ConcatEmptySeq
<1>9. Len(queue'[r]) <= 1
  BY <1>5
<1> QED
  BY <1>1, <1>2, <1>3, <1>4, <1>5, <1>6, <1>8, <1>9 DEF h, g

\* With the trailer the client goes.
LEMMA TakeKeeps ==
  ASSUME DurableInv, RunTypes, Responses, NEW r \in Run, Take(r)
  PROVE  Responses'
<1> DEFINE h == Head(queue[r])
           g == got[r]
<1>1. /\ Response(r) /\ Life(r) /\ g \in Seq(Frames)
      /\ kick \in [Run -> BOOLEAN] /\ gone \in [Run -> BOOLEAN]
  BY ListTypes DEF Responses, RunTypes
<1>2. /\ ~gone[r] /\ UNCHANGED <<stage, todo, terminal, last, seq>>
      /\ \A q \in Run \ {r} : queue'[q] = queue[q] /\ got'[q] = got[q]
  BY TakeMoves DEF Take, progress
<1>3. /\ h \in Frames /\ queue[r] = <<h>> /\ Sent(r) = Append(g, h) /\ Sent(r)' = Sent(r)
      /\ Len(queue'[r]) <= 1
  BY TakeMoves
<1> HIDE DEF h, g
<1>4. ASSUME h = End
       PROVE  Response(r)' /\ Life(r)' /\ \A q \in Run \ {r} : Same(q)
  <2>1. /\ gone' = [gone EXCEPT ![r] = TRUE] /\ kick' = [kick EXCEPT ![r] = Live(r)]
    BY <1>4 DEF Take, Abandon, h
  <2>2. gone'[r] /\ kick'[r] = Live(r) /\ \A q \in Run \ {r} : gone'[q] = gone[q] /\ kick'[q] = kick[q]
    BY <1>1, <2>1
  <2>3. stage[r] # "new"
    <3>1. SUFFICES ASSUME stage[r] = "new" PROVE FALSE
      OBVIOUS
    <3>2. Opened(Append(g, h), seq[r])
      BY <1>1, <1>3, <3>1 DEF Response
    <3>3. Len(Append(g, h)) = Len(g) + 1 /\ Append(g, h)[Len(g) + 1] = h /\ Len(g) \in Nat
      BY <1>1, <1>3, AppendProperties
    <3>4. h.kind = "event"
      BY <3>2, <3>3 DEF Opened
    <3> QED
      BY <3>4, <1>4 DEF End, Frame
  <2>4. Response(r)'
    BY <1>1, <1>2, <1>3, <2>2 DEF Response
  <2>5. Life(r)'
    BY <1>1, <1>2, <2>2, <2>3 DEF Life, Live
  <2>6. \A q \in Run \ {r} : Same(q)
    BY <1>1, <1>2, <2>2 DEF Same
  <2> QED
    BY <2>4, <2>5, <2>6
<1>5. ASSUME h # End
       PROVE  Response(r)' /\ Life(r)' /\ \A q \in Run \ {r} : Same(q)
  <2>1. UNCHANGED <<gone, kick>>
    BY <1>5 DEF Take, h
  <2>2. stage[r] # "done"
    <3>1. queue[r] # <<End>>
      BY <1>3, <1>5
    <3> QED
      BY <1>1, <1>2, <3>1 DEF Response
  <2>3. Response(r)'
    BY <1>1, <1>2, <1>3, <2>2 DEF Response
  <2>4. Life(r)'
    BY <1>1, <1>2, <2>1 DEF Life
  <2>5. \A q \in Run \ {r} : Same(q)
    BY <1>1, <1>2, <2>1 DEF Same
  <2> QED
    BY <2>3, <2>4, <2>5
<1> QED
  BY <1>4, <1>5, OneRun

LEMMA DisconnectKeeps ==
  ASSUME RunTypes, Responses, NEW r \in Run, Disconnect(r)
  PROVE  Responses'
<1>1. /\ Response(r) /\ Life(r) /\ kick \in [Run -> BOOLEAN] /\ gone \in [Run -> BOOLEAN]
  BY DEF Responses, RunTypes
<1>2. /\ stage[r] # "new" /\ UNCHANGED <<stage, todo, queue, terminal, got, last, seq>>
      /\ gone' = [gone EXCEPT ![r] = TRUE] /\ kick' = [kick EXCEPT ![r] = Live(r)]
  BY DEF Disconnect, Abandon, progress
<1>3. gone'[r] /\ kick'[r] = Live(r) /\ \A q \in Run \ {r} : gone'[q] = gone[q] /\ kick'[q] = kick[q]
  BY <1>1, <1>2
<1>4. Sent(r)' = Sent(r)
  BY <1>2 DEF Sent
<1>5. Response(r)'
  BY <1>1, <1>2, <1>3, <1>4 DEF Response
<1>6. Life(r)'
  BY <1>1, <1>2, <1>3 DEF Life, Live
<1>7. \A q \in Run \ {r} : Same(q)
  BY <1>2, <1>3 DEF Same
<1> QED
  BY <1>5, <1>6, <1>7, OneRun

\* Runs whose cancellation is accepted have not begun to report.
LEMMA CancelKeeps ==
  ASSUME Responses, NEW S \in SUBSET Run, CancelRuns(S),
         UNCHANGED <<stage, todo, queue, terminal, got, gone, progress>>
  PROVE  Responses'
<1>1. ASSUME NEW q \in Run
      PROVE  Response(q)' /\ Life(q)'
  <2>1. kick'[q] = (kick[q] \/ (q \in S /\ CanCancel(q)))
    BY DEF CancelRuns
  <2>2. (kick[q] => kick'[q]) /\ (kick'[q] => kick[q] \/ ~terminal[q])
    BY <2>1 DEF CanCancel
  <2> QED
    BY <2>2, OthersKeep DEF Responses, progress
<1> QED
  BY <1>1 DEF Responses

LEMMA ExpireKeeps ==
  ASSUME RunTypes, Responses, NEW r \in Run, Expire(r)
  PROVE  Responses'
<1>1. /\ stage[r] \in InSession /\ kick' = [kick EXCEPT ![r] = TRUE] /\ kick \in [Run -> BOOLEAN]
      /\ UNCHANGED <<stage, todo, queue, terminal, got, gone, last, seq>>
  BY DEF Expire, RunTypes, progress
<1>2. kick'[r] /\ \A q \in Run \ {r} : kick'[q] = kick[q]
  BY <1>1
<1>3. Sent(r)' = Sent(r) /\ Response(r) /\ Life(r)
  BY <1>1 DEF Sent, Responses
<1>4. Response(r)'
  BY <1>1, <1>3 DEF Response
<1>5. Life(r)'
  BY <1>1, <1>2, <1>3 DEF Life, InSession
<1>6. \A q \in Run \ {r} : Same(q)
  BY <1>1, <1>2 DEF Same
<1> QED
  BY <1>4, <1>5, <1>6, OneRun

\* What was not sent when the client went is not sent.
LEMMA InterruptReportKeeps ==
  ASSUME DurableInv, SlotInv, RunTypes, Responses, NEW r \in Run, InterruptReport(r)
  PROVE  Responses'
<1>1. /\ Response(r) /\ Life(r) /\ Sent(r) \in Seq(Frames) /\ todo[r] \in Seq(Frames)
      /\ todo \in [Run -> Seq(Frames)] /\ kick \in [Run -> BOOLEAN] /\ stage \in [Run -> Stages]
  BY ListTypes DEF Responses, RunTypes, SlotInv
<1>2. /\ kick[r] /\ stage[r] = "reporting" /\ UNCHANGED <<queue, terminal, got, gone, last, seq>>
      /\ stage' = [stage EXCEPT ![r] = "done"] /\ todo' = [todo EXCEPT ![r] = <<>>]
      /\ kick' = [kick EXCEPT ![r] = FALSE]
  BY DEF InterruptReport, progress
<1>3. /\ stage'[r] = "done" /\ todo'[r] = <<>> /\ ~kick'[r]
      /\ \A q \in Run \ {r} : stage'[q] = stage[q] /\ todo'[q] = todo[q] /\ kick'[q] = kick[q]
  BY <1>1, <1>2
<1>4. gone[r] /\ Sent(r)' = Sent(r) /\ WellFormed(Sent(r)) /\ Sent(r) \o <<>> = Sent(r)
  BY <1>1, <1>2, PrefixIsWellFormed, ConcatEmptySeq DEF Sent, Response, Life
<1>5. Response(r)'
  BY <1>1, <1>2, <1>3, <1>4 DEF Response, Sends
<1>6. Life(r)'
  BY <1>1, <1>2, <1>3, <1>4 DEF Life
<1>7. \A q \in Run \ {r} : Same(q)
  BY <1>2, <1>3 DEF Same
<1> QED
  BY <1>5, <1>6, <1>7, OneRun

\* Every step of the server keeps the responses,
LEMMA HttpStepKeeps ==
  ASSUME HttpAssumption, DurableInv, SlotInv, RunTypes, Responses, [Next]_vars
  PROVE  Responses'
<1>1. ASSUME NEW r \in Run, Start(r)
      PROVE  Responses'
  BY <1>1, EnterKeeps DEF Start
<1>2. ASSUME NEW r \in Run, TaskStep(r)
      PROVE  Responses'
  BY <1>2, RunStepKeeps, InterruptRunKeeps, InterruptReportKeeps, PutKeeps DEF TaskStep
<1>3. ASSUME NEW r \in Run, Expire(r)
      PROVE  Responses'
  BY <1>3, ExpireKeeps
<1>4. ASSUME NEW r \in Run, Take(r)
      PROVE  Responses'
  BY <1>4, TakeKeeps
<1>5. ASSUME NEW r \in Run, Disconnect(r)
      PROVE  Responses'
  BY <1>5, DisconnectKeeps
<1>6. ASSUME NEW r \in Run, Cancel(r)
      PROVE  Responses'
  BY <1>6, CancelKeeps DEF Cancel
<1>7. CASE Close
  <2>1. {r \in Run : Live(r)} \in SUBSET Run
    OBVIOUS
  <2> QED
    BY <1>7, <2>1, CancelKeeps DEF Close
<1>8. CASE UNCHANGED vars
  <2>1. \A q \in Run : Same(q)
    BY <1>8 DEF vars, runtimeVars, control, progress, Same
  <2>2. \A q \in Run : Response(q)' /\ Life(q)'
    BY <2>1, OthersKeep DEF Same, Responses
  <2> QED
    BY <2>2 DEF Responses
<1> QED
  BY <1>1, <1>2, <1>3, <1>4, <1>5, <1>6, <1>7, <1>8 DEF Next

\* the slots,
LEMMA HttpStepSlots ==
  ASSUME ServerAssumption, SlotInv, Responses, [Next]_vars
  PROVE  SlotInv'
<1>1. ASSUME NEW r \in Run, Start(r)
      PROVE  SlotInv'
  BY <1>1, EnterSlots DEF Start, Outside
<1>2. ASSUME NEW r \in Run, TaskStep(r)
      PROVE  SlotInv'
  <2>1. CASE RunStep(r)
    BY <2>1, RunStepSlots
  <2>2. CASE InterruptRun(r)
    BY <2>2, FailSlots DEF InterruptRun
  <2>3. CASE InterruptReport(r)
    BY <2>3, SlotsKept DEF InterruptReport, Outside
  <2>4. CASE Put(r)
    <3>1. stage[r] \in Sends /\ Resume(r)
      BY <2>4 DEF Put, Responses, Response
    <3> QED
      BY <3>1, ResumeSlots
  <2> QED
    BY <1>2, <2>1, <2>2, <2>3, <2>4 DEF TaskStep
<1>3. ASSUME NEW r \in Run, Expire(r) \/ Take(r) \/ Disconnect(r) \/ Cancel(r)
      PROVE  SlotInv'
  BY <1>3, SlotsQuiet DEF Expire, Take, Disconnect, Cancel
<1>4. CASE Close \/ UNCHANGED vars
  BY <1>4, SlotsQuiet DEF Close, vars, runtimeVars, control
<1> QED
  BY <1>1, <1>2, <1>3, <1>4 DEF Next

\* and the types.
LEMMA HttpStepTypes ==
  ASSUME ServerAssumption, RunTypes, closing \in BOOLEAN, [Next]_vars
  PROVE  RunTypes' /\ closing' \in BOOLEAN
<1>1. ASSUME NEW r \in Run, Start(r)
      PROVE  RunTypes' /\ closing' \in BOOLEAN
  BY <1>1, EnterTypes DEF Start
<1>2. ASSUME NEW r \in Run, TaskStep(r)
      PROVE  RunTypes' /\ closing' \in BOOLEAN
  <2>1. CASE RunStep(r) /\ UNCHANGED closing
    BY <2>1, RunStepTypes
  <2>2. CASE InterruptRun(r) /\ UNCHANGED closing
    BY <2>2, InterruptTypes
  <2>3. CASE InterruptReport(r) /\ UNCHANGED closing
    BY <2>3 DEF InterruptReport, RunTypes, progress, history
  <2>4. CASE Put(r)
    <3>1. terminal' \in [Run -> BOOLEAN]
      <4>1. terminal' = terminal \/ terminal' = [terminal EXCEPT ![r] = TRUE]
        BY <2>4 DEF Put, Resume
      <4> QED
        BY <4>1 DEF RunTypes
    <3>2. UNCHANGED <<cancelled, kick, gone, authorized, last, store, loaded, closing>>
      BY <2>4 DEF Put, progress, history
    <3> QED
      BY <3>1, <3>2 DEF RunTypes
  <2> QED
    BY <1>2, <2>1, <2>2, <2>3, <2>4 DEF TaskStep
<1>3. ASSUME NEW r \in Run, Expire(r), UNCHANGED closing
      PROVE  RunTypes' /\ closing' \in BOOLEAN
  BY <1>3 DEF Expire, RunTypes, progress, history
<1>4. ASSUME NEW r \in Run, Take(r) \/ Disconnect(r)
      PROVE  RunTypes' /\ closing' \in BOOLEAN
  <2>1. UNCHANGED <<terminal, authorized, last, store, loaded, closing>>
    BY <1>4 DEF Take, Disconnect, progress, history
  <2>2. UNCHANGED <<gone, cancelled, kick>> \/ Abandon(r)
    BY <1>4 DEF Take, Disconnect
  <2>3. gone' \in [Run -> BOOLEAN] /\ cancelled' \in [Run -> BOOLEAN] /\ kick' \in [Run -> BOOLEAN]
    <3>1. Live(r) \in BOOLEAN
      BY DEF Live
    <3> QED
      BY <2>2, <3>1 DEF Abandon, RunTypes
  <2> QED
    BY <2>1, <2>3 DEF RunTypes
<1>5. ASSUME NEW r \in Run, Cancel(r)
      PROVE  RunTypes' /\ closing' \in BOOLEAN
  BY <1>5 DEF Cancel, CancelRuns, RunTypes, progress, history
<1>6. CASE Close
  BY <1>6 DEF Close, CancelRuns, RunTypes, progress, history
<1>7. CASE UNCHANGED vars
  BY <1>7 DEF vars, runtimeVars, control, RunTypes, progress, history
<1> QED
  BY <1>1, <1>2, <1>3, <1>4, <1>5, <1>6, <1>7 DEF Next

LEMMA HttpInit ==
  ASSUME ServerAssumption, Init
  PROVE  HttpInv
<1>1. DurableInv /\ SlotInv /\ RunTypes /\ closing \in BOOLEAN
  BY InitIsDurable, InitSlots, InitTypes DEF Init
<1>2. ASSUME NEW r \in Run
      PROVE  Response(r) /\ Life(r)
  <2>1. /\ stage[r] = "new" /\ todo[r] = <<>> /\ queue[r] = <<>> /\ got[r] = <<>> /\ ~gone[r]
    BY DEF Init, RuntimeInit
  <2>2. Sent(r) = <<>> /\ Sent(r) \o todo[r] = <<>>
    BY <2>1 DEF Sent
  <2>3. Len(queue[r]) <= 1 /\ WellFormed(Sent(r) \o todo[r]) /\ Opened(Sent(r), seq[r])
    BY <2>1, <2>2 DEF WellFormed, Opened
  <2>4. Response(r)
    BY <2>1, <2>3 DEF Response, Sends
  <2> QED
    BY <2>1, <2>4 DEF Life
<1> QED
  BY <1>1, <1>2 DEF HttpInv

LEMMA HttpStep ==
  ASSUME ServerAssumption, HttpAssumption, HttpInv, [Next]_vars
  PROVE  HttpInv'
<1>1. DurableInv'
  BY HttpStepIsDurable DEF HttpInv
<1>2. Responses /\ DurableInv /\ SlotInv /\ RunTypes /\ closing \in BOOLEAN
  BY DEF HttpInv, Responses
<1>3. Responses'
  BY <1>2, HttpStepKeeps
<1>4. SlotInv'
  BY <1>2, HttpStepSlots
<1>5. RunTypes' /\ closing' \in BOOLEAN
  BY <1>2, HttpStepTypes
<1> QED
  BY <1>1, <1>3, <1>4, <1>5 DEF HttpInv, Responses

LEMMA HttpInvariant == Spec => []HttpInv
<1>1. Init => HttpInv
  BY ServerAssumption, HttpInit
<1>2. HttpInv /\ [Next]_vars => HttpInv'
  BY ServerAssumption, HttpAssumption, HttpStep
<1> QED
  BY <1>1, <1>2, PTL DEF Spec

\* All variables keep their types; the queue never holds more than a frame.
THEOREM HttpTypeCorrect == Spec => []TypeOK
<1>1. HttpInv => TypeOK
  <2> SUFFICES ASSUME HttpInv PROVE TypeOK
    OBVIOUS
  <2>1. RuntimeTypeOK
    BY TypesImply DEF HttpInv
  <2>2. \A r \in Run : Len(queue[r]) <= Buffer
    BY HttpAssumption DEF HttpInv, Response
  <2> QED
    BY <2>1, <2>2 DEF HttpInv, TypeOK
<1> QED
  BY <1>1, HttpInvariant, PTL

\* Whatever is cancelled, times out, fails or disconnects when: each semaphore's
\* free slots and the runs that hold one add up to its capacity, and its line
\* has only runs that wait for it (session()).
THEOREM HttpSlotsConserved == Spec => []SlotsAreConserved
<1>1. HttpInv => SlotsAreConserved
  BY SlotsImply DEF HttpInv
<1> QED
  BY <1>1, HttpInvariant, PTL

\* A run that is no longer active has left the trailer in the queue of a client
\* that stays, so that its generator ends (produce()).
THEOREM ResponsesEnd == Spec => []ResponseEnds
<1>1. HttpInv => ResponseEnds
  BY DEF HttpInv, Response, ResponseEnds
<1> QED
  BY <1>1, HttpInvariant, PTL

\* What the client has and what is in the queue is a well-formed response, for
\* every order of the steps of the run, its client and the server.
THEOREM ResponsesAreWellFormed == Spec => []ResponseIsWellFormed
<1>1. HttpInv => ResponseIsWellFormed
  <2> SUFFICES ASSUME HttpInv, NEW r \in Run, NEW i \in DOMAIN Sent(r), NEW j \in DOMAIN Sent(r), i < j
               PROVE  /\ Follows(Sent(r)[i], Sent(r)[j])
                      /\ Sent(r)[j].kind = "run_result" =>
                           \E k \in DOMAIN Sent(r) : Sent(r)[k].kind = "run_completed"
    BY DEF ResponseIsWellFormed, Follows
  <2> DEFINE s == Sent(r)
  <2>1. s \in Seq(Frames) /\ todo[r] \in Seq(Frames)
    BY ListTypes DEF HttpInv
  <2>2. WellFormed(s)
    BY <2>1, PrefixIsWellFormed DEF HttpInv, Response
  <2> HIDE DEF s
  <2>3. Len(s) \in Nat /\ DOMAIN s = 1 .. Len(s)
    BY <2>1
  <2>4. i \in 1 .. j - 1 /\ j \in 1 .. Len(s)
    BY <2>3 DEF s
  <2>5. Follows(s[i], s[j])
    BY <2>2, <2>4 DEF WellFormed
  <2>6. ASSUME s[j].kind = "run_result"
        PROVE  \E k \in DOMAIN s : s[k].kind = "run_completed"
    <3>1. PICK k \in 1 .. j - 1 : s[k].kind = "run_completed"
      BY <2>2, <2>4, <2>6 DEF WellFormed
    <3>2. k \in DOMAIN s
      BY <2>3, <2>4, <3>1
    <3> QED
      BY <3>1, <3>2
  <2> QED
    BY <2>5, <2>6 DEF s
<1> QED
  BY <1>1, HttpInvariant, PTL

-----------------------------------------------------------------------------
(* The outcome of a run *)

LEMMA AnswerKept ==
  ASSUME NEW q, got'[q] = got[q], queue'[q] = queue[q]
  PROVE  AnswerOf(q)' = AnswerOf(q)
<1>1. Sent(q)' = Sent(q)
  BY DEF Sent
<1> QED
  BY <1>1 DEF AnswerOf

\* A frame that enters the queue is an answer, or tells nothing.
LEMMA FrameRefines ==
  ASSUME DurableInv, DurableInv', NEW r \in Run, NEW f \in Frames,
         \A q \in Run \ {r} : Unseen(q),
         stored'[r] = stored[r], gone'[r] = gone[r], stage[r] # "done", stage'[r] # "done",
         queue'[r] = <<f>>, Sent(r)' = Append(Sent(r), f), WellFormed(Append(Sent(r), f))
  PROVE  [Outcome!Next]_(Outcome!vars)
<1> DEFINE s == Sent(r)
           u == Append(s, f)
<1>1. s \in Seq(Frames) /\ u \in Seq(Frames) /\ Len(s) \in Nat /\ Len(u) = Len(s) + 1
      /\ u[Len(s) + 1] = f /\ \A i \in 1 .. Len(s) : u[i] = s[i]
  BY ListTypes, AppendProperties
<1>2. AnswerOf(r) = AnswerIn(s) /\ AnswerOf(r)' = AnswerIn(u)
  BY DEF AnswerOf, AnswerIn
<1>3. WellFormed(u)
  OBVIOUS
<1> HIDE DEF s, u
<1>4. ASSUME f.kind \in Terminals
      PROVE  ~Some(s, Terminals)
  <2> SUFFICES ASSUME Some(s, Terminals) PROVE FALSE
    OBVIOUS
  <2>1. PICK i \in 1 .. Len(s) : s[i].kind \in Terminals
    BY DEF Some
  <2>2. i \in 1 .. (Len(s) + 1) - 1 /\ Len(s) + 1 \in 1 .. Len(u)
    BY <1>1
  <2>3. Follows(u[i], u[Len(s) + 1])
    BY <1>3, <2>2 DEF WellFormed
  <2>4. f = End
    BY <1>1, <2>1, <2>3 DEF Follows
  <2> QED
    BY <1>4, <2>4 DEF End, Frame, Terminals
<1>5. /\ f.kind \notin Terminals => AnswerIn(u) = AnswerIn(s)
      /\ f.kind \in Terminals =>
           /\ AnswerIn(s) = "none"
           /\ AnswerIn(u) = IF f.kind = "run_result" THEN "result" ELSE "error"
  BY <1>1, <1>4, AnswerGrows DEF u
<1>6. CASE f.kind \notin Terminals
  <2>1. Unseen(r)
    BY <1>2, <1>5, <1>6 DEF Unseen
  <2> QED
    BY <2>1, MuteRefines
<1>7. CASE f.kind \in Terminals
  <2>1. f.kind = "run_result" => stored[r]
    <3>1. queue'[r] \in Seq(Sendable(r)')
      BY DEF DurableInv, Durable
    <3>2. queue'[r][1] = f /\ Len(queue'[r]) = 1
      OBVIOUS
    <3>3. f \in Sendable(r)'
      BY <3>1, <3>2
    <3> QED
      BY <3>3 DEF Sendable, Completion
  <2>2. /\ AnswerOf(r) = "none" /\ AnswerOf(r)' \in {"result", "error"}
        /\ AnswerOf(r)' = "result" => stored[r]
    BY <1>2, <1>5, <1>7, <2>1
  <2> QED
    BY <2>2, AnswerRefines
<1> QED
  BY <1>6, <1>7

\* Sending an event, or the beginning of an ending.
LEMMA PushRefines ==
  ASSUME HttpAssumption, HttpInv, DurableInv', NEW r \in Run,
         stage[r] \notin {"reporting", "done"},
         NEW frames \in Seq(Frames), frames # <<>>, WellFormed(frames),
         \A j \in 1 .. Len(frames) : frames[j].kind \in Events => frames[j].seq = seq[r],
         NEW blocked, NEW after, blocked # "done", Len(frames) = 1 => after # "done",
         Push(r, frames, blocked, after), UNCHANGED <<got, gone, stored>>
  PROVE  [Outcome!Next]_(Outcome!vars)
<1>1. DurableInv /\ SlotInv /\ Response(r)
  BY DEF HttpInv
<1>2. /\ \/ /\ gone[r] /\ queue' = queue /\ Sent(r)' = Sent(r) /\ todo'[r] = <<>>
            /\ stage'[r] = after
         \/ /\ ~gone[r] /\ queue[r] # <<>> /\ queue' = queue /\ Sent(r)' = Sent(r)
            /\ todo'[r] = frames /\ stage'[r] = blocked
         \/ /\ ~gone[r] /\ queue[r] = <<>> /\ queue'[r] = <<Head(frames)>>
            /\ Sent(r)' = Append(Sent(r), Head(frames)) /\ todo'[r] = Tail(frames)
            /\ stage'[r] = IF Len(frames) = 1 THEN after ELSE blocked
      /\ Len(queue'[r]) <= 1
      /\ WellFormed(Sent(r)' \o todo'[r])
      /\ \A q \in Run \ {r} :
           queue'[q] = queue[q] /\ todo'[q] = todo[q] /\ stage'[q] = stage[q]
  BY <1>1, PushResponse
<1>3. \A q \in Run \ {r} : Unseen(q)
  BY <1>2, AnswerKept DEF Unseen
<1>4. stored'[r] = stored[r] /\ gone'[r] = gone[r] /\ stage[r] # "done"
  OBVIOUS
<1>5. CASE queue' = queue
  <2>1. AnswerOf(r)' = AnswerOf(r)
    BY <1>5, AnswerKept
  <2>2. CASE stage'[r] = "done"
    <3>1. \/ gone[r] \/ stage'[r] = blocked
          \/ queue'[r] = <<Head(frames)>> /\ queue[r] = <<>>
      BY <1>2, Zenon
    <3>2. gone[r]
      BY <1>5, <2>2, <3>1
    <3> QED
      BY <1>3, <1>4, <2>1, <2>2, <3>2, EndRefines
  <2>3. CASE stage'[r] # "done"
    <3>1. Unseen(r)
      BY <1>4, <2>1, <2>3 DEF Unseen
    <3> QED
      BY <1>3, <3>1, MuteRefines
  <2> QED
    BY <2>2, <2>3
<1>6. CASE queue' # queue
  <2> DEFINE f == Head(frames)
  <2>1. /\ queue'[r] = <<f>> /\ Sent(r)' = Append(Sent(r), f) /\ todo'[r] = Tail(frames)
        /\ stage'[r] # "done"
    BY <1>2, <1>6
  <2>2. f \in Frames /\ Tail(frames) \in Seq(Frames) /\ Sent(r) \in Seq(Frames)
    BY <1>1, HeadTailProperties, ListTypes
  <2>3. Append(Sent(r), f) \in Seq(Frames) /\ WellFormed(Append(Sent(r), f) \o Tail(frames))
    BY <1>2, <2>1, <2>2, AppendProperties
  <2>4. WellFormed(Append(Sent(r), f))
    BY <2>2, <2>3, PrefixIsWellFormed
  <2> HIDE DEF f
  <2> QED
    BY <1>1, <1>3, <1>4, <2>1, <2>2, <2>4, FrameRefines
<1> QED
  BY <1>5, <1>6

LEMMA FailRefines ==
  ASSUME HttpAssumption, HttpInv, DurableInv', NEW r \in Run, stage[r] \notin {"reporting", "done"},
         NEW error \in {"server_error", "run_cancelled"}, Fail(r, error), UNCHANGED <<got, gone, stored>>
  PROVE  [Outcome!Next]_(Outcome!vars)
<1> DEFINE frames == FailureFrames(r, error)
<1>1. seq[r] \in Nat
  BY ListTypes DEF HttpInv
<1>2. /\ frames \in Seq(Frames) /\ Len(frames) >= 2 /\ WellFormed(frames)
      /\ \A j \in 1 .. Len(frames) : frames[j].kind \in Events => frames[j].seq = seq[r]
  BY <1>1, FailureEnds
<1>3. Push(r, frames, "reporting", "done")
  BY DEF Fail
<1> HIDE DEF frames
<1>4. frames # <<>> /\ Len(frames) # 1
  BY <1>2, EmptySeq
<1> QED
  BY <1>2, <1>3, <1>4, PushRefines

LEMMA EmitRefines ==
  ASSUME HttpAssumption, HttpInv, DurableInv', NEW r \in Run, stage[r] \notin {"reporting", "done"},
         NEW kind \in {"event", "run_failed"}, NEW blocked, NEW after, blocked # "done", after # "done",
         Push(r, <<Frame(kind, seq[r])>>, blocked, after), UNCHANGED <<got, gone, stored>>
  PROVE  [Outcome!Next]_(Outcome!vars)
<1> DEFINE frames == <<Frame(kind, seq[r])>>
<1>1. seq[r] \in Nat
  BY ListTypes DEF HttpInv
<1>2. Ending(<<Frame("event", seq[r])>>, seq[r]) /\ Ending(<<Frame("run_failed", seq[r])>>, seq[r])
  BY <1>1, Endings
<1>3. Ending(frames, seq[r]) /\ frames # <<>>
  BY <1>2
<1> HIDE DEF frames
<1>4. /\ frames \in Seq(Frames) /\ WellFormed(frames)
      /\ \A j \in 1 .. Len(frames) : frames[j].kind \in Events => frames[j].seq = seq[r]
  BY <1>3 DEF Ending
<1>5. Push(r, frames, blocked, after)
  BY DEF frames
<1> QED
  BY <1>3, <1>4, <1>5, PushRefines

\* A run that moves on without sending.
LEMMA MoveRefines ==
  ASSUME NEW r \in Run, SlotInv, stage[r] # "done", NEW next, next # "done",
         stage' = [stage EXCEPT ![r] = next], UNCHANGED <<got, queue, gone, stored>>
  PROVE  [Outcome!Next]_(Outcome!vars)
<1>1. stage'[r] = next /\ \A q \in Run \ {r} : stage'[q] = stage[q]
  BY DEF SlotInv
<1>2. \A q \in Run : Unseen(q)
  BY <1>1, AnswerKept DEF Unseen
<1> QED
  BY <1>2, MuteRefines

\* A run that has not begun to end has no answer.
LEMMA OpenedIsUnanswered ==
  ASSUME DurableInv, NEW r \in Run, Response(r), stage[r] \notin {"reporting", "done"}
  PROVE  AnswerOf(r) = "none"
<1> DEFINE s == Sent(r)
<1>1. s \in Seq(Frames) /\ Opened(s, seq[r]) /\ AnswerOf(r) = AnswerIn(s)
  BY ListTypes DEF Response, AnswerOf, AnswerIn
<1> HIDE DEF s
<1>2. ~Some(s, Terminals)
  BY <1>1 DEF Opened, Some, Terminals
<1>3. End \in Frames
  BY DEF End, Frame, Frames
<1>4. AnswerIn(s) # "none" <=> Some(s, Terminals)
  BY <1>1, <1>2, <1>3, AnswerGrows
<1> QED
  BY <1>1, <1>2, <1>4

LEMMA RunStepRefines ==
  ASSUME HttpAssumption, HttpInv, DurableInv', NEW r \in Run, RunStep(r)
  PROVE  [Outcome!Next]_(Outcome!vars)
<1>0. SlotInv /\ DurableInv /\ Response(r)
  BY DEF HttpInv
<1>1. CASE TakeServerSlot(r)
  BY <1>0, <1>1, MoveRefines DEF TakeServerSlot, history
<1>2. CASE TakeAgentSlot(r)
  BY <1>0, <1>2, MoveRefines DEF TakeAgentSlot, history
<1>3. CASE Authorize(r)
  BY <1>0, <1>3, MoveRefines DEF Authorize, history
<1>4. CASE Load(r)
  BY <1>0, <1>4, MoveRefines DEF Load
<1>5. CASE SessionFails(r)
  BY <1>5, FailRefines DEF SessionFails, history
<1>6. CASE OpenStream(r)
  BY <1>6, EmitRefines DEF OpenStream, EmitEvent, history
<1>7. CASE StreamEvent(r)
  BY <1>7, EmitRefines DEF StreamEvent, EmitEvent, history
<1>8. CASE StreamResult(r)
  BY <1>8, EmitRefines DEF StreamResult, EmitEvent, history
<1>9. CASE StreamFails(r)
  <2>1. stage[r] = "streaming" /\ UNCHANGED <<got, gone, stored>>
    BY <1>9 DEF StreamFails, history
  <2>2. Fail(r, "server_error") \/ Push(r, <<Frame("run_failed", seq[r])>>, "failed", "failed")
    BY <1>9 DEF StreamFails
  <2> QED
    BY <2>1, <2>2, FailRefines, EmitRefines
<1>10. CASE StoreApplies(r)
  <2>1. /\ stage[r] = "persisting" /\ ~stored[r] /\ stored' = [stored EXCEPT ![r] = TRUE]
        /\ UNCHANGED <<stage, got, queue, gone>>
    BY <1>10 DEF StoreApplies, control
  <2>2. stored'[r] /\ \A q \in Run \ {r} : stored'[q] = stored[q]
    BY <1>0, <2>1 DEF DurableInv
  <2>3. \A q \in Run \ {r} : Unseen(q)
    BY <2>1, <2>2, AnswerKept DEF Unseen
  <2>4. AnswerOf(r) = "none"
    BY <1>0, <2>1, OpenedIsUnanswered
  <2>5. AnswerOf(r)' = AnswerOf(r)
    BY <2>1, AnswerKept
  <2> QED
    BY <2>1, <2>2, <2>3, <2>4, <2>5, PersistRefines
<1>11. CASE PersistReturns(r)
  <2> DEFINE frames == CompletionFrames(r)
  <2>1. /\ stage[r] = "persisting" /\ Push(r, frames, "reporting", "done")
        /\ UNCHANGED <<got, gone, stored>>
    BY <1>11 DEF PersistReturns, history
  <2>2. seq[r] \in Nat
    BY <1>0, ListTypes
  <2>3. /\ frames \in Seq(Frames) /\ Len(frames) >= 2 /\ WellFormed(frames)
        /\ \A j \in 1 .. Len(frames) : frames[j].kind \in Events => frames[j].seq = seq[r]
    BY <2>2, CompletionEnds
  <2> HIDE DEF frames
  <2>4. frames # <<>> /\ Len(frames) # 1
    BY <2>3, EmptySeq
  <2> QED
    BY <2>1, <2>3, <2>4, PushRefines
<1>12. CASE PersistFails(r)
  BY <1>12, FailRefines DEF PersistFails, history
<1> QED
  BY <1>1, <1>2, <1>3, <1>4, <1>5, <1>6, <1>7, <1>8, <1>9, <1>10, <1>11, <1>12 DEF RunStep

LEMMA PutRefines ==
  ASSUME HttpAssumption, HttpInv, DurableInv', NEW r \in Run, Put(r)
  PROVE  [Outcome!Next]_(Outcome!vars)
<1> DEFINE h == Head(todo[r])
<1>1. DurableInv /\ SlotInv /\ Responses
  BY DEF HttpInv, Responses
<1>2. /\ Response(r) /\ Resume(r) /\ todo[r] # <<>> /\ todo[r] \in Seq(Frames)
      /\ Sent(r) \in Seq(Frames) /\ queue'[r] = <<h>>
      /\ Sent(r)' = Append(Sent(r), h) /\ Sent(r)' \in Seq(Frames)
      /\ WellFormed(Sent(r)' \o Tail(todo[r]))
      /\ stage[r] \in Sends /\ UNCHANGED <<got, gone>>
      /\ \A q \in Run \ {r} : queue'[q] = queue[q]
  BY <1>1, PutMoves
<1>3. h \in Frames /\ Tail(todo[r]) \in Seq(Frames) /\ UNCHANGED stored
  BY <1>2, HeadTailProperties DEF Put, history
<1>4. WellFormed(Append(Sent(r), h))
  BY <1>2, <1>3, PrefixIsWellFormed
<1>5. /\ stage' = stage \/ \E next \in Stages : stage' = [stage EXCEPT ![r] = next]
      /\ stage'[r] = "done" => stage[r] = "reporting" /\ ~(Len(todo[r]) > 1)
      /\ stage \in [Run -> Stages]
  <2>1. stage \in [Run -> Stages] /\ stage[r] \in {"sending", "usage", "failed", "reporting"}
    BY <1>1, <1>2 DEF SlotInv, Sends
  <2>2. CASE Len(todo[r]) > 1
    BY <1>2, <2>1, <2>2 DEF Resume
  <2>3. CASE ~(Len(todo[r]) > 1) /\ stage[r] = "failed"
    <3>1. stage' = [stage EXCEPT ![r] = "reporting"]
      BY <1>2, <2>3 DEF Resume
    <3> QED
      BY <2>1, <3>1 DEF Stages
  <2>4. CASE ~(Len(todo[r]) > 1) /\ stage[r] # "failed"
    <3>1. stage' = [stage EXCEPT ![r] = CASE @ = "sending" -> "streaming"
                                         [] @ = "usage" -> "persisting"
                                         [] @ = "reporting" -> "done"]
      BY <1>2, <2>4 DEF Resume
    <3>2. \E next \in {"streaming", "persisting", "done"} :
            stage' = [stage EXCEPT ![r] = next] /\ (next = "done" => stage[r] = "reporting")
      BY <2>1, <2>4, <3>1
    <3> QED
      BY <2>1, <2>4, <3>2 DEF Stages, InSession
  <2> QED
    BY <2>2, <2>3, <2>4
<1>6. \A q \in Run \ {r} : Unseen(q)
  <2>1. \A q \in Run \ {r} : stage'[q] = stage[q]
    BY <1>5
  <2> QED
    BY <1>2, <1>3, <2>1, AnswerKept DEF Unseen
<1> HIDE DEF h
<1>7. CASE stage'[r] # "done"
  <2>1. stage[r] # "done"
    BY <1>2 DEF Sends
  <2> QED
    BY <1>1, <1>2, <1>3, <1>4, <1>6, <1>7, <2>1, FrameRefines
<1>8. CASE stage'[r] = "done"
  <2>1. stage[r] = "reporting" /\ ~(Len(todo[r]) > 1)
    BY <1>5, <1>8
  <2>2. Len(todo[r]) = 1 /\ h = todo[r][1]
    BY <1>2, <2>1, EmptySeq, HeadTailProperties DEF h
  <2>3. h = End /\ (Some(Sent(r), Terminals) \/ Some(todo[r], Terminals))
    BY <1>2, <2>1, <2>2 DEF Response
  <2>4. End.kind \notin Terminals
    BY DEF End, Frame, Terminals
  <2>5. ~Some(todo[r], Terminals)
    <3>1. todo[r][1] = End /\ \A i \in 1 .. Len(todo[r]) : i = 1
      BY <2>2, <2>3
    <3> QED
      BY <2>4, <3>1 DEF Some
  <2>6. AnswerIn(Append(Sent(r), h)) = AnswerIn(Sent(r)) /\ AnswerIn(Sent(r)) # "none"
    BY <1>2, <1>3, <2>3, <2>4, <2>5, AnswerGrows
  <2>7. AnswerOf(r)' = AnswerOf(r) /\ AnswerOf(r) # "none"
    <3>1. AnswerOf(r) = AnswerIn(Sent(r)) /\ AnswerOf(r)' = AnswerIn(Sent(r)')
      BY DEF AnswerOf, AnswerIn
    <3> QED
      BY <1>2, <2>6, <3>1
  <2>8. stored'[r] = stored[r] /\ gone'[r] = gone[r]
    BY <1>2, <1>3
  <2> QED
    BY <1>6, <1>8, <2>7, <2>8, EndRefines
<1> QED
  BY <1>7, <1>8

\* A client that takes the trailer, or disconnects, leaves.
LEMMA TakeRefines ==
  ASSUME HttpInv, NEW r \in Run, Take(r) \/ Disconnect(r)
  PROVE  [Outcome!Next]_(Outcome!vars)
<1>1. DurableInv /\ Responses /\ gone \in [Run -> BOOLEAN]
  BY DEF HttpInv, Responses, RunTypes
<1>2. UNCHANGED <<stage, stored>>
  BY DEF Take, Disconnect, history
<1>3. Sent(r)' = Sent(r) /\ \A q \in Run \ {r} : queue'[q] = queue[q] /\ got'[q] = got[q]
  <2>1. CASE Take(r)
    BY <1>1, <2>1, TakeMoves
  <2>2. CASE Disconnect(r)
    BY <2>2 DEF Disconnect, Sent
  <2> QED
    BY <2>1, <2>2
<1>4. AnswerOf(r)' = AnswerOf(r) /\ \A q \in Run \ {r} : AnswerOf(q)' = AnswerOf(q)
  BY <1>3, AnswerKept DEF AnswerOf
<1>5. gone' = gone \/ gone' = [gone EXCEPT ![r] = TRUE]
  BY DEF Take, Disconnect, Abandon
<1>6. \A q \in Run \ {r} : Unseen(q)
  BY <1>1, <1>2, <1>4, <1>5 DEF Unseen
<1>7. CASE gone' = gone
  <2>1. Unseen(r)
    BY <1>2, <1>4, <1>7 DEF Unseen
  <2> QED
    BY <1>6, <2>1, MuteRefines
<1>8. CASE gone' = [gone EXCEPT ![r] = TRUE]
  <2>1. gone'[r]
    BY <1>1, <1>8
  <2> QED
    BY <1>2, <1>4, <1>6, <2>1, LeaveRefines
<1> QED
  BY <1>5, <1>7, <1>8

LEMMA HttpStepRefines ==
  ASSUME ServerAssumption, HttpAssumption, HttpInv, [Next]_vars
  PROVE  [Outcome!Next]_(Outcome!vars)
<1>0. SlotInv /\ DurableInv /\ RunTypes /\ DurableInv'
  BY HttpStepIsDurable DEF HttpInv
<1>1. ASSUME NEW r \in Run, Start(r)
      PROVE  [Outcome!Next]_(Outcome!vars)
  <2>1. CASE UnknownAgent(r)
    BY <1>0, <1>1, <2>1, FailRefines DEF Start, UnknownAgent, history
  <2>2. CASE JoinLine(r)
    BY <1>0, <1>1, <2>2, MoveRefines DEF Start, JoinLine, history
  <2> QED
    BY <1>1, <2>1, <2>2 DEF Start, Enter
<1>2. ASSUME NEW r \in Run, TaskStep(r)
      PROVE  [Outcome!Next]_(Outcome!vars)
  <2>1. CASE InterruptRun(r)
    <3>1. Cause(r) \in {"server_error", "run_cancelled"} /\ stage[r] \notin {"reporting", "done"}
      BY <2>1 DEF Cause, InterruptRun, InSession
    <3> QED
      BY <1>0, <2>1, <3>1, FailRefines DEF InterruptRun, history
  <2>2. CASE InterruptReport(r)
    <3>1. /\ stage' = [stage EXCEPT ![r] = "done"] /\ UNCHANGED <<queue, got, gone, stored>>
          /\ stage[r] = "reporting" /\ kick[r]
      BY <2>2 DEF InterruptReport, history
    <3>2. stage'[r] = "done" /\ \A q \in Run \ {r} : stage'[q] = stage[q]
      BY <1>0, <3>1 DEF SlotInv
    <3>3. \A q \in Run \ {r} : Unseen(q)
      BY <3>1, <3>2, AnswerKept DEF Unseen
    <3>4. gone[r]
      BY <3>1 DEF HttpInv, Life
    <3>5. AnswerOf(r)' = AnswerOf(r)
      BY <3>1, AnswerKept
    <3> QED
      BY <3>1, <3>2, <3>3, <3>4, <3>5, EndRefines
  <2> QED
    BY <1>0, <1>2, <2>1, <2>2, RunStepRefines, PutRefines DEF TaskStep
<1>3. ASSUME NEW r \in Run, Take(r) \/ Disconnect(r)
      PROVE  [Outcome!Next]_(Outcome!vars)
  BY <1>3, TakeRefines
<1>4. ASSUME UNCHANGED <<stage, queue, got, gone, stored>>
      PROVE  [Outcome!Next]_(Outcome!vars)
  <2>1. \A q \in Run : Unseen(q)
    BY <1>4, AnswerKept DEF Unseen
  <2> QED
    BY <2>1, MuteRefines
<1>5. ASSUME NEW r \in Run, Expire(r) \/ Cancel(r)
      PROVE  [Outcome!Next]_(Outcome!vars)
  BY <1>4, <1>5 DEF Expire, Cancel, history
<1>6. CASE Close \/ UNCHANGED vars
  BY <1>4, <1>6 DEF Close, vars, runtimeVars, control, history
<1> QED
  BY <1>1, <1>2, <1>3, <1>5, <1>6 DEF Next

\* The server implements RunOutcome: a client that stays has exactly one answer
\* when its run ends, a result only for a run that was stored before, and
\* nothing changes the answer, or the store for this run, afterwards.
THEOREM HttpImplementsOutcome == Spec => OutcomeSpec
<1>1. Init => Outcome!Init
  <2> SUFFICES ASSUME Init PROVE Outcome!Init
    OBVIOUS
  <2>1. ASSUME NEW r \in Run
        PROVE  ~stored[r] /\ ~gone[r] /\ stage[r] # "done" /\ AnswerOf(r) = "none"
    <3>1. got[r] = <<>> /\ queue[r] = <<>> /\ ~stored[r] /\ ~gone[r] /\ stage[r] = "new"
      BY DEF Init, RuntimeInit
    <3>2. Sent(r) = <<>>
      BY <3>1 DEF Sent
    <3>3. {Sent(r)[i].kind : i \in DOMAIN Sent(r)} = {}
      BY <3>2
    <3>4. AnswerOf(r) = "none"
      BY <3>3 DEF AnswerOf
    <3> QED
      BY <3>1, <3>4
  <2> QED
    BY <2>1 DEF Outcome!Init
<1>2. HttpInv /\ [Next]_vars => [Outcome!Next]_(Outcome!vars)
  BY ServerAssumption, HttpAssumption, HttpStepRefines
<1> QED
  BY <1>1, <1>2, HttpInvariant, PTL DEF Spec, OutcomeSpec, Outcome!Spec

-----------------------------------------------------------------------------
(* The history of a conversation *)

\* All runs of a conversation are runs of one agent that runs one at a time.
RunsInTurn ==
  \A p, q \in Run : ConversationOf[p] = ConversationOf[q]
                    => AgentOf[p] = AgentOf[q] /\ Slots[AgentOf[p]] = 1

\* The agent's one slot keeps the runs of a conversation apart.
LEMMA SlotExcludes ==
  ASSUME ServerAssumption, SlotInv, CommitsHistory => RunsInTurn
  PROVE  Exclusive
<1> SUFFICES ASSUME CommitsHistory, NEW p \in Run, NEW q \in Run,
                    ConversationOf[p] = ConversationOf[q], stage[p] \in Loaded, stage[q] \in Loaded
             PROVE  p = q
  BY DEF Exclusive
<1> DEFINE a == AgentOf[p]
           H == Holders(a)
<1>1. a \in Sem /\ AgentOf[q] = a /\ Slots[a] = 1
  BY DEF RunsInTurn, ServerAssumption, Sem
<1>2. p \in H /\ q \in H
  BY <1>1 DEF Holders, Holds, Loaded, InSession
<1>3. IsFiniteSet(H) /\ free[a] \in Nat /\ free[a] + Cardinality(H) = 1
  BY <1>1 DEF SlotInv
<1> HIDE DEF H, a
<1>4. Cardinality(H) \in Nat
  BY <1>3, FS_CardinalityType
<1>5. Cardinality(H) = 0 \/ Cardinality(H) = 1
  BY <1>3, <1>4
<1>6. H = {} \/ \E x : H = {x}
  BY <1>3, <1>5, FS_EmptySet, FS_Singleton
<1> QED
  BY <1>2, <1>6

LEMMA HistoryStep ==
  ASSUME ServerAssumption, HttpAssumption, HttpInv, CommitsHistory => RunsInTurn, HistoryInv,
         [Next]_vars
  PROVE  HistoryInv' /\ Grows
<1>1. RunTypes /\ DurableInv /\ stage \in [Run -> Stages] /\ Exclusive /\ SlotInv /\ Responses
  BY SlotExcludes DEF HttpInv, SlotInv, Responses
<1>2. ASSUME NEW r \in Run, Start(r)
      PROVE  HistoryInv' /\ Grows
  BY <1>1, <1>2, EnterHistory DEF Start
<1>3. ASSUME NEW r \in Run, TaskStep(r)
      PROVE  HistoryInv' /\ Grows
  <2>1. CASE RunStep(r)
    BY <1>1, <2>1, RunStepHistory
  <2>2. CASE InterruptRun(r)
    BY <1>1, <2>2, FailHistory DEF InterruptRun
  <2>3. CASE InterruptReport(r)
    BY <1>1, <2>3, MoveHistory DEF InterruptReport, Loaded
  <2>4. CASE Put(r)
    <3>1. stage[r] \in Sends /\ Resume(r)
      BY <1>1, <2>4, PutMoves
    <3>2. UNCHANGED history
      BY <2>4 DEF Put
    <3> QED
      BY <1>1, <3>1, <3>2, ResumeHistory
  <2> QED
    BY <1>3, <2>1, <2>2, <2>3, <2>4 DEF TaskStep
<1>4. ASSUME UNCHANGED stage, UNCHANGED history
      PROVE  HistoryInv' /\ Grows
  BY <1>1, <1>4, HistoryQuiet
<1>5. ASSUME NEW r \in Run, Take(r) \/ Disconnect(r) \/ Expire(r) \/ Cancel(r)
      PROVE  HistoryInv' /\ Grows
  BY <1>4, <1>5 DEF Take, Disconnect, Expire, Cancel
<1>6. CASE Close \/ UNCHANGED vars
  BY <1>4, <1>6 DEF Close, vars, runtimeVars, control
<1> QED
  BY <1>2, <1>3, <1>5, <1>6 DEF Next

\* Where the store appends, or an agent with one slot serves all runs of a
\* conversation, no run's messages are overwritten by another that loaded the
\* history before.  Without either, the code does not promise it.
THEOREM HttpHistoryGrows ==
  ASSUME CommitsHistory => RunsInTurn
  PROVE  Spec => HistoryGrows
<1>1. Init => HistoryInv
  BY InitHistory DEF Init
<1>2. HttpInv /\ HistoryInv /\ [Next]_vars => HistoryInv'
  BY ServerAssumption, HttpAssumption, HistoryStep
<1>3. HttpInv /\ HistoryInv /\ [Next]_vars
      => [\A c \in Conversation : IsPrefix(store[c], store'[c])]_history
  BY ServerAssumption, HttpAssumption, HistoryStep DEF Grows
<1> QED
  BY <1>1, <1>2, <1>3, HttpInvariant, PTL DEF Spec, HistoryGrows


=============================================================================
