----------------------------- MODULE CodexProofs -----------------------------
(***************************************************************************)
(* Theorems about the Codex tokens and logins, for any services, calls,    *)
(* logins and callbacks.                                                   *)
(***************************************************************************)
EXTENDS CodexLogin, TLAPS

-----------------------------------------------------------------------------
\* A call that waits for the backend has sent something.
Sent == \A c \in Calls : pc[c] = "sending" => sent[c] # <<>>

CallsOK ==
  /\ absorbed \in [Writers -> Nat]
  /\ pc \in [Calls -> {"idle", "keying", "asking", "refreshing", "swapping",
                      "deleting", "sending", "ended"}]
  /\ seen \in [Calls -> Snapshot]
  /\ sent \in [Calls -> Seq(Snapshot)]
  /\ key \in [Calls -> Revisions]
  /\ Sent

StoreOK ==
  /\ store \in Snapshot
  /\ issued \in Tokens /\ floor \in Tokens
  /\ stale \in BOOLEAN
  /\ active \subseteq Services
  /\ write \in [Writers -> Mutations]
  /\ catalog \in [Services -> CatalogEntries]

LEMMA Values ==
  /\ Any \in Revisions /\ Nat \subseteq Revisions
  /\ NoTokens \in Tokens \/ MaxIssued \notin Nat
  /\ \A r \in Nat, t \in Tokens : [revision |-> r, tokens |-> t] \in Snapshot
  /\ \A r \in Revisions, t \in Tokens :
       [state |-> "running", expected |-> r, tokens |-> t] \in Mutations
  /\ \A m \in Mutations : m.expected + 1 \in Nat /\ m.tokens \in Tokens
  /\ \A s \in Snapshot : s.revision \in Nat /\ s.tokens \in Tokens
  /\ \A r, q \in Revisions : [key |-> r, source |-> q] \in CatalogEntries
BY DEF Any, Revisions, NoTokens, Tokens, Snapshot, Mutations, CatalogEntries

LEMMA EndKeeps ==
  ASSUME CodexAssumption, CallsOK, NEW c \in Calls, End(c)
  PROVE  CallsOK'
<1>1. Nothing \in Snapshot
  BY Values DEF Nothing, CodexAssumption
<1> QED
  BY <1>1, Values DEF End, CallsOK, Sent, Writers

LEMMA SendKeeps ==
  ASSUME CallsOK, NEW c \in Calls, NEW s \in Snapshot, Send(c, s)
  PROVE  CallsOK'
BY Values DEF Send, CallsOK, Sent, Writers

LEMMA SubmitKeeps ==
  ASSUME write \in [Writers -> Mutations], NEW w \in Writers, NEW r \in Revisions, NEW t \in Tokens,
         Submit(w, r, t)
  PROVE  write' \in [Writers -> Mutations]
BY Values DEF Submit

TokensInv == StoreOK /\ CallsOK

\* The steps of the calls and of the threads keep the types.
LEMMA TokensKeepTypes ==
  ASSUME CodexAssumption, TokensInv, TokensNext
  PROVE  TokensInv'
<1>1. ASSUME NEW c \in Calls, Begin(c) PROVE TokensInv'
  <2>1. StoreOK'
    <3>1. CASE Request(c) \/ List(c) \/ Build(c)
      BY <3>1 DEF Request, List, Build, storeVars, TokensInv, StoreOK
    <3>2. CASE Logout(c)
      <4>1. write' \in [Writers -> Mutations]
        BY <3>2, SubmitKeeps, Values DEF Logout, TokensInv, StoreOK, CodexAssumption, Writers
      <4> QED
        BY <3>2, <4>1 DEF Logout, TokensInv, StoreOK
    <3> QED BY <1>1, <3>1, <3>2 DEF Begin
  <2>2. Proceed(c, "asking") \/ Proceed(c, "keying") \/ Proceed(c, "deleting") \/ End(c)
    BY <1>1 DEF Begin, Request, List, Build, Logout
  <2>3. End(c) \/ (Go(c, pc'[c]) /\ pc' \in [Calls -> {"idle", "keying", "asking", "refreshing", "swapping", "deleting", "sending", "ended"}] /\ pc'[c] # "sending")
    BY <2>2 DEF Proceed, Go, TokensInv, CallsOK
  <2>4. CallsOK'
    BY <2>3, EndKeeps DEF TokensInv, Go, CallsOK, Sent
  <2> QED BY <2>1, <2>4 DEF TokensInv
<1>2. ASSUME NEW c \in Calls, ReadKey(c) PROVE TokensInv'
  <2>1. CallsOK'
    <3>1. CASE End(c) BY <3>1, EndKeeps DEF TokensInv
    <3>2. CASE ~End(c)
      BY <1>2, <3>2, Values DEF ReadKey, TokensInv, StoreOK, CallsOK, Sent
    <3> QED BY <3>1, <3>2
  <2> QED BY <1>2, <2>1 DEF ReadKey, storeVars, TokensInv, StoreOK
<1>3. ASSUME NEW c \in Calls, ReadTokens(c) PROVE TokensInv'
  <2>1. CallsOK'
    <3>1. CASE End(c) BY <3>1, EndKeeps DEF TokensInv
    <3>2. CASE Send(c, store) BY <3>2, SendKeeps DEF TokensInv, StoreOK
    <3>3. CASE ~End(c) /\ ~Send(c, store)
      BY <1>3, <3>3 DEF ReadTokens, TokensInv, StoreOK, CallsOK, Sent
    <3> QED BY <3>1, <3>2, <3>3
  <2> QED BY <1>3, <2>1 DEF ReadTokens, storeVars, TokensInv, StoreOK
<1>4. ASSUME NEW c \in Calls, Refreshed(c) PROVE TokensInv'
  <2>1. seen[c].revision \in Nat /\ seen[c].tokens \in Tokens /\ issued' \in Tokens
    BY <1>4, Values DEF Refreshed, Issue, TokensInv, CallsOK, StoreOK, Tokens, CodexAssumption
  <2>2. PICK t \in Tokens : Submit(c, seen[c].revision, t)
    BY <1>4, <2>1 DEF Refreshed
  <2>3. write' \in [Writers -> Mutations]
    BY <2>1, <2>2, SubmitKeeps, Values DEF TokensInv, StoreOK, Writers
  <2> QED BY <1>4, <2>1, <2>3 DEF Refreshed, Go, TokensInv, StoreOK, CallsOK, Sent
<1>5. ASSUME NEW c \in Calls, RefreshFails(c) PROVE TokensInv'
  BY <1>5, EndKeeps DEF RefreshFails, storeVars, TokensInv, StoreOK
<1>6. ASSUME NEW c \in Calls, Swapped(c) PROVE TokensInv'
  <2>1. [revision |-> write[c].expected + 1, tokens |-> write[c].tokens] \in Snapshot
    BY Values DEF TokensInv, StoreOK, Writers
  <2>2. CallsOK'
    BY <1>6, <2>1, EndKeeps, SendKeeps DEF Swapped, TokensInv, StoreOK
  <2>3. NoWrite \in Mutations
    BY DEF NoWrite, Mutations, Revisions, NoTokens, Tokens, CodexAssumption
  <2> QED BY <1>6, <2>2, <2>3 DEF Swapped, TokensInv, StoreOK
<1>7. ASSUME NEW c \in Calls, Respond(c) PROVE TokensInv'
  <2>1. CallsOK'
    <3>1. CASE End(c) BY <3>1, EndKeeps DEF TokensInv
    <3>2. CASE ~End(c)
      BY <1>7, <3>2 DEF Respond, Proceed, Go, TokensInv, CallsOK, Sent
    <3> QED BY <3>1, <3>2
  <2>2. catalog' \in [Services -> CatalogEntries]
    <3>1. Len(sent[c]) \in 1 .. Len(sent[c])
      BY <1>7 DEF Respond, TokensInv, CallsOK, Sent
    <3>2. sent[c][Len(sent[c])] \in Snapshot
      BY <3>1 DEF TokensInv, CallsOK
    <3>3. [key |-> key[c], source |-> sent[c][Len(sent[c])].revision] \in CatalogEntries
      BY <3>2, Values DEF TokensInv, CallsOK
    <3> QED BY <1>7, <3>3 DEF Respond, TokensInv, StoreOK
  <2> QED BY <1>7, <2>1, <2>2 DEF Respond, storeVars, TokensInv, StoreOK
<1>8. ASSUME NEW c \in Calls, Cancel(c) PROVE TokensInv'
  <2>1. CallsOK'
    <3>1. CASE End(c) BY <3>1, EndKeeps DEF TokensInv
    <3>2. CASE ~End(c)
      <4>1. absorbed' = [absorbed EXCEPT ![c] = 1] /\ UNCHANGED <<pc, seen, sent, key>>
        BY <1>8, <3>2 DEF Cancel
      <4> QED BY <4>1 DEF TokensInv, CallsOK, Sent
    <3> QED BY <3>1, <3>2
  <2> QED BY <1>8, <2>1 DEF Cancel, storeVars, TokensInv, StoreOK
<1>9. ASSUME NEW w \in Writers, Replace(w) PROVE TokensInv'
  <2>1. CallsOK' BY <1>9 DEF Replace, callVars, TokensInv, CallsOK, Sent
  <2>2. write' \in [Writers -> Mutations]
    BY <1>9 DEF Replace, TokensInv, StoreOK, Mutations
  <2>3. store' \in Snapshot /\ floor' \in Tokens /\ stale' \in BOOLEAN
    <3>1. store' \in Snapshot
      <4>1. write[w] \in Mutations /\ store \in Snapshot
        BY DEF TokensInv, StoreOK
      <4>2. write[w].tokens \in Tokens /\ store.revision + 1 \in Nat
        BY <4>1, Values
      <4>3. [revision |-> store.revision + 1, tokens |-> write[w].tokens] \in Snapshot
        BY <4>2, Values
      <4> QED BY <1>9, <4>1, <4>3 DEF Replace
    <3>2. floor' \in Tokens
      BY <1>9 DEF Replace, TokensInv, StoreOK
    <3>3. stale' \in BOOLEAN
      BY <1>9, Zenon DEF Replace, TokensInv, StoreOK
    <3> QED BY <3>1, <3>2, <3>3
  <2> QED BY <1>9, <2>1, <2>2, <2>3 DEF Replace, callVars, TokensInv, StoreOK
<1>10. ASSUME Expire PROVE TokensInv'
  BY <1>10 DEF Expire, callVars, TokensInv, StoreOK, CallsOK, Sent
<1> QED
  BY <1>1, <1>2, <1>3, <1>4, <1>5, <1>6, <1>7, <1>8, <1>9, <1>10 DEF TokensNext, CallStep

-----------------------------------------------------------------------------
\* The logins.
Stages == {"new", "starting", "idle", "closing", "ended"} \cup Waiting

LoginOK ==
  /\ login \in [Services -> Logins \cup {None}]
  /\ stage \in [Logins -> Stages]
  /\ expected \in [Logins -> Nat]
  /\ cancelled \subseteq Logins /\ finished \subseteq Logins
  /\ cause \in [Logins -> {"none", "timeout", "cancel"}]
  /\ submission \in [Logins -> Callbacks \cup {None}]
  /\ queue \in [Logins -> Seq(Callbacks \cup {Error})]
  /\ page \in [Callbacks -> {"none", "connected", "pending", "200", "400", "500"}]
  /\ succeeded \subseteq Logins
  /\ exiting \in [Services -> Logins \cup {None}]

LEMMA TokensKept ==
  ASSUME TokensInv, UNCHANGED tokenVars PROVE TokensInv'
BY DEF tokenVars, TokensInv, StoreOK, CallsOK, Sent

LEMMA CallsKept ==
  ASSUME TokensInv, UNCHANGED <<pc, seen, sent, key>>, absorbed' \in [Writers -> Nat]
  PROVE  CallsOK'
BY DEF TokensInv, CallsOK, Sent

LEMMA FinishKeeps ==
  ASSUME LoginOK, CodexAssumption, NEW l \in Logins, Finish(l)
  PROVE  /\ login' \in [Services -> Logins \cup {None}]
         /\ stage' \in [Logins -> Stages] /\ finished' \subseteq Logins
BY DEF Finish, Become, Release, LoginOK, Stages, CodexAssumption

LEMMA AnswerKeeps ==
  ASSUME LoginOK, NEW l, NEW status \in {"200", "500"}, Answer(l, status)
  PROVE  page' \in [Callbacks -> {"none", "connected", "pending", "200", "400", "500"}]
BY DEF Answer, LoginOK

LEMMA InterruptKeeps ==
  ASSUME TokensInv, LoginOK, CodexAssumption, NEW l \in Logins,
         NEW why \in {"timeout", "cancel"}, Interrupt(l, why)
  PROVE  /\ login' \in [Services -> Logins \cup {None}]
         /\ stage' \in [Logins -> Stages] /\ finished' \subseteq Logins
         /\ page' \in [Callbacks -> {"none", "connected", "pending", "200", "400", "500"}]
         /\ cause' \in [Logins -> {"none", "timeout", "cancel"}]
         /\ absorbed' \in [Writers -> Nat]
<1>1. CASE stage[l] = "saving" /\ absorbed[l] < 2
  <2>1. absorbed' = [absorbed EXCEPT ![l] = @ + 1] /\ UNCHANGED <<login, stage, finished, page>>
        /\ cause' = [cause EXCEPT ![l] = IF @ = "cancel" THEN @ ELSE why]
    BY <1>1 DEF Interrupt
  <2>2. absorbed' \in [Writers -> Nat]
    <3>1. absorbed \in [Writers -> Nat] /\ l \in Writers
      BY DEF TokensInv, CallsOK, Writers
    <3>2. absorbed[l] + 1 \in Nat
      BY <3>1
    <3> QED BY <2>1, <3>1, <3>2
  <2>3. cause' \in [Logins -> {"none", "timeout", "cancel"}]
    BY <2>1 DEF LoginOK
  <2> QED BY <2>1, <2>2, <2>3 DEF LoginOK
<1>2. CASE ~(stage[l] = "saving" /\ absorbed[l] < 2)
  <2>1. Finish(l) /\ UNCHANGED <<absorbed, cause>> /\ (Answer(l, "500") \/ UNCHANGED page)
    BY <1>2 DEF Interrupt
  <2> QED BY <2>1, FinishKeeps, AnswerKeeps DEF LoginOK, TokensInv, CallsOK
<1> QED BY <1>1, <1>2

LEMMA CancelKeeps ==
  ASSUME TokensInv, LoginOK, CodexAssumption, NEW l \in Logins, CancelLogin(l)
  PROVE  /\ login' \in [Services -> Logins \cup {None}]
         /\ stage' \in [Logins -> Stages] /\ finished' \subseteq Logins
         /\ cancelled' \subseteq Logins
         /\ page' \in [Callbacks -> {"none", "connected", "pending", "200", "400", "500"}]
         /\ cause' \in [Logins -> {"none", "timeout", "cancel"}]
         /\ absorbed' \in [Writers -> Nat]
<1>1. cancelled' \subseteq Logins
  BY DEF CancelLogin, LoginOK
<1>2. CASE stage[l] = "idle"
  BY <1>1, <1>2, FinishKeeps DEF CancelLogin, LoginOK, TokensInv, CallsOK
<1>3. CASE stage[l] # "idle"
  BY <1>1, <1>3, InterruptKeeps DEF CancelLogin
<1> QED BY <1>2, <1>3

LoginActions ==
  \/ \E l \in Logins :
       \/ Start(l) \/ BeginWait(l) \/ LoginStep(l)
       \/ Timeout(l) \/ InterruptWait(l) \/ Cancelled(l) \/ CloseInterrupted(l)
  \/ \E b \in Callbacks : Connect(b) \/ Receive(b)
  \/ \E s \in Services : Exit(s) \/ ExitReturns(s)

LEMMA LoginsKeepTypes ==
  ASSUME CodexAssumption, LoginAssumption, TokensInv, LoginOK, LoginActions
  PROVE  TokensInv' /\ LoginOK'
<1> USE DEF Stages, Waiting
<1>1. ASSUME NEW l \in Logins, Start(l) PROVE TokensInv' /\ LoginOK'
  <2>1. expected' \in [Logins -> Nat]
    BY <1>1, Values DEF Start, LoginOK, TokensInv, StoreOK
  <2> QED BY <1>1, <2>1, TokensKept DEF Start, Become, LoginOK
<1>2. ASSUME NEW l \in Logins, Started(l) PROVE TokensInv' /\ LoginOK'
  BY <1>2, TokensKept DEF Started, Become, LoginOK
<1>3. ASSUME NEW l \in Logins, StartFails(l) PROVE TokensInv' /\ LoginOK'
  BY <1>3, TokensKept DEF StartFails, Become, LoginOK
<1>4. ASSUME NEW l \in Logins, BeginWait(l) PROVE TokensInv' /\ LoginOK'
  BY <1>4, TokensKept DEF BeginWait, Become, LoginOK
<1>5. ASSUME NEW l \in Logins, Closed(l) PROVE TokensInv' /\ LoginOK'
  <2>1. queue' \in [Logins -> Seq(Callbacks \cup {Error})]
    BY <1>5 DEF Closed, LoginOK
  <2> QED BY <1>5, <2>1, TokensKept DEF Closed, Release, Become, LoginOK
<1>6. ASSUME NEW l \in Logins, CloseInterrupted(l) PROVE TokensInv' /\ LoginOK'
  BY <1>6, TokensKept DEF CloseInterrupted, Release, Become, LoginOK
<1>7. ASSUME NEW b \in Callbacks, Connect(b) PROVE TokensInv' /\ LoginOK'
  BY <1>7, TokensKept DEF Connect, LoginOK
<1>8. ASSUME NEW b \in Callbacks, Receive(b) PROVE TokensInv' /\ LoginOK'
  <2>1. queue' \in [Logins -> Seq(Callbacks \cup {Error})]
    <3>1. queue[LoginOf[b]] \in Seq(Callbacks \cup {Error})
      BY DEF LoginOK, LoginAssumption
    <3>2. \A m \in Callbacks \cup {Error} : Append(queue[LoginOf[b]], m) \in Seq(Callbacks \cup {Error})
      BY <3>1
    <3>3. \/ queue' = [queue EXCEPT ![LoginOf[b]] = Append(@, b)]
          \/ queue' = [queue EXCEPT ![LoginOf[b]] = Append(@, Error)]
          \/ queue' = queue
      BY <1>8 DEF Receive
    <3>4. PICK q \in Seq(Callbacks \cup {Error}) : queue' = [queue EXCEPT ![LoginOf[b]] = q]
      <4>1. queue = [queue EXCEPT ![LoginOf[b]] = queue[LoginOf[b]]]
        BY DEF LoginOK
      <4> QED BY <3>1, <3>2, <3>3, <4>1
    <3> QED BY <3>4 DEF LoginOK
  <2> QED BY <1>8, <2>1, TokensKept DEF Receive, LoginOK
<1>9. ASSUME NEW l \in Logins, Take(l) PROVE TokensInv' /\ LoginOK'
  <2>1. Head(queue[l]) \in Callbacks \cup {Error} /\ Tail(queue[l]) \in Seq(Callbacks \cup {Error})
    BY <1>9 DEF Take, LoginOK
  <2>2. queue' \in [Logins -> Seq(Callbacks \cup {Error})]
    BY <1>9, <2>1 DEF Take, LoginOK
  <2>3. CASE Head(queue[l]) = Error
    BY <1>9, <2>2, <2>3, FinishKeeps, TokensKept DEF Take, LoginOK
  <2>4. CASE Head(queue[l]) # Error
    <3>1. stage' \in [Logins -> Stages] /\ submission' \in [Logins -> Callbacks \cup {None}]
      <4>1. submission' = [submission EXCEPT ![l] = Head(queue[l])]
            /\ stage' = [stage EXCEPT ![l] = "exchanging"]
        BY <1>9, <2>4 DEF Take, Become
      <4>2. Head(queue[l]) \in Callbacks \cup {None}
        BY <2>1, <2>4
      <4> HIDE <1>9
      <4> QED BY <4>1, <4>2 DEF LoginOK
    <3> QED BY <1>9, <2>2, <2>4, <3>1, TokensKept DEF Take, LoginOK
  <2> QED BY <2>3, <2>4
<1>10. ASSUME NEW l \in Logins, Polled(l) PROVE TokensInv' /\ LoginOK'
  BY <1>10, TokensKept DEF Polled, Become, LoginOK
<1>11. ASSUME NEW l \in Logins, Fails(l) PROVE TokensInv' /\ LoginOK'
  BY <1>11, TokensKept, FinishKeeps, AnswerKeeps DEF Fails, LoginOK
<1>12. ASSUME NEW l \in Logins, Exchanged(l) PROVE TokensInv' /\ LoginOK'
  <2>1. issued' \in Tokens
    BY <1>12 DEF Exchanged, Issue, TokensInv, StoreOK, Tokens, CodexAssumption
  <2>2. CASE Submit(l, expected[l], issued') /\ Become(l, "saving") /\ UNCHANGED <<login, finished, page>>
    <3>1. write' \in [Writers -> Mutations]
      BY <2>1, <2>2, SubmitKeeps, Values DEF TokensInv, StoreOK, LoginOK, Writers
    <3>2. TokensInv'
      BY <1>12, <2>1, <3>1, CallsKept DEF Exchanged, callVars, TokensInv, StoreOK, CallsOK
    <3> QED BY <1>12, <2>2, <3>2 DEF Exchanged, Become, LoginOK
  <2>3. CASE Answer(l, "500") /\ Finish(l) /\ UNCHANGED write
    <3>1. TokensInv'
      BY <1>12, <2>1, <2>3, CallsKept DEF Exchanged, callVars, TokensInv, StoreOK, CallsOK
    <3> QED BY <1>12, <2>3, <3>1, FinishKeeps, AnswerKeeps DEF Exchanged, LoginOK
  <2> QED BY <1>12, <2>2, <2>3 DEF Exchanged
<1>13. ASSUME NEW l \in Logins, Saved(l) PROVE TokensInv' /\ LoginOK'
  <2>1. Answer(l, "200") \/ Answer(l, "500") \/ UNCHANGED page
    BY <1>13 DEF Saved
  <2>2. page' \in [Callbacks -> {"none", "connected", "pending", "200", "400", "500"}]
    BY <2>1, AnswerKeeps DEF LoginOK
  <2> QED BY <1>13, <2>2, TokensKept, FinishKeeps DEF Saved, LoginOK
<1>14. ASSUME NEW l \in Logins, Timeout(l) \/ InterruptWait(l) PROVE TokensInv' /\ LoginOK'
  <2>1. PICK why \in {"timeout", "cancel"} : Interrupt(l, why)
    BY <1>14 DEF Timeout, InterruptWait
  <2>2. UNCHANGED <<store, issued, floor, stale, write, active, callVars, expected, cancelled, submission, queue, succeeded, exiting>>
    BY <1>14 DEF Timeout, InterruptWait, storeVars
  <2>3. TokensInv'
    BY <2>1, <2>2, InterruptKeeps, CallsKept DEF callVars, TokensInv, StoreOK
  <2> QED BY <2>1, <2>2, <2>3, InterruptKeeps DEF LoginOK
<1>15. ASSUME NEW l \in Logins, Cancelled(l) PROVE TokensInv' /\ LoginOK'
  <2>1. TokensInv'
    BY <1>15, CancelKeeps, CallsKept DEF Cancelled, storeVars, callVars, TokensInv, StoreOK
  <2> QED BY <1>15, <2>1, CancelKeeps DEF Cancelled, LoginOK
<1>16. ASSUME NEW s \in Services, Exit(s) PROVE TokensInv' /\ LoginOK'
  <2>1. CASE login[s] = None \/ login[s] \in finished
    <3>1. active' \subseteq Services /\ UNCHANGED <<absorbed, loginVars, storeVars, callVars>>
      BY <1>16, <2>1 DEF Exit, TokensInv, StoreOK
    <3>2. TokensInv'
      BY <3>1 DEF storeVars, callVars, TokensInv, StoreOK, CallsOK, Sent
    <3> QED BY <3>1, <3>2 DEF loginVars, LoginOK
  <2>2. CASE ~(login[s] = None \/ login[s] \in finished)
    <3>1. login[s] \in Logins
      BY <2>2 DEF LoginOK
    <3>2. CancelLogin(login[s]) /\ UNCHANGED <<active, expected, submission, queue, succeeded, storeVars, callVars>>
          /\ exiting' = [exiting EXCEPT ![s] = login[s]]
      BY <1>16, <2>2 DEF Exit
    <3>3. TokensInv'
      BY <3>1, <3>2, CancelKeeps, CallsKept DEF storeVars, callVars, TokensInv, StoreOK
    <3> QED BY <3>1, <3>2, <3>3, CancelKeeps DEF LoginOK
  <2> QED BY <2>1, <2>2
<1>17. ASSUME NEW s \in Services, ExitReturns(s) PROVE TokensInv' /\ LoginOK'
  <2>1. active' \subseteq Services /\ UNCHANGED <<absorbed, loginVars, storeVars, callVars>>
    BY <1>17 DEF ExitReturns, TokensInv, StoreOK
  <2>2. TokensInv'
    BY <2>1 DEF storeVars, callVars, TokensInv, StoreOK, CallsOK, Sent
  <2> QED BY <2>1, <2>2 DEF loginVars, LoginOK
<1> QED
  BY <1>1, <1>2, <1>3, <1>4, <1>5, <1>6, <1>7, <1>8, <1>9, <1>10, <1>11, <1>12, <1>13, <1>14,
     <1>15, <1>16, <1>17 DEF LoginActions, LoginStep

TypeInv == TokensInv /\ LoginOK

LEMMA StepOfNext ==
  ASSUME Next PROVE (TokensNext /\ UNCHANGED loginVars) \/ LoginActions
BY DEF Next, LoginActions

LEMMA TypesKept ==
  ASSUME CodexAssumption, LoginAssumption, TypeInv, [Next]_vars PROVE TypeInv'
<1>1. CASE TokensNext /\ UNCHANGED loginVars
  BY <1>1, TokensKeepTypes DEF TypeInv, loginVars, LoginOK
<1>2. CASE LoginActions
  BY <1>2, LoginsKeepTypes DEF TypeInv
<1>3. CASE UNCHANGED vars
  BY <1>3, TokensKept DEF TypeInv, vars, loginVars, LoginOK
<1> QED BY <1>1, <1>2, <1>3, StepOfNext

LEMMA TypesAtFirst ==
  ASSUME CodexAssumption, Init PROVE TypeInv
<1>1. StoreOK
  <2>1. store \in Snapshot /\ issued \in Tokens /\ floor \in Tokens
    BY Values DEF Init, TokensInit
  <2>2. NoWrite \in Mutations /\ NoCatalog \in CatalogEntries
    BY DEF NoWrite, Mutations, NoCatalog, CatalogEntries, Revisions, NoTokens, Tokens, CodexAssumption
  <2> QED BY <2>1, <2>2 DEF Init, TokensInit, StoreOK
<1>2. CallsOK
  <2>1. Nothing \in Snapshot /\ Any \in Revisions
    BY Values DEF Nothing, CodexAssumption
  <2> QED BY <2>1 DEF Init, TokensInit, CallsOK, Sent
<1>3. LoginOK
  BY DEF Init, LoginOK, Stages
<1> QED BY <1>1, <1>2, <1>3 DEF TypeInv, TokensInv

\* CodexTokens, CodexLogin: every variable keeps its type.
THEOREM TypeCorrect == Spec => []TypeOK
<1>1. Init => TypeInv
  BY TypesAtFirst, CodexAssumption
<1>2. TypeInv /\ [Next]_vars => TypeInv'
  BY TypesKept, CodexAssumption, LoginAssumption
<1>3. TypeInv => TypeOK
  BY DEF TypeInv, TokensInv, StoreOK, CallsOK, LoginOK, TypeOK, TokensTypeOK, Stages
<1> QED
  BY <1>1, <1>2, <1>3, PTL DEF Spec

-----------------------------------------------------------------------------
\* Who holds the service: a login from its start to its release.
Open(l) == stage[l] \notin {"new", "starting", "ended"}

LockInv ==
  /\ \A l \in Logins : Open(l) <=> login[ServiceOf[l]] = l
  /\ \A s \in Services : login[s] # None => ServiceOf[login[s]] = s
  /\ \A l \in Logins : stage[l] = "starting" => login[ServiceOf[l]] = None
  /\ \A k, l \in Logins : stage[k] = "starting" /\ stage[l] = "starting"
                          /\ ServiceOf[k] = ServiceOf[l] => k = l

\* A step between two stages in which a login holds its service.
LEMMA StaysOpen ==
  ASSUME LockInv, NEW l \in Logins, Open(l), LoginOK,
         NEW to \in {"idle", "closing"} \cup Waiting, Become(l, to), UNCHANGED login
  PROVE  LockInv'
BY DEF LockInv, Open, Become, LoginOK, Waiting

LEMMA ReleasedIsFree ==
  ASSUME CodexAssumption, LoginAssumption, LockInv, NEW l \in Logins, Open(l), LoginOK, Become(l, "ended"), Release(l)
  PROVE  LockInv'
<1>1. ServiceOf[l] \in Services
  BY DEF CodexAssumption, Writers
<1> QED
  BY <1>1 DEF LockInv, Open, Become, Release, LoginOK, LoginAssumption

LEMMA FinishLocks ==
  ASSUME CodexAssumption, LoginAssumption, LockInv, NEW l \in Logins, Open(l), LoginOK, Finish(l)
  PROVE  LockInv'
BY StaysOpen, ReleasedIsFree DEF Finish

LEMMA LockSteps ==
  ASSUME CodexAssumption, LoginAssumption, LockInv, LoginOK, LoginActions
  PROVE  LockInv'
<1>1. ASSUME NEW l \in Logins, Start(l) PROVE LockInv'
  BY <1>1 DEF Start, Become, LockInv, Open, Starting, LoginOK, CodexAssumption, Writers
<1>2. ASSUME NEW l \in Logins, Started(l) PROVE LockInv'
  <2>1. ServiceOf[l] \in Services /\ l # None
    BY DEF CodexAssumption, Writers, LoginAssumption
  <2> QED BY <1>2, <2>1 DEF Started, Become, LockInv, Open, LoginOK
<1>3. ASSUME NEW l \in Logins, StartFails(l) PROVE LockInv'
  BY <1>3 DEF StartFails, Become, LockInv, Open, LoginOK
<1>4. ASSUME NEW l \in Logins, BeginWait(l) \/ Polled(l) PROVE LockInv'
  <2>1. Open(l) /\ UNCHANGED login /\ \E to \in {"idle", "closing"} \cup Waiting : Become(l, to)
    BY <1>4 DEF BeginWait, Polled, Open, Waiting
  <2> QED BY <2>1, StaysOpen
<1>5. ASSUME NEW l \in Logins, Closed(l) \/ CloseInterrupted(l) PROVE LockInv'
  BY <1>5, ReleasedIsFree DEF Closed, CloseInterrupted, Open
<1>6. ASSUME NEW b \in Callbacks, Connect(b) \/ Receive(b) PROVE LockInv'
  BY <1>6 DEF Connect, Receive, LockInv, Open
<1>7. ASSUME NEW l \in Logins, Take(l) \/ Fails(l) \/ Exchanged(l) \/ Saved(l) PROVE LockInv'
  <2>1. Open(l)
    BY <1>7 DEF Take, Fails, Exchanged, Saved, Open
  <2>2. Finish(l) \/ (UNCHANGED login /\ \E to \in {"exchanging", "saving"} : Become(l, to))
    BY <1>7 DEF Take, Fails, Exchanged, Saved
  <2> QED BY <2>1, <2>2, FinishLocks, StaysOpen DEF Waiting
<1>8. ASSUME NEW l \in Logins, Interruptible(l), NEW why, Interrupt(l, why) PROVE LockInv'
  <2>1. Open(l)
    BY <1>8 DEF Interruptible, Waiting, Open
  <2>2. Finish(l) \/ UNCHANGED <<login, stage>>
    BY <1>8 DEF Interrupt
  <2> QED BY <2>1, <2>2, FinishLocks DEF LockInv, Open
<1>9. ASSUME NEW l \in Logins, CancelLogin(l), stage[l] = "idle" \/ Interruptible(l) PROVE LockInv'
  <2>1. CASE stage[l] = "idle"
    BY <1>9, <2>1, FinishLocks DEF CancelLogin, Open
  <2>2. CASE stage[l] # "idle"
    BY <1>9, <2>2, <1>8 DEF CancelLogin
  <2> QED BY <2>1, <2>2
<1>10. ASSUME NEW s \in Services, Exit(s) PROVE LockInv'
  <2>1. CASE login[s] = None \/ login[s] \in finished
    BY <1>10, <2>1 DEF Exit, loginVars, LockInv, Open
  <2>2. CASE ~(login[s] = None \/ login[s] \in finished)
    BY <1>10, <2>2, <1>9 DEF Exit, LoginOK
  <2> QED BY <2>1, <2>2
<1>11. ASSUME NEW s \in Services, ExitReturns(s) PROVE LockInv'
  BY <1>11 DEF ExitReturns, loginVars, LockInv, Open
<1> QED
  BY <1>1, <1>2, <1>3, <1>4, <1>5, <1>6, <1>7, <1>8, <1>9, <1>10, <1>11
     DEF LoginActions, LoginStep, Timeout, InterruptWait, Cancelled

\* start_browser_login, start_device_login: a service has one login at a time
\* and knows it, whatever is cancelled, times out or fails.
THEOREM ServicesHaveOneLogin == Spec => []OneLogin
<1>1. Init => TypeInv /\ LockInv
  <2>1. ASSUME Init PROVE LockInv
    BY <2>1, LoginAssumption, CodexAssumption
       DEF Init, LockInv, Open, LoginAssumption, CodexAssumption, Writers
  <2> QED BY <2>1, TypesAtFirst, CodexAssumption
<1>2. TypeInv /\ LockInv /\ [Next]_vars => (TypeInv /\ LockInv)'
  <2>1. ASSUME LockInv, UNCHANGED loginVars PROVE LockInv'
    BY <2>1 DEF loginVars, LockInv, Open
  <2> QED
    BY <2>1, StepOfNext, TypesKept, LockSteps, CodexAssumption, LoginAssumption DEF TypeInv, vars
<1>3. LockInv => OneLogin
  BY LoginAssumption DEF LockInv, OneLogin, Open, Starting, LoginAssumption
<1> QED
  BY <1>1, <1>2, <1>3, PTL DEF Spec

-----------------------------------------------------------------------------
\* What a login has given to a thread, and what follows from its end.
CallbacksOf(l) == {b \in Callbacks : LoginOf[b] = l}

CommitInv ==
  /\ \A l \in Logins : stage[l] \in {"new", "starting", "idle", "listening", "polling", "exchanging"}
                         => write[l].state = "none"
  /\ MaxInterruptions <= 2 =>
       \A l \in Logins : stage[l] \in {"closing", "ended"} => write[l].state # "running"
  /\ \A b \in Callbacks : page[b] = "200" => write[LoginOf[b]].state = "won"
  /\ \A l \in succeeded : write[l].state = "won"

CallbackInv ==
  /\ \A l \in Logins : submission[l] \in CallbacksOf(l) \cup {None}
  /\ \A l \in Logins : queue[l] \in Seq(CallbacksOf(l) \cup {Error})

\* The calls leave the mutations of logins alone, a thread ends them.
LEMMA CallsLeaveCommits ==
  ASSUME CodexAssumption, TypeInv, TokensNext, NEW l \in Logins
  PROVE  \/ write'[l] = write[l]
         \/ write[l].state = "running" /\ write'[l].state \in {"won", "lost", "failed"}
<1>0. l \notin Calls /\ l \in Writers
  BY DEF CodexAssumption, Writers
<1>1. ASSUME NEW c \in Calls, Begin(c) \/ CallStep(c) \/ Cancel(c) PROVE write'[l] = write[l]
  <2>1. \/ UNCHANGED write
        \/ \E r, t : Submit(c, r, t)
        \/ write' = [write EXCEPT ![c] = NoWrite]
    BY <1>1 DEF Begin, CallStep, Request, List, Build, Logout, ReadKey, ReadTokens, Refreshed,
                RefreshFails, Swapped, Respond, Cancel, storeVars
  <2> QED BY <1>0, <2>1 DEF Submit, TypeInv, TokensInv, StoreOK
<1>2. ASSUME NEW w \in Writers, Replace(w) PROVE
         \/ write'[l] = write[l]
         \/ write[l].state = "running" /\ write'[l].state \in {"won", "lost", "failed"}
  <2>1. write[w].state = "running"
    BY <1>2 DEF Replace
  <2>2. PICK to \in {"won", "lost", "failed"} : write' = [write EXCEPT ![w].state = to]
    BY <1>2 DEF Replace
  <2>3. CASE w = l
    <3>1. write'[l] = [write[l] EXCEPT !.state = to]
      BY <1>0, <2>2, <2>3 DEF TypeInv, TokensInv, StoreOK
    <3>2. write[l] \in Mutations
      BY <1>0 DEF TypeInv, TokensInv, StoreOK
    <3> QED BY <2>1, <2>3, <3>1, <3>2 DEF Mutations
  <2>4. CASE w # l
    BY <1>0, <2>2, <2>4 DEF TypeInv, TokensInv, StoreOK
  <2> QED BY <2>3, <2>4
<1>3. ASSUME Expire PROVE write'[l] = write[l]
  BY <1>3 DEF Expire
<1> QED BY <1>1, <1>2, <1>3 DEF TokensNext

\* An answer other than success, or success of a commit that won.
LEMMA AnswerIsTrue ==
  ASSUME LoginAssumption, LoginOK, CallbackInv, CommitInv, NEW l \in Logins, NEW status \in {"200", "500"},
         Answer(l, status), status = "200" => write[l].state = "won"
  PROVE  \A b \in Callbacks : page'[b] = "200" => write[LoginOf[b]].state = "won"
BY DEF Answer, CallbackInv, CallbacksOf, CommitInv, LoginAssumption

LEMMA FinishCommits ==
  ASSUME LoginOK, CommitInv, NEW l \in Logins, Finish(l), UNCHANGED write,
         MaxInterruptions <= 2 => write[l].state # "running",
         \A b \in Callbacks : page'[b] = "200" => write[LoginOf[b]].state = "won",
         \A k \in succeeded' : write[k].state = "won"
  PROVE  CommitInv'
<1>1. PICK to \in {"closing", "ended"} : Become(l, to)
  BY DEF Finish
<1> QED BY <1>1 DEF Become, CommitInv, LoginOK

LEMMA InterruptCommits ==
  ASSUME LoginAssumption, TypeInv, CallbackInv, CommitInv, NEW l \in Logins,
         NEW why, Interruptible(l) \/ stage[l] = "idle", Interrupt(l, why), UNCHANGED <<write, succeeded>>
  PROVE  CommitInv'
<1>1. CASE stage[l] = "saving" /\ absorbed[l] < 2
  BY <1>1 DEF Interrupt, CommitInv
<1>2. CASE ~(stage[l] = "saving" /\ absorbed[l] < 2)
  <2>1. Finish(l) /\ (Answer(l, "500") \/ UNCHANGED page)
    BY <1>2 DEF Interrupt
  <2>2. MaxInterruptions <= 2 => stage[l] # "saving"
    BY <1>2 DEF Interruptible, LoginAssumption, TypeInv, TokensInv, CallsOK, Writers
  <2>3. MaxInterruptions <= 2 => write[l].state # "running"
    BY <2>2 DEF Interruptible, Waiting, CommitInv
  <2>4. \A b \in Callbacks : page'[b] = "200" => write[LoginOf[b]].state = "won"
    BY <2>1, AnswerIsTrue DEF CommitInv, TypeInv
  <2> QED BY <2>1, <2>3, <2>4, FinishCommits DEF CommitInv, TypeInv
<1> QED BY <1>1, <1>2

LEMMA CancelCommits ==
  ASSUME LoginAssumption, TypeInv, CallbackInv, CommitInv, NEW l \in Logins,
         Interruptible(l) \/ stage[l] = "idle", CancelLogin(l), UNCHANGED <<write, succeeded>>
  PROVE  CommitInv'
<1>1. CASE stage[l] = "idle"
  <2>1. Finish(l) /\ UNCHANGED page
    BY <1>1 DEF CancelLogin
  <2> QED BY <1>1, <2>1, FinishCommits DEF CommitInv, TypeInv
<1>2. CASE stage[l] # "idle"
  BY <1>2, InterruptCommits DEF CancelLogin
<1> QED BY <1>1, <1>2

\* Steps of logins that neither answer success nor commit.
LEMMA QuietCommits ==
  ASSUME LoginOK, CommitInv, NEW l \in Logins, UNCHANGED <<write, page>>, succeeded' \subseteq succeeded,
         NEW to \in {"starting", "idle", "listening", "polling", "exchanging", "ended"}, Become(l, to),
         stage[l] \notin {"saving"}, stage[l] = "closing" => to = "ended", stage[l] # "ended"
  PROVE  CommitInv'
BY DEF CommitInv, Become, LoginOK, Stages, Waiting

LEMMA CommitSteps ==
  ASSUME CodexAssumption, LoginAssumption, TypeInv, CallbackInv, CommitInv, LoginActions
  PROVE  CommitInv'
<1> USE DEF TypeInv
<1>1. ASSUME NEW l \in Logins,
             Start(l) \/ Started(l) \/ StartFails(l) \/ BeginWait(l) \/ Polled(l) \/ Closed(l) \/ CloseInterrupted(l)
      PROVE CommitInv'
  <2>1. /\ UNCHANGED <<write, page>> /\ succeeded' \subseteq succeeded
        /\ stage[l] \notin {"saving", "ended"}
    BY <1>1 DEF Start, Started, StartFails, BeginWait, Polled, Closed, CloseInterrupted, tokenVars
  <2>2. \E to \in {"starting", "idle", "listening", "polling", "exchanging", "ended"} :
          Become(l, to) /\ (stage[l] = "closing" => to = "ended")
    BY <1>1 DEF Start, Started, StartFails, BeginWait, Polled, Closed, CloseInterrupted
  <2> QED BY <2>1, <2>2, QuietCommits
<1>2. ASSUME NEW b \in Callbacks, Connect(b) \/ Receive(b) PROVE CommitInv'
  BY <1>2 DEF Connect, Receive, CommitInv, LoginOK, tokenVars
<1>3. ASSUME NEW l \in Logins, Take(l) \/ Fails(l) PROVE CommitInv'
  <2>1. write[l].state = "none" /\ UNCHANGED <<write, succeeded>>
    BY <1>3 DEF Take, Fails, CommitInv, tokenVars
  <2>2. CASE Finish(l) /\ (Answer(l, "500") \/ UNCHANGED page)
    BY <2>1, <2>2, AnswerIsTrue, FinishCommits DEF CommitInv
  <2>3. CASE Become(l, "exchanging") /\ UNCHANGED page /\ stage[l] = "listening"
    BY <2>1, <2>3, QuietCommits
  <2> QED BY <1>3, <2>2, <2>3 DEF Take, Fails
<1>4. ASSUME NEW l \in Logins, Exchanged(l) PROVE CommitInv'
  <2>1. stage[l] = "exchanging" /\ write[l].state = "none" /\ UNCHANGED succeeded
    BY <1>4 DEF Exchanged, CommitInv
  <2>2. CASE Submit(l, expected[l], issued') /\ Become(l, "saving") /\ UNCHANGED page
    <3>1. \A k \in Logins : k # l => write'[k] = write[k]
      BY <2>2 DEF Submit, TokensInv, StoreOK, Writers
    <3>2. \A k \in Logins : k # l => stage'[k] = stage[k]
      BY <2>2 DEF Become, LoginOK
    <3>3. stage'[l] = "saving"
      BY <2>2 DEF Become, LoginOK
    <3>4. \A k \in Logins : write[k].state = "won" => k # l
      BY <2>1
    <3>5. /\ \A b \in Callbacks : page'[b] = "200" => write'[LoginOf[b]].state = "won"
          /\ \A k \in succeeded' : write'[k].state = "won"
      BY <2>1, <2>2, <3>1, <3>4 DEF CommitInv, LoginOK, LoginAssumption
    <3>6. \A k \in Logins : stage'[k] \in {"new", "starting", "idle", "listening", "polling", "exchanging"}
                              => write'[k].state = "none"
      BY <3>1, <3>2, <3>3 DEF CommitInv
    <3>7. MaxInterruptions <= 2 =>
            \A k \in Logins : stage'[k] \in {"closing", "ended"} => write'[k].state # "running"
      BY <3>1, <3>2, <3>3 DEF CommitInv
    <3> QED BY <3>5, <3>6, <3>7 DEF CommitInv
  <2>3. CASE Answer(l, "500") /\ Finish(l) /\ UNCHANGED write
    BY <2>1, <2>3, AnswerIsTrue, FinishCommits DEF CommitInv
  <2> QED BY <1>4, <2>2, <2>3 DEF Exchanged
<1>5. ASSUME NEW l \in Logins, Saved(l) PROVE CommitInv'
  <2>1. Finish(l) /\ UNCHANGED write /\ write[l].state # "running"
    BY <1>5 DEF Saved, Written, tokenVars
  <2>2. (\E status \in {"200", "500"} : Answer(l, status) /\ (status = "200" => write[l].state = "won")) \/ UNCHANGED page
    BY <1>5 DEF Saved
  <2>3. \A b \in Callbacks : page'[b] = "200" => write[LoginOf[b]].state = "won"
    BY <2>2, AnswerIsTrue DEF CommitInv
  <2>4. \A k \in succeeded' : write[k].state = "won"
    BY <1>5 DEF Saved, CommitInv
  <2> QED BY <2>1, <2>3, <2>4, FinishCommits
<1>6. ASSUME NEW l \in Logins, Timeout(l) \/ InterruptWait(l) PROVE CommitInv'
  <2>1. UNCHANGED <<write, succeeded>>
    BY <1>6 DEF Timeout, InterruptWait, storeVars
  <2> QED BY <1>6, <2>1, InterruptCommits DEF Timeout, InterruptWait
<1>7. ASSUME NEW l \in Logins, Cancelled(l) PROVE CommitInv'
  BY <1>7, CancelCommits DEF Cancelled, storeVars
<1>8. ASSUME NEW s \in Services, Exit(s) PROVE CommitInv'
  <2>1. CASE login[s] = None \/ login[s] \in finished
    BY <1>8, <2>1 DEF Exit, loginVars, storeVars, CommitInv
  <2>2. CASE ~(login[s] = None \/ login[s] \in finished)
    <3>1. login[s] \in Logins /\ UNCHANGED <<write, succeeded>> /\ CancelLogin(login[s])
          /\ (stage[login[s]] = "idle" \/ Interruptible(login[s]))
      BY <1>8, <2>2 DEF Exit, LoginOK, storeVars
    <3> QED BY <3>1, CancelCommits
  <2> QED BY <2>1, <2>2
<1>9. ASSUME NEW s \in Services, ExitReturns(s) PROVE CommitInv'
  BY <1>9 DEF ExitReturns, loginVars, storeVars, CommitInv
<1> QED
  BY <1>1, <1>2, <1>3, <1>4, <1>5, <1>6, <1>7, <1>8, <1>9 DEF LoginActions, LoginStep

LEMMA CallbackSteps ==
  ASSUME LoginAssumption, LoginOK, CallbackInv, LoginActions
  PROVE  CallbackInv'
<1>1. ASSUME NEW l \in Logins, Closed(l) PROVE CallbackInv'
  <2>1. Append(queue[l], Error) \in Seq(CallbacksOf(l) \cup {Error})
    BY DEF CallbackInv
  <2> QED BY <1>1, <2>1 DEF Closed, CallbackInv, CallbacksOf, LoginOK
<1>2. ASSUME NEW b \in Callbacks, Receive(b) PROVE CallbackInv'
  <2> DEFINE l == LoginOf[b]
  <2>1. b \in CallbacksOf(l) /\ l \in Logins
    BY DEF CallbacksOf, LoginAssumption
  <2>2. \A m \in CallbacksOf(l) \cup {Error} : Append(queue[l], m) \in Seq(CallbacksOf(l) \cup {Error})
    BY <2>1 DEF CallbackInv
  <2>3. UNCHANGED submission /\ (queue' = queue \/ \E m \in CallbacksOf(l) \cup {Error} :
                                                    queue' = [queue EXCEPT ![l] = Append(@, m)])
    BY <1>2, <2>1 DEF Receive
  <2> HIDE DEF l
  <2>4. PICK q \in Seq(CallbacksOf(l) \cup {Error}) : queue' = [queue EXCEPT ![l] = q]
    <3>1. queue = [queue EXCEPT ![l] = queue[l]] /\ queue[l] \in Seq(CallbacksOf(l) \cup {Error})
      BY <2>1 DEF LoginOK, CallbackInv
    <3> QED BY <2>2, <2>3, <3>1
  <2> QED BY <2>1, <2>3, <2>4 DEF CallbackInv, CallbacksOf, LoginOK
<1>3. ASSUME NEW l \in Logins, Take(l) PROVE CallbackInv'
  <2>1. /\ Head(queue[l]) \in CallbacksOf(l) \cup {Error}
        /\ Tail(queue[l]) \in Seq(CallbacksOf(l) \cup {Error})
    <3>1. queue[l] \in Seq(CallbacksOf(l) \cup {Error}) /\ queue[l] # <<>>
      BY <1>3 DEF Take, CallbackInv
    <3> QED BY <3>1
  <2>2. queue' = [queue EXCEPT ![l] = Tail(@)]
    BY <1>3 DEF Take
  <2>3. submission' = submission \/ (Head(queue[l]) # Error /\ submission' = [submission EXCEPT ![l] = Head(queue[l])])
    BY <1>3 DEF Take
  <2> QED BY <2>1, <2>2, <2>3 DEF CallbackInv, CallbacksOf, LoginOK
<1>4. CASE UNCHANGED <<submission, queue>>
  BY <1>4 DEF CallbackInv, CallbacksOf
<1>5. \/ \E l \in Logins : Closed(l) \/ Take(l)
      \/ \E b \in Callbacks : Receive(b)
      \/ UNCHANGED <<submission, queue>>
  BY DEF LoginActions, LoginStep, Start, Started, StartFails, BeginWait, Polled, Fails, Exchanged, Saved,
         Timeout, InterruptWait, Cancelled, CloseInterrupted, Connect, Exit, ExitReturns, loginVars
<1> QED BY <1>1, <1>2, <1>3, <1>4, <1>5

SafeInv == TypeInv /\ CallbackInv /\ CommitInv

LEMMA SafeKept ==
  ASSUME CodexAssumption, LoginAssumption, SafeInv, [Next]_vars PROVE SafeInv'
<1>1. TypeInv'
  BY TypesKept DEF SafeInv
<1>2. CASE LoginActions
  BY <1>1, <1>2, CallbackSteps, CommitSteps DEF SafeInv, TypeInv
<1>3. CASE UNCHANGED loginVars /\ (TokensNext \/ UNCHANGED write)
  <2>1. CallbackInv'
    BY <1>3 DEF SafeInv, CallbackInv, CallbacksOf, loginVars
  <2>2. \A l \in Logins : \/ write'[l] = write[l]
                          \/ write[l].state = "running" /\ write'[l].state \in {"won", "lost", "failed"}
    BY <1>3, CallsLeaveCommits DEF SafeInv
  <2>3. CommitInv'
    <3>1. UNCHANGED <<stage, page, succeeded>> /\ succeeded \subseteq Logins
          /\ \A b \in Callbacks : LoginOf[b] \in Logins
      BY <1>3 DEF loginVars, SafeInv, TypeInv, LoginOK, LoginAssumption
    <3>2. \A l \in Logins : /\ write[l].state = "none" => write'[l].state = "none"
                            /\ write[l].state # "running" => write'[l].state # "running"
                            /\ write[l].state = "won" => write'[l].state = "won"
      BY <2>2
    <3> QED BY <3>1, <3>2 DEF SafeInv, CommitInv
  <2> QED BY <1>1, <2>1, <2>3 DEF SafeInv
<1> QED BY <1>2, <1>3, StepOfNext DEF vars, tokenVars

LEMMA SafeAtFirst ==
  ASSUME CodexAssumption, Init PROVE SafeInv
<1>1. CallbackInv
  BY DEF Init, CallbackInv, CallbacksOf
<1>2. CommitInv
  BY DEF Init, TokensInit, CommitInv, NoWrite, Writers
<1> QED BY <1>1, <1>2, TypesAtFirst DEF SafeInv

\* CodexBrowserLogin.wait: success is only shown, in the browser and to a
\* session, for tokens that are stored.
THEOREM SuccessIsTrue == Spec => []SuccessMeansSaved
<1>1. Init => SafeInv
  BY SafeAtFirst, CodexAssumption
<1>2. SafeInv /\ [Next]_vars => SafeInv'
  BY SafeKept, CodexAssumption, LoginAssumption
<1>3. SafeInv => SuccessMeansSaved
  BY DEF SafeInv, CommitInv, SuccessMeansSaved, SessionPoll
<1> QED
  BY <1>1, <1>2, <1>3, PTL DEF Spec

\* _request_tokens, _save: up to two interruptions of a commit do not cut it
\* from the login that waits for it.
THEOREM CommitsAreAwaited ==
  ASSUME MaxInterruptions <= 2 PROVE Spec => []NoCommitAfterEnd
<1>1. Init => SafeInv
  BY SafeAtFirst, CodexAssumption
<1>2. SafeInv /\ [Next]_vars => SafeInv'
  BY SafeKept, CodexAssumption, LoginAssumption
<1>3. SafeInv => NoCommitAfterEnd
  BY DEF SafeInv, CommitInv, NoCommitAfterEnd
<1> QED
  BY <1>1, <1>2, <1>3, PTL DEF Spec

-----------------------------------------------------------------------------
\* What has been read of the store, and what is about to be written, is as
\* old as the revision it carries.
FreshInv ==
  /\ floor <= issued
  /\ \A c \in Calls : pc[c] = "refreshing" =>
       /\ seen[c].revision <= store.revision
       /\ seen[c].revision = store.revision => seen[c].tokens = store.tokens
  /\ \A l \in Logins : expected[l] <= store.revision
  /\ \A w \in Writers : write[w].state = "running" =>
       IF write[w].expected = Any
         THEN write[w].tokens = NoTokens
         ELSE /\ write[w].expected <= store.revision
              /\ write[w].expected = store.revision =>
                   write[w].tokens \in {store.tokens} \cup (floor + 1 .. issued)

\* Nothing is written and nothing read.
LEMMA FreshStays ==
  ASSUME FreshInv, TypeInv, UNCHANGED <<store, floor, expected>>, issued' = issued,
         \A c \in Calls : pc'[c] = "refreshing" => pc[c] = "refreshing" /\ seen'[c] = seen[c],
         \A w \in Writers : write'[w] = write[w] \/ write'[w].state # "running"
  PROVE  FreshInv'
BY DEF FreshInv

\* A caller hands fresh tokens, or those it has read, to a thread.
LEMMA FreshSubmitted ==
  ASSUME CodexAssumption, FreshInv, TypeInv, UNCHANGED <<store, floor, expected>>, issued' \in {issued, issued + 1},
         \A c \in Calls : pc'[c] = "refreshing" => pc[c] = "refreshing" /\ seen'[c] = seen[c],
         NEW w \in Writers, NEW r, NEW t, Submit(w, r, t),
         IF r = Any THEN t = NoTokens
         ELSE /\ r <= store.revision
              /\ r = store.revision => t \in {store.tokens, issued + 1} /\ (t = issued + 1 => issued' = issued + 1 \/ t = store.tokens)
  PROVE  FreshInv'
<1>1. floor \in Nat /\ issued \in Nat /\ store.revision \in Nat
  BY Values DEF TypeInv, TokensInv, StoreOK, Tokens
<1>2. write'[w] = [state |-> "running", expected |-> r, tokens |-> t]
  BY DEF Submit, TypeInv, TokensInv, StoreOK
<1>3. \A v \in Writers : v # w => write'[v] = write[v]
  BY DEF Submit, TypeInv, TokensInv, StoreOK
<1> QED
  BY <1>1, <1>2, <1>3 DEF FreshInv

LEMMA FreshCalls ==
  ASSUME CodexAssumption, TypeInv, FreshInv, TokensNext, UNCHANGED loginVars
  PROVE  FreshInv'
<1>0. UNCHANGED expected /\ floor \in Nat /\ issued \in Nat /\ store.revision \in Nat
  BY Values DEF loginVars, TypeInv, TokensInv, StoreOK, Tokens
<1>1. ASSUME NEW c \in Calls, Request(c) \/ List(c) \/ Build(c) \/ ReadKey(c) \/ RefreshFails(c) \/ Respond(c) \/ Cancel(c)
      PROVE FreshInv'
  <2>1. UNCHANGED <<store, floor, issued, write>>
    BY <1>1 DEF Request, List, Build, ReadKey, RefreshFails, Respond, Cancel, storeVars
  <2>2. UNCHANGED seen \/ End(c)
    BY <1>1 DEF Request, List, Build, ReadKey, RefreshFails, Respond, Cancel, Proceed, Go
  <2>3. UNCHANGED pc \/ \E to \in {"keying", "asking", "ended"} : pc' = [pc EXCEPT ![c] = to]
    BY <1>1 DEF Request, List, Build, ReadKey, RefreshFails, Respond, Cancel, Proceed, Go, End
  <2>4. \A d \in Calls : pc'[d] = "refreshing" => pc[d] = "refreshing" /\ seen'[d] = seen[d]
    BY <2>2, <2>3 DEF End, TypeInv, TokensInv, CallsOK
  <2> QED BY <1>0, <2>1, <2>4, FreshStays
<1>2. ASSUME NEW c \in Calls, Logout(c) PROVE FreshInv'
  <2>1. \A d \in Calls : pc'[d] = "refreshing" => pc[d] = "refreshing" /\ seen'[d] = seen[d]
    BY <1>2 DEF Logout, Proceed, Go, End, TypeInv, TokensInv, CallsOK
  <2>2. UNCHANGED <<store, floor, issued>> /\ (UNCHANGED write \/ Submit(c, Any, NoTokens))
    BY <1>2 DEF Logout
  <2>3. CASE UNCHANGED write
    BY <1>0, <2>1, <2>2, <2>3, FreshStays
  <2>4. CASE Submit(c, Any, NoTokens)
    BY <1>0, <2>1, <2>2, <2>4, FreshSubmitted DEF Writers
  <2> QED BY <2>2, <2>3, <2>4
<1>3. ASSUME NEW c \in Calls, ReadTokens(c) PROVE FreshInv'
  <2>1. UNCHANGED <<store, floor, issued, write>>
    BY <1>3 DEF ReadTokens, storeVars
  <2>2. CASE pc' = [pc EXCEPT ![c] = "refreshing"] /\ seen' = [seen EXCEPT ![c] = store]
    BY <1>0, <2>1, <2>2 DEF FreshInv, TypeInv, TokensInv, CallsOK
  <2>3. CASE Send(c, store) \/ End(c)
    <3>1. \A d \in Calls : pc'[d] = "refreshing" => pc[d] = "refreshing" /\ seen'[d] = seen[d]
      BY <2>3 DEF Send, End, TypeInv, TokensInv, CallsOK
    <3> QED BY <1>0, <2>1, <3>1, FreshStays
  <2> QED BY <1>3, <2>2, <2>3 DEF ReadTokens
<1>4. ASSUME NEW c \in Calls, Refreshed(c) PROVE FreshInv'
  <2>1. \A d \in Calls : pc'[d] = "refreshing" => pc[d] = "refreshing" /\ seen'[d] = seen[d]
    BY <1>4 DEF Refreshed, Go, TypeInv, TokensInv, CallsOK
  <2>2. PICK t \in {issued + 1, seen[c].tokens} : Submit(c, seen[c].revision, t)
    BY <1>4 DEF Refreshed, Issue
  <2>3. UNCHANGED <<store, floor>> /\ issued' = issued + 1 /\ pc[c] = "refreshing"
    BY <1>4 DEF Refreshed, Issue
  <2>4. seen[c].revision \in Nat /\ Any \notin Nat
    BY Values DEF TypeInv, TokensInv, CallsOK, Any
  <2>5. seen[c].revision <= store.revision /\ (seen[c].revision = store.revision => seen[c].tokens = store.tokens)
    BY <2>3 DEF FreshInv
  <2> QED BY <1>0, <2>1, <2>2, <2>3, <2>4, <2>5, FreshSubmitted DEF Writers
<1>5. ASSUME NEW c \in Calls, Swapped(c) PROVE FreshInv'
  <2>1. UNCHANGED <<store, floor, issued>> /\ write' = [write EXCEPT ![c] = NoWrite]
    BY <1>5 DEF Swapped
  <2>2. \A w \in Writers : write'[w] = write[w] \/ write'[w].state # "running"
    BY <2>1 DEF NoWrite, TypeInv, TokensInv, StoreOK
  <2>3. (\E s : Send(c, s)) \/ End(c)
    BY <1>5 DEF Swapped
  <2>4. \A d \in Calls : pc'[d] = "refreshing" => pc[d] = "refreshing" /\ seen'[d] = seen[d]
    BY <2>3 DEF Send, End, TypeInv, TokensInv, CallsOK
  <2> QED BY <1>0, <2>1, <2>2, <2>4, FreshStays
<1>6. ASSUME NEW w \in Writers, Replace(w) PROVE FreshInv'
  <2>1. UNCHANGED <<issued, pc, seen, expected>>
    BY <1>0, <1>6 DEF Replace, callVars
  <2>2. PICK to \in {"won", "lost", "failed"} : write' = [write EXCEPT ![w].state = to]
    BY <1>6 DEF Replace
  <2>3. \A v \in Writers : write'[v] = write[v] \/ write'[v].state # "running"
    <3>1. write'[w] = [write[w] EXCEPT !.state = to] /\ write[w] \in Mutations
      BY <2>2 DEF TypeInv, TokensInv, StoreOK
    <3>2. write'[w].state # "running"
      BY <3>1 DEF Mutations
    <3> QED BY <2>2, <3>2 DEF TypeInv, TokensInv, StoreOK
  <2>4. CASE UNCHANGED <<store, floor>>
    BY <2>1, <2>3, <2>4, FreshStays
  <2>5. CASE store'.revision = store.revision + 1 /\ floor' = issued
    <3>1. \A v \in Writers : write'[v].state = "running" =>
            IF write'[v].expected = Any THEN write'[v].tokens = NoTokens
            ELSE write'[v].expected <= store.revision
      BY <2>3 DEF FreshInv
    <3>2. \A v \in Writers : write[v].expected \in Revisions
      BY DEF TypeInv, TokensInv, StoreOK, Mutations
    <3>3. \A v \in Writers : write'[v].state = "running" /\ write'[v].expected # Any =>
            write'[v].expected < store.revision + 1
      BY <1>0, <2>3, <3>1, <3>2 DEF Revisions, Any
    <3>4. \A c \in Calls : pc[c] = "refreshing" => seen[c].revision < store.revision + 1
      BY <1>0, Values DEF FreshInv, TypeInv, TokensInv, CallsOK
    <3>5. \A l \in Logins : expected[l] < store.revision + 1
      BY <1>0 DEF FreshInv, TypeInv, LoginOK
    <3>6. \A v \in Writers : write'[v].state = "running" => write'[v].expected \in Revisions
      BY <2>3, <3>2
    <3> QED BY <1>0, <2>1, <2>5, <3>1, <3>3, <3>4, <3>5, <3>6, Values
            DEF FreshInv, Revisions, Any, TypeInv, TokensInv, CallsOK, LoginOK
  <2> QED BY <1>6, <2>4, <2>5 DEF Replace
<1>7. ASSUME Expire PROVE FreshInv'
  BY <1>0, <1>7, FreshStays DEF Expire, callVars
<1> QED BY <1>1, <1>2, <1>3, <1>4, <1>5, <1>6, <1>7 DEF TokensNext, Begin, CallStep

LEMMA FreshLogins ==
  ASSUME CodexAssumption, TypeInv, FreshInv, LoginActions
  PROVE  FreshInv'
<1>0. store.revision \in Nat
  BY Values DEF TypeInv, TokensInv, StoreOK
<1>1. ASSUME NEW l \in Logins, Start(l) PROVE FreshInv'
  BY <1>0, <1>1 DEF Start, tokenVars, FreshInv, TypeInv, LoginOK
<1>2. ASSUME NEW l \in Logins, Exchanged(l) PROVE FreshInv'
  <2>1. UNCHANGED <<store, floor, expected, pc, seen>> /\ issued' = issued + 1
        /\ (UNCHANGED write \/ Submit(l, expected[l], issued + 1))
    BY <1>2 DEF Exchanged, Issue, callVars
  <2>2. CASE Submit(l, expected[l], issued + 1)
    <3>1. expected[l] \in Nat /\ Any \notin Nat /\ expected[l] <= store.revision
      BY DEF TypeInv, LoginOK, FreshInv, Any
    <3> QED BY <2>1, <2>2, <3>1, FreshSubmitted DEF Writers
  <2>3. CASE UNCHANGED write
    BY <2>1, <2>3, Values DEF FreshInv, TypeInv, TokensInv, StoreOK, Tokens
  <2> QED BY <2>1, <2>2, <2>3
<1>3. CASE UNCHANGED <<store, floor, issued, write, pc, seen, expected>>
  BY <1>3, FreshStays
<1>4. \/ \E l \in Logins : Start(l) \/ Exchanged(l)
      \/ UNCHANGED <<store, floor, issued, write, pc, seen, expected>>
  BY DEF LoginActions, LoginStep, Started, StartFails, BeginWait, Polled, Fails, Saved, Closed, Take,
         Timeout, InterruptWait, Cancelled, CloseInterrupted, Connect, Receive, Exit, ExitReturns,
         loginVars, tokenVars, storeVars, callVars
<1> QED BY <1>1, <1>2, <1>3, <1>4

LEMMA CommitIsFresh ==
  ASSUME CodexAssumption, TypeInv, FreshInv, NEW w \in Writers, Replace(w), store' # store
  PROVE  \/ store'.tokens = NoTokens
         \/ store'.tokens \in {store.tokens} \cup (floor + 1 .. issued)
<1>1. write[w].state = "running" /\ write[w].expected \in {Any, store.revision}
      /\ store'.tokens = write[w].tokens
  BY DEF Replace
<1>2. store.revision # Any
  BY Values DEF TypeInv, TokensInv, StoreOK, Any
<1> QED BY <1>1, <1>2 DEF FreshInv

\* compare_and_swap: no change of the store is overwritten by an older answer
\* of the provider, whoever shares the store and whatever fails.
THEOREM CommitsStayFresh == Spec => CommitsAreFresh
<1>1. Init => TypeInv /\ FreshInv
  <2>1. ASSUME Init PROVE FreshInv
    BY <2>1 DEF Init, TokensInit, FreshInv, NoWrite, Writers, Tokens, Any
  <2> QED BY <2>1, TypesAtFirst, CodexAssumption
<1>2. TypeInv /\ FreshInv /\ [Next]_vars => (TypeInv /\ FreshInv)'
  <2>1. ASSUME TypeInv, FreshInv, UNCHANGED vars PROVE FreshInv'
    BY <2>1 DEF vars, tokenVars, loginVars, FreshInv
  <2> QED BY <2>1, StepOfNext, TypesKept, FreshCalls, FreshLogins, CodexAssumption, LoginAssumption
<1>3. TypeInv /\ FreshInv /\ [Next]_vars =>
        [store' # store => \/ store'.tokens = NoTokens
                           \/ store'.tokens \in {store.tokens} \cup (floor + 1 .. issued)]_store
  <2>1. Next => UNCHANGED store \/ \E w \in Writers : Replace(w)
    BY DEF Next, TokensNext, Begin, Request, List, Build, Logout, CallStep, ReadKey, ReadTokens, Refreshed,
           RefreshFails, Swapped, Respond, Cancel, Expire, LoginStep, Start, Started, StartFails,
           BeginWait, Polled, Fails, Exchanged, Saved, Closed, Take, Timeout, InterruptWait, Cancelled,
           CloseInterrupted, Connect, Receive, Exit, ExitReturns, tokenVars, storeVars
  <2> QED BY <2>1, CommitIsFresh, CodexAssumption DEF vars, tokenVars
<1> QED
  BY <1>1, <1>2, <1>3, PTL DEF Spec, CommitsAreFresh
-----------------------------------------------------------------------------
\* A call reads the store again and again: what it reads later is not older
\* than what it has sent, nor than the revision its catalog is to be kept for.
NotBefore(c, r) == key[c] <= r /\ \A i \in 1 .. Len(sent[c]) : sent[c][i].revision <= r

Ordered(c) ==
  /\ NotBefore(c, store.revision)
  /\ \A i \in 1 .. Len(sent[c]) : key[c] <= sent[c][i].revision
  /\ Len(sent[c]) <= IF pc[c] = "sending" THEN 2 ELSE 1
  /\ pc[c] \in {"idle", "keying"} => sent[c] = <<>>
  /\ pc[c] = "refreshing" => NotBefore(c, seen[c].revision)
  /\ pc[c] = "swapping" =>
       /\ write[c].expected # Any /\ NotBefore(c, write[c].expected)
       /\ write[c].state \in {"won", "lost"} => write[c].expected < store.revision
  /\ Len(sent[c]) > 1 => sent[c][2].revision > sent[c][1].revision

OrderInv == (\A c \in Calls : Ordered(c)) /\ CatalogIsNotOlder

\* What a call has, in one place.
LEMMA CallValues ==
  ASSUME TypeInv, NEW c \in Calls
  PROVE  /\ store \in Snapshot /\ store.revision \in Nat /\ seen[c].revision \in Nat
         /\ key[c] \in Int /\ sent[c] \in Seq(Snapshot) /\ Len(sent[c]) \in Nat
         /\ \A i \in 1 .. Len(sent[c]) : sent[c][i].revision \in Nat
         /\ write[c] \in Mutations /\ write[c].expected \in Int
<1>1. /\ store \in Snapshot /\ seen[c] \in Snapshot /\ key[c] \in Revisions
      /\ sent[c] \in Seq(Snapshot) /\ write[c] \in Mutations
  BY DEF TypeInv, TokensInv, StoreOK, CallsOK, Writers
<1>2. \A i \in 1 .. Len(sent[c]) : sent[c][i] \in Snapshot
  BY <1>1
<1>3. Revisions \subseteq Int
  BY DEF Revisions, Any
<1>4. write[c].expected \in Int
  BY <1>1, <1>3 DEF Mutations
<1>5. Len(sent[c]) \in Nat
  BY <1>1
<1>6. store.revision \in Nat /\ seen[c].revision \in Nat /\ \A i \in 1 .. Len(sent[c]) : sent[c][i].revision \in Nat
  BY <1>1, <1>2, Values
<1> QED BY <1>1, <1>3, <1>4, <1>5, <1>6

\* The store only grows, and a step leaves all other calls as they are.
LEMMA OthersOrdered ==
  ASSUME TypeInv, NEW c \in Calls, Ordered(c), store'.revision \in Nat, store.revision <= store'.revision,
         write'[c] = write[c], pc'[c] = pc[c], seen'[c] = seen[c], sent'[c] = sent[c], key'[c] = key[c]
  PROVE  Ordered(c)'
BY CallValues DEF Ordered, NotBefore

LEMMA EndOrdered ==
  ASSUME TypeInv, NEW c \in Calls, End(c), UNCHANGED store
  PROVE  Ordered(c)'
BY CallValues DEF End, Ordered, NotBefore, Any, TypeInv, TokensInv, CallsOK

LEMMA SendOrdered ==
  ASSUME TypeInv, NEW c \in Calls, Ordered(c), pc[c] # "sending", NEW s \in Snapshot, Send(c, s), UNCHANGED store,
         NotBefore(c, s.revision), s.revision <= store.revision,
         Len(sent[c]) = 1 => sent[c][1].revision < s.revision
  PROVE  Ordered(c)'
<1>1. sent'[c] = Append(sent[c], s) /\ pc'[c] = "sending" /\ key'[c] = key[c]
  BY DEF Send, TypeInv, TokensInv, CallsOK
<1>2. /\ Len(sent'[c]) = Len(sent[c]) + 1
      /\ \A i \in 1 .. Len(sent[c]) : sent'[c][i] = sent[c][i]
      /\ sent'[c][Len(sent[c]) + 1] = s
  BY <1>1, CallValues
<1>3. s.revision \in Nat /\ Len(sent[c]) \in {0, 1}
  <2>1. Len(sent[c]) <= 1 /\ Len(sent[c]) \in Nat
    BY CallValues DEF Ordered
  <2>2. \A n \in Nat : n <= 1 => n \in {0, 1}
    OBVIOUS
  <2> QED BY <2>1, <2>2, Values
<1> DEFINE n == Len(sent[c])
<1>4. \A i \in 1 .. n + 1 : sent'[c][i] = IF i = n + 1 THEN s ELSE sent[c][i]
  <2>1. \A i \in 1 .. n + 1 : i = n + 1 \/ i \in 1 .. n
    BY CallValues
  <2>2. n + 1 \notin 1 .. n
    BY CallValues
  <2> QED BY <1>2, <2>1, <2>2
<1>5. NotBefore(c, store.revision)' /\ \A i \in 1 .. n + 1 : key[c] <= sent'[c][i].revision
  BY <1>1, <1>2, <1>4, CallValues DEF Ordered, NotBefore
<1>6. n + 1 > 1 => sent'[c][2].revision > sent'[c][1].revision
  BY <1>2, <1>3
<1> HIDE DEF Send
<1> QED BY <1>1, <1>2, <1>3, <1>5, <1>6 DEF Ordered

\* The other calls do not notice the step of a call.
LEMMA OneCallOrdered ==
  ASSUME TypeInv, OrderInv, NEW c \in Calls, Ordered(c)', UNCHANGED <<store, catalog>>,
         \A d \in Calls : d # c => /\ write'[d] = write[d] /\ pc'[d] = pc[d] /\ seen'[d] = seen[d]
                                   /\ sent'[d] = sent[d] /\ key'[d] = key[d]
  PROVE  OrderInv'
<1>1. ASSUME NEW d \in Calls, d # c PROVE Ordered(d)'
  BY <1>1, CallValues, OthersOrdered DEF OrderInv
<1> QED BY <1>1 DEF OrderInv, CatalogIsNotOlder

\* Nor do they notice the step of a login.
LEMMA CallsLeftOrdered ==
  ASSUME TypeInv, OrderInv, UNCHANGED <<store, pc, seen, sent, key, catalog>>,
         \A c \in Calls : write'[c] = write[c]
  PROVE  OrderInv'
<1>1. ASSUME NEW c \in Calls PROVE Ordered(c)'
  <2>1. store.revision \in Nat /\ store.revision <= store.revision
    BY <1>1, CallValues
  <2> QED BY <1>1, <2>1, OthersOrdered DEF OrderInv
<1> QED BY <1>1 DEF OrderInv, CatalogIsNotOlder

\* A call that goes to where it knows nothing new.
LEMMA GoOrdered ==
  ASSUME TypeInv, NEW c \in Calls, Ordered(c), UNCHANGED store, sent'[c] = sent[c], key'[c] = key[c],
         Len(sent[c]) <= 1, pc'[c] \notin {"refreshing", "swapping", "sending"},
         pc'[c] \in {"idle", "keying"} => sent[c] = <<>>
  PROVE  Ordered(c)'
BY CallValues DEF Ordered, NotBefore

LEMMA FirstBefore ==
  ASSUME TypeInv, NEW c \in Calls, NEW q \in Int, NEW r \in Int, NotBefore(c, q), q < r, Len(sent[c]) = 1
  PROVE  sent[c][1].revision < r
<1>1. 1 \in 1 .. Len(sent[c])
  OBVIOUS
<1>2. sent[c][1].revision <= q /\ sent[c][1].revision \in Nat
  BY <1>1, CallValues DEF NotBefore
<1> QED BY <1>2

LEMMA OrderCalls ==
  ASSUME CodexAssumption, TypeInv, FreshInv, OrderInv, TokensNext
  PROVE  OrderInv'
<1> USE DEF TypeInv, TokensInv, StoreOK, CallsOK
<1>0. \A c \in Calls : Ordered(c) /\ c \in Writers
  BY DEF OrderInv, Writers
<1>1. ASSUME NEW c \in Calls, End(c), UNCHANGED <<store, catalog>>,
             \A d \in Calls : d # c => write'[d] = write[d]
      PROVE OrderInv'
  BY <1>1, EndOrdered, OneCallOrdered DEF End
<1>2. ASSUME NEW c \in Calls, NEW to, Go(c, to), to \notin {"refreshing", "swapping", "sending"}, pc[c] # "sending",
             UNCHANGED <<store, catalog>>, \A d \in Calls : d # c => write'[d] = write[d],
             to \in {"idle", "keying"} => pc[c] = "idle"
      PROVE OrderInv'
  <2>1. /\ pc'[c] = to /\ UNCHANGED <<sent, key>>
        /\ Len(sent[c]) <= 1 /\ (pc[c] = "idle" => sent[c] = <<>>)
    BY <1>0, <1>2 DEF Go, Ordered
  <2>2. to \in {"idle", "keying"} => sent[c] = <<>>
    BY <1>2, <2>1
  <2>3. Ordered(c)'
    BY <1>0, <1>2, <2>1, <2>2, GoOrdered
  <2> QED BY <1>2, <2>3, OneCallOrdered DEF Go
<1>3. ASSUME NEW c \in Calls, Begin(c) PROVE OrderInv'
  <2>1. \A d \in Calls : d # c => write'[d] = write[d]
    BY <1>0, <1>3 DEF Begin, Request, List, Build, Logout, storeVars, Submit
  <2>2. pc[c] = "idle" /\ UNCHANGED <<store, catalog>>
        /\ (End(c) \/ \E to \in {"asking", "keying", "deleting"} : Go(c, to))
    BY <1>3 DEF Begin, Request, List, Build, Logout, storeVars, Proceed
  <2> QED BY <1>1, <1>2, <2>1, <2>2
<1>4. ASSUME NEW c \in Calls, ReadKey(c) PROVE OrderInv'
  <2>1. UNCHANGED <<store, write, catalog>>
    BY <1>4 DEF ReadKey, storeVars
  <2>2. CASE End(c)
    BY <1>1, <2>1, <2>2
  <2>3. CASE ~End(c)
    <3>1. /\ pc' = [pc EXCEPT ![c] = "asking"] /\ key' = [key EXCEPT ![c] = store.revision]
          /\ UNCHANGED <<seen, sent>> /\ pc[c] = "keying"
      BY <1>4, <2>3 DEF ReadKey
    <3>2. sent[c] = <<>> /\ pc'[c] = "asking" /\ key'[c] = store.revision
      BY <1>0, <3>1 DEF Ordered
    <3>3. Ordered(c)'
      BY <2>1, <3>1, <3>2, CallValues DEF Ordered, NotBefore
    <3> QED BY <2>1, <3>1, <3>3, OneCallOrdered
  <2> QED BY <2>2, <2>3
<1>5. ASSUME NEW c \in Calls, ReadTokens(c) PROVE OrderInv'
  <2>1. UNCHANGED <<store, write, catalog>> /\ pc[c] = "asking"
    BY <1>5 DEF ReadTokens, storeVars
  <2>2. CASE End(c)
    BY <1>1, <2>1, <2>2
  <2>3. CASE sent[c] = <<>> /\ Send(c, store)
    <3>1. NotBefore(c, store.revision) /\ Len(sent[c]) # 1 /\ store.revision <= store.revision
      BY <1>0, <2>3, CallValues DEF Ordered
    <3>2. Ordered(c)'
      BY <1>0, <2>1, <2>3, <3>1, CallValues, SendOrdered
    <3> QED BY <2>1, <2>3, <3>2, OneCallOrdered DEF Send
  <2>4. CASE pc' = [pc EXCEPT ![c] = "refreshing"] /\ seen' = [seen EXCEPT ![c] = store] /\ UNCHANGED <<sent, key>>
    <3>1. Ordered(c)'
      BY <1>0, <2>1, <2>4, CallValues DEF Ordered, NotBefore
    <3> QED BY <2>1, <2>4, <3>1, OneCallOrdered
  <2> QED BY <1>5, <2>2, <2>3, <2>4 DEF ReadTokens
<1>6. ASSUME NEW c \in Calls, Refreshed(c) PROVE OrderInv'
  <2>1. PICK t : Submit(c, seen[c].revision, t)
    BY <1>6 DEF Refreshed
  <2>2. pc[c] = "refreshing" /\ Go(c, "swapping") /\ UNCHANGED <<store, catalog>>
    BY <1>6 DEF Refreshed
  <2>3. write'[c].expected = seen[c].revision /\ write'[c].state = "running"
    BY <1>0, <2>1 DEF Submit
  <2>4. Ordered(c)'
    BY <1>0, <2>2, <2>3, CallValues DEF Go, Ordered, NotBefore, Any
  <2> QED BY <2>1, <2>2, <2>4, OneCallOrdered DEF Submit, Go
<1>7. ASSUME NEW c \in Calls, RefreshFails(c) PROVE OrderInv'
  BY <1>1, <1>7 DEF RefreshFails, storeVars
<1>8. ASSUME NEW c \in Calls, Swapped(c) PROVE OrderInv'
  <2>1. UNCHANGED <<store, catalog>> /\ write' = [write EXCEPT ![c] = NoWrite]
    BY <1>8 DEF Swapped
  <2>2. CASE End(c)
    BY <1>1, <2>1, <2>2
  <2>3. CASE pc[c] = "swapping" /\ write[c].state = "won"
             /\ Send(c, [revision |-> write[c].expected + 1, tokens |-> write[c].tokens])
    <3> DEFINE s == [revision |-> write[c].expected + 1, tokens |-> write[c].tokens]
    <3>1. s \in Snapshot /\ s.revision = write[c].expected + 1
      BY CallValues, Values
    <3>2. NotBefore(c, write[c].expected) /\ write[c].expected < store.revision
      BY <1>0, <2>3 DEF Ordered
    <3>3. NotBefore(c, s.revision) /\ s.revision <= store.revision
      BY <3>1, <3>2, CallValues DEF NotBefore
    <3>4. Len(sent[c]) = 1 => sent[c][1].revision < s.revision
      BY <3>1, <3>2, CallValues, FirstBefore
    <3> HIDE DEF s
    <3>5. Ordered(c)'
      BY <1>0, <2>1, <2>3, <3>1, <3>3, <3>4, SendOrdered DEF s
    <3> QED BY <2>1, <2>3, <3>5, OneCallOrdered DEF Send
  <2>4. CASE pc[c] = "swapping" /\ write[c].state = "lost" /\ Send(c, store)
    <3>1. NotBefore(c, write[c].expected) /\ write[c].expected < store.revision
      BY <1>0, <2>4 DEF Ordered
    <3>2. Len(sent[c]) = 1 => sent[c][1].revision < store.revision
      BY <3>1, CallValues, FirstBefore
    <3>3. NotBefore(c, store.revision) /\ store.revision <= store.revision
      BY <1>0, CallValues DEF Ordered
    <3>4. Ordered(c)'
      BY <1>0, <2>1, <2>4, <3>2, <3>3, CallValues, SendOrdered
    <3> QED BY <2>1, <2>4, <3>4, OneCallOrdered DEF Send
  <2> QED BY <1>8, <2>2, <2>3, <2>4 DEF Swapped
<1>9. ASSUME NEW c \in Calls, Respond(c) PROVE OrderInv'
  <2>1. UNCHANGED <<store, write>> /\ pc[c] = "sending"
    BY <1>9 DEF Respond, storeVars
  <2>2. CASE UNCHANGED catalog /\ End(c)
    BY <1>1, <2>1, <2>2
  <2>3. CASE UNCHANGED catalog /\ Len(sent[c]) = 1 /\ Go(c, "asking")
    <3>1. Ordered(c)'
      <4>1. pc'[c] = "asking" /\ UNCHANGED <<sent, key>> /\ Len(sent[c]) <= 1
        BY <2>3 DEF Go
      <4> QED BY <1>0, <2>1, <4>1, GoOrdered
    <3> QED BY <2>1, <2>3, <3>1, OneCallOrdered DEF Go
  <2>4. CASE End(c) /\ catalog' = [catalog EXCEPT ![ServiceOf[c]] =
                                     [key |-> key[c], source |-> sent[c][Len(sent[c])].revision]]
    <3>1. Len(sent[c]) \in 1 .. Len(sent[c])
      BY <2>1, CallValues DEF Sent
    <3>2. sent[c][Len(sent[c])].revision >= key[c]
      BY <1>0, <3>1, CallValues DEF Ordered
    <3>3. CatalogIsNotOlder'
      BY <2>4, <3>2 DEF OrderInv, CatalogIsNotOlder
    <3>4. \A d \in Calls : Ordered(d)'
      <4>1. Ordered(c)'
        BY <2>1, <2>4, EndOrdered
      <4>2. ASSUME NEW d \in Calls, d # c PROVE Ordered(d)'
        <5>1. store.revision \in Nat /\ store.revision <= store.revision
          BY CallValues
        <5>2. pc'[d] = pc[d] /\ seen'[d] = seen[d] /\ sent'[d] = sent[d] /\ key'[d] = key[d]
          BY <2>4, <4>2 DEF End
        <5> QED BY <1>0, <2>1, <5>1, <5>2, OthersOrdered
      <4> QED BY <4>1, <4>2
    <3> QED BY <3>3, <3>4 DEF OrderInv
  <2> QED BY <1>9, <2>2, <2>3, <2>4 DEF Respond, Proceed
<1>10. ASSUME NEW c \in Calls, Cancel(c) PROVE OrderInv'
  <2>1. UNCHANGED <<store, write, catalog>>
    BY <1>10 DEF Cancel, storeVars
  <2>2. CASE UNCHANGED <<pc, seen, sent, key>>
    BY <2>1, <2>2, CallsLeftOrdered
  <2> QED BY <1>1, <1>10, <2>1, <2>2 DEF Cancel
<1>11. ASSUME NEW w \in Writers, Replace(w) PROVE OrderInv'
  <2>1. UNCHANGED callVars /\ store.revision \in Nat /\ store'.revision \in {store.revision, store.revision + 1}
    BY <1>11, Values DEF Replace
  <2>2. PICK to \in {"won", "lost", "failed"} :
          /\ write' = [write EXCEPT ![w].state = to]
          /\ to = "won" => /\ store'.revision = store.revision + 1
                           /\ write[w].expected \in {Any, store.revision}
          /\ to = "lost" => /\ store' = store /\ write[w].expected \notin {Any, store.revision}
    BY <1>11 DEF Replace
  <2>3. ASSUME NEW c \in Calls, c # w PROVE Ordered(c)'
    BY <1>0, <2>1, <2>2, <2>3, OthersOrdered DEF callVars
  <2>4. ASSUME w \in Calls PROVE Ordered(w)'
    <3>1. write'[w].expected = write[w].expected /\ write'[w].state = to
      BY <2>2, <2>4, CallValues DEF Mutations
    <3>2. pc[w] = "swapping" /\ to \in {"won", "lost"} => write[w].expected < store'.revision
      <4>1. write[w].expected # Any => write[w].expected <= store.revision
        BY <1>11 DEF FreshInv, Replace
      <4> QED BY <1>0, <2>1, <2>2, <2>4, <4>1, CallValues DEF Ordered
    <3> QED BY <1>0, <2>1, <2>4, <3>1, <3>2, CallValues DEF Ordered, NotBefore, callVars
  <2> QED BY <2>1, <2>3, <2>4 DEF OrderInv, CatalogIsNotOlder, callVars
<1>12. ASSUME Expire PROVE OrderInv'
  BY <1>12, CallsLeftOrdered DEF Expire, callVars
<1> QED
  BY <1>3, <1>4, <1>5, <1>6, <1>7, <1>8, <1>9, <1>10, <1>11, <1>12 DEF TokensNext, CallStep

LEMMA OrderLogins ==
  ASSUME CodexAssumption, TypeInv, OrderInv, LoginActions
  PROVE  OrderInv'
<1>1. UNCHANGED <<store, callVars>> /\ (UNCHANGED write \/ \E l \in Logins : Submit(l, expected[l], issued'))
  BY DEF LoginActions, LoginStep, Start, Started, StartFails, BeginWait, Polled, Fails, Exchanged, Saved, Closed, Take,
         Timeout, InterruptWait, Cancelled, CloseInterrupted, Connect, Receive, Exit, ExitReturns,
         tokenVars, storeVars, callVars
<1>2. \A c \in Calls : write'[c] = write[c]
  BY <1>1 DEF Submit, CodexAssumption, TypeInv, TokensInv, StoreOK, Writers
<1> QED BY <1>1, <1>2, CallsLeftOrdered DEF callVars

\* The invariant of the order in which calls read and send.
THEOREM CallsAreOrdered == Spec => []OrderInv
<1>1. Init => TypeInv /\ FreshInv /\ OrderInv
  <2>1. ASSUME Init PROVE FreshInv
    BY <2>1 DEF Init, TokensInit, FreshInv, NoWrite, Writers, Tokens, Any
  <2>2. ASSUME Init PROVE OrderInv
    BY <2>2 DEF Init, TokensInit, OrderInv, Ordered, NotBefore, NoCatalog, Any, CatalogIsNotOlder
  <2> QED BY <2>1, <2>2, TypesAtFirst, CodexAssumption
<1>2. TypeInv /\ FreshInv /\ OrderInv /\ [Next]_vars => (TypeInv /\ FreshInv /\ OrderInv)'
  <2>1. ASSUME TypeInv, FreshInv, OrderInv, UNCHANGED vars PROVE FreshInv' /\ OrderInv'
    BY <2>1, CallsLeftOrdered DEF vars, tokenVars, loginVars, FreshInv
  <2> QED
    BY <2>1, StepOfNext, TypesKept, FreshCalls, FreshLogins, OrderCalls, OrderLogins, CodexAssumption, LoginAssumption
<1> QED
  BY <1>1, <1>2, PTL DEF Spec

\* _CodexHttpxAuth: whoever shares the store, a refused request is repeated
\* only with tokens that were stored after the refused ones.
THEOREM RetriesAreNewer == Spec => []RetryIsNewer
<1>1. OrderInv => RetryIsNewer
  BY DEF OrderInv, Ordered, RetryIsNewer
<1> QED
  BY <1>1, CallsAreOrdered, PTL

\* _catalog: a catalog is not kept for credentials newer than those the
\* backend has answered.
THEOREM CatalogsAreNotOlder == Spec => []CatalogIsNotOlder
<1>1. OrderInv => CatalogIsNotOlder
  BY DEF OrderInv
<1> QED
  BY <1>1, CallsAreOrdered, PTL
=============================================================================
