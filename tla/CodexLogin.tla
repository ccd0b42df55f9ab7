------------------------------ MODULE CodexLogin ------------------------------
(***************************************************************************)
(* Logins to Codex over the tokens of CodexTokens: a service starts one    *)
(* login at a time, by a browser whose callback a local server receives or *)
(* by a device code that is polled; the login exchanges a code for tokens  *)
(* and commits them if the store has not changed since it started.         *)
(*                                                                         *)
(* A login is made at most once, its callbacks too.  Waiting is a task of  *)
(* the application or of an authentication session.                        *)
(***************************************************************************)
EXTENDS CodexTokens

CONSTANTS BrowserLogins,     \* the others are device logins
          Callbacks,         \* connections to a callback server
          LoginOf,           \* the login whose server a connection is to
          None,              \* no login, no callback
          Error,             \* an error in place of a submission
          Leaving,           \* the services that may be left
          MaxInterruptions   \* of a running commit: 2 are waited out

ASSUME LoginAssumption ==
  /\ BrowserLogins \subseteq Logins /\ Leaving \subseteq Services
  /\ LoginOf \in [Callbacks -> Logins]
  /\ None \notin Logins \cup Callbacks /\ Error \notin Callbacks
  /\ MaxInterruptions \in Nat

VARIABLES
  login,      \* per service: its `_login`
  stage,      \* where a login is
  expected,   \* the revision read when it started
  cancelled,  \* logins whose cancel() was called
  finished,   \* logins whose _finish() has begun
  cause,      \* what interrupts the commit of a login
  submission, \* the callback a login has taken
  queue,      \* submissions and errors of a callback server
  page,       \* what a callback has been answered
  succeeded,  \* the logins whose wait() has nothing left to raise
  exiting     \* per service: the login that __aexit__ waits for

loginVars == <<login, stage, expected, cancelled, finished, cause, submission,
               queue, page, succeeded, exiting>>
vars == <<tokenVars, loginVars>>

Waiting == {"listening", "polling", "exchanging", "saving"}   \* inside wait()
Starting(s) == \E l \in Logins : ServiceOf[l] = s /\ stage[l] = "starting"
Connected(l) == {b \in Callbacks : LoginOf[b] = l /\ page[b] \in {"connected", "pending"}}

Init ==
  /\ TokensInit
  /\ login = [s \in Services |-> None]
  /\ stage = [l \in Logins |-> "new"]
  /\ expected = [l \in Logins |-> 0]
  /\ cancelled = {} /\ finished = {}
  /\ cause = [l \in Logins |-> "none"]
  /\ submission = [l \in Logins |-> None]
  /\ queue = [l \in Logins |-> <<>>]
  /\ page = [b \in Callbacks |-> "none"]
  /\ succeeded = {}
  /\ exiting = [s \in Services |-> None]

Become(l, to) == stage' = [stage EXCEPT ![l] = to]

\* A fault to test with: start() does not hold the lock.
StartFault(l) ==
  /\ stage[l] = "new"
  /\ ServiceOf[l] \in active /\ login[ServiceOf[l]] = None
  /\ expected' = [expected EXCEPT ![l] = store.revision]
  /\ Become(l, "starting")
  /\ UNCHANGED <<tokenVars, login, cancelled, finished, cause, submission, queue, page, succeeded, exiting>>

\* Under the login lock: the service has no login and starts none.
Start(l) ==
  /\ stage[l] = "new"
  /\ ServiceOf[l] \in active /\ login[ServiceOf[l]] = None /\ ~Starting(ServiceOf[l])
  /\ expected' = [expected EXCEPT ![l] = store.revision]
  /\ Become(l, "starting")
  /\ UNCHANGED <<tokenVars, login, cancelled, finished, cause, submission, queue, page, succeeded, exiting>>

\* The callback server listens, or the provider has given a user code.
Started(l) ==
  /\ stage[l] = "starting"
  /\ login' = [login EXCEPT ![ServiceOf[l]] = l]
  /\ Become(l, "idle")
  /\ UNCHANGED <<tokenVars, expected, cancelled, finished, cause, submission, queue, page, succeeded, exiting>>

\* No free port, an error of the provider, a timeout or a cancellation.
StartFails(l) ==
  /\ stage[l] = "starting"
  /\ Become(l, "ended")
  /\ UNCHANGED <<tokenVars, login, expected, cancelled, finished, cause, submission, queue, page, succeeded, exiting>>

BeginWait(l) ==
  /\ stage[l] = "idle"
  /\ Become(l, IF l \in BrowserLogins THEN "listening" ELSE "polling")
  /\ UNCHANGED <<tokenVars, login, expected, cancelled, finished, cause, submission, queue, page, succeeded, exiting>>

-----------------------------------------------------------------------------
\* The end of a login.

Release(l) == login' = [login EXCEPT ![ServiceOf[l]] = None]

\* _finish: a device login releases the service; a browser login first closes
\* its server and waits until no connection is left.
Finish(l) ==
  /\ finished' = finished \cup {l}
  /\ IF l \in BrowserLogins
       THEN Become(l, "closing") /\ UNCHANGED login
       ELSE Become(l, "ended") /\ Release(l)

\* `submission.finish`, if one was taken.
Answer(l, status) ==
  page' = [b \in Callbacks |-> IF submission[l] = b THEN status ELSE page[b]]

\* No connection is left, so that no response is pending either: the 503 of
\* close() is never the answer.
Closed(l) ==
  /\ stage[l] = "closing" /\ Connected(l) = {}
  /\ queue' = [queue EXCEPT ![l] = Append(@, Error)]
  /\ Release(l)
  /\ Become(l, "ended")
  /\ UNCHANGED <<tokenVars, expected, cancelled, finished, cause, submission, page, succeeded, exiting>>

\* The task that waits for the server is cancelled.
CloseInterrupted(l) ==
  /\ stage[l] = "closing"
  /\ Release(l)
  /\ succeeded' = succeeded \ {l}
  /\ Become(l, "ended")
  /\ UNCHANGED <<tokenVars, expected, cancelled, finished, cause, submission, queue, page, exiting>>

-----------------------------------------------------------------------------
\* The callback server.

Connect(b) ==
  /\ page[b] = "none"
  /\ stage[LoginOf[b]] \in {"idle"} \cup Waiting
  /\ page' = [page EXCEPT ![b] = "connected"]
  /\ UNCHANGED <<tokenVars, login, stage, expected, cancelled, finished, cause, submission, queue, succeeded, exiting>>

\* A request with the right state: a code, whose answer waits for the login,
\* an error, or a request that is refused and changes nothing.
Receive(b) ==
  /\ page[b] = "connected"
  /\ \/ /\ queue' = [queue EXCEPT ![LoginOf[b]] = Append(@, b)]
        /\ page' = [page EXCEPT ![b] = "pending"]
     \/ /\ queue' = [queue EXCEPT ![LoginOf[b]] = Append(@, Error)]
        /\ page' = [page EXCEPT ![b] = "400"]
     \/ page' = [page EXCEPT ![b] = "400"] /\ UNCHANGED queue
  /\ UNCHANGED <<tokenVars, login, stage, expected, cancelled, finished, cause, submission, succeeded, exiting>>

\* next_submission
Take(l) ==
  /\ stage[l] = "listening" /\ queue[l] # <<>>
  /\ queue' = [queue EXCEPT ![l] = Tail(@)]
  /\ IF Head(queue[l]) = Error
       THEN Finish(l) /\ UNCHANGED submission
       ELSE /\ submission' = [submission EXCEPT ![l] = Head(queue[l])]
            /\ Become(l, "exchanging")
            /\ UNCHANGED <<login, finished>>
  /\ UNCHANGED <<tokenVars, expected, cancelled, cause, page, succeeded, exiting>>

-----------------------------------------------------------------------------
\* The wait of a login.

\* The user has approved the device; an answer "not yet" changes nothing.
Polled(l) ==
  /\ stage[l] = "polling"
  /\ Become(l, "exchanging")
  /\ UNCHANGED <<tokenVars, login, expected, cancelled, finished, cause, submission, queue, page, succeeded, exiting>>

\* The provider or the exchange fails.
Fails(l) ==
  /\ stage[l] \in {"polling", "exchanging"}
  /\ Answer(l, "500")
  /\ Finish(l)
  /\ UNCHANGED <<tokenVars, expected, cancelled, cause, submission, queue, succeeded, exiting>>

\* The provider answers with tokens; _save commits them for the login of an
\* active service.
Exchanged(l) ==
  /\ stage[l] = "exchanging"
  /\ Issue
  /\ IF ServiceOf[l] \in active /\ l \notin cancelled /\ login[ServiceOf[l]] = l
       THEN /\ Submit(l, expected[l], issued')
            /\ Become(l, "saving")
            /\ UNCHANGED <<login, finished, page>>
       ELSE /\ Answer(l, "500")
            /\ Finish(l)
            /\ UNCHANGED write
  /\ UNCHANGED <<store, floor, stale, active, absorbed, callVars,
                 expected, cancelled, cause, submission, queue, succeeded, exiting>>

\* A fault to test with: a commit that lost is taken for one that won.
SavedFault(l) ==
  /\ stage[l] = "saving" /\ Written(l)
  /\ Answer(l, IF write[l].state = "failed" THEN "500" ELSE "200")
  /\ Finish(l)
  /\ succeeded' = IF write[l].state = "failed" THEN succeeded ELSE succeeded \cup {l}
  /\ UNCHANGED <<tokenVars, expected, cancelled, cause, submission, queue, exiting>>

\* The commit has ended.  A browser whose login was cancelled gets no answer.
Saved(l) ==
  /\ stage[l] = "saving" /\ Written(l)
  /\ \/ cause[l] = "none" /\ Answer(l, IF write[l].state = "won" THEN "200" ELSE "500")
     \/ cause[l] # "none" /\ write[l].state = "failed" /\ Answer(l, "500")
     \/ cause[l] = "timeout" /\ write[l].state # "failed" /\ Answer(l, "500")
     \/ cause[l] = "cancel" /\ write[l].state # "failed" /\ UNCHANGED page
  /\ Finish(l)
  /\ succeeded' = IF cause[l] = "none" /\ write[l].state = "won"
                    THEN succeeded \cup {l} ELSE succeeded
  /\ UNCHANGED <<tokenVars, expected, cancelled, cause, submission, queue, exiting>>

\* A fault to test with: wait() has no shield of its own.
InterruptFault(l, why) ==
  IF stage[l] = "saving" /\ absorbed[l] < 1
    THEN /\ absorbed' = [absorbed EXCEPT ![l] = @ + 1]
         /\ cause' = [cause EXCEPT ![l] = why]
         /\ UNCHANGED <<login, stage, finished, page>>
    ELSE /\ Finish(l)
         /\ UNCHANGED <<absorbed, cause, page>>

\* CancelledError in wait(): the shields around a running commit take the
\* first ones, one more leaves the thread to itself.
Interrupt(l, why) ==
  IF stage[l] = "saving" /\ absorbed[l] < 2
    THEN /\ absorbed' = [absorbed EXCEPT ![l] = @ + 1]
         /\ cause' = [cause EXCEPT ![l] = IF @ = "cancel" THEN @ ELSE why]
         /\ UNCHANGED <<login, stage, finished, page>>
    ELSE /\ IF why = "timeout" /\ cause[l] # "cancel"
              THEN Answer(l, "500") ELSE UNCHANGED page
         /\ Finish(l)
         /\ UNCHANGED <<absorbed, cause>>

Interruptible(l) == stage[l] \in Waiting /\ absorbed[l] < MaxInterruptions

\* A fault to test with: the timeout covers the exchange only.
TimeoutFault(l) ==
  /\ Interruptible(l) /\ stage[l] \in {"exchanging", "saving"} /\ cause[l] # "timeout"
  /\ Interrupt(l, "timeout")
  /\ UNCHANGED <<storeVars, active, callVars, expected, cancelled, submission, queue, succeeded, exiting>>

\* login_timeout_seconds
Timeout(l) ==
  /\ Interruptible(l) /\ cause[l] # "timeout"
  /\ Interrupt(l, "timeout")
  /\ UNCHANGED <<storeVars, active, callVars, expected, cancelled, submission, queue, succeeded, exiting>>

\* The application cancels the task that waits.
InterruptWait(l) ==
  /\ Interruptible(l)
  /\ Interrupt(l, "cancel")
  /\ UNCHANGED <<storeVars, active, callVars, expected, cancelled, submission, queue, succeeded, exiting>>

\* cancel(): interrupts the task that waits, or finishes the login itself.
CancelLogin(l) ==
  /\ cancelled' = cancelled \cup {l}
  /\ IF stage[l] = "idle"
       THEN Finish(l) /\ UNCHANGED <<absorbed, cause, page>>
       ELSE Interrupt(l, "cancel")

Cancelled(l) ==
  /\ stage[l] = "idle" \/ Interruptible(l)
  /\ l \notin cancelled
  /\ CancelLogin(l)
  /\ UNCHANGED <<storeVars, active, callVars, expected, submission, queue, succeeded, exiting>>

\* __aexit__: a login that is not finished is cancelled first.
Exit(s) ==
  /\ s \in Leaving /\ s \in active /\ exiting[s] = None
  /\ LET l == login[s] IN
     IF l = None \/ l \in finished
       THEN /\ active' = active \ {s}
            /\ UNCHANGED <<absorbed, loginVars>>
       ELSE /\ stage[l] = "idle" \/ Interruptible(l)
            /\ exiting' = [exiting EXCEPT ![s] = l]
            /\ CancelLogin(l)
            /\ UNCHANGED <<active, expected, submission, queue, succeeded>>
  /\ UNCHANGED <<storeVars, callVars>>

ExitReturns(s) ==
  /\ s \in active /\ exiting[s] # None
  /\ stage[exiting[s]] = "ended"
  /\ active' = active \ {s}
  /\ UNCHANGED <<storeVars, absorbed, callVars, loginVars>>

LoginStep(l) ==
  \/ Started(l) \/ StartFails(l) \/ Take(l) \/ Polled(l) \/ Fails(l)
  \/ Exchanged(l) \/ Saved(l) \/ Closed(l)

Next ==
  \/ TokensNext /\ UNCHANGED loginVars
  \/ \E l \in Logins :
       \/ Start(l) \/ BeginWait(l) \/ LoginStep(l)
       \/ Timeout(l) \/ InterruptWait(l) \/ Cancelled(l) \/ CloseInterrupted(l)
  \/ \E b \in Callbacks : Connect(b) \/ Receive(b)
  \/ \E s \in Services : Exit(s) \/ ExitReturns(s)

Spec == Init /\ [][Next]_vars

\* Tasks run, the provider answers or times out, timers fire, and browsers
\* that have connected send their request.
Fairness ==
  /\ TokensFairness
  /\ \A l \in Logins : WF_vars(LoginStep(l)) /\ WF_vars(Timeout(l))
  /\ \A b \in Callbacks : WF_vars(Receive(b))
  /\ \A s \in Services : WF_vars(ExitReturns(s))

FairSpec == Spec /\ Fairness
-----------------------------------------------------------------------------
\* What a poll of an authentication session says of its login.
SessionPoll(l) ==
  IF stage[l] # "ended" THEN "nothing"
  ELSE IF l \in succeeded THEN "completed" ELSE "failed"

TypeOK ==
  /\ TokensTypeOK
  /\ login \in [Services -> Logins \cup {None}]
  /\ stage \in [Logins -> {"new", "starting", "idle", "closing", "ended"} \cup Waiting]
  /\ expected \in [Logins -> Nat]
  /\ cancelled \subseteq Logins /\ finished \subseteq Logins
  /\ cause \in [Logins -> {"none", "timeout", "cancel"}]
  /\ submission \in [Logins -> Callbacks \cup {None}]
  /\ queue \in [Logins -> Seq(Callbacks \cup {Error})]
  /\ page \in [Callbacks -> {"none", "connected", "pending", "200", "400", "500"}]
  /\ succeeded \subseteq Logins
  /\ exiting \in [Services -> Logins \cup {None}]

\* start_browser_login, start_device_login: a service has one login, from the
\* moment it starts until it is released, and knows it.
OneLogin ==
  \A s \in Services :
    LET open == {l \in Logins : ServiceOf[l] = s
                                /\ stage[l] \notin {"new", "starting", "ended"}}
    IN /\ open = {l \in Logins : login[s] = l}
       /\ Starting(s) => open = {}

\* CodexBrowserLogin.wait: the browser shows success, and a session reports
\* completion, only when the tokens of the login are stored.
SuccessMeansSaved ==
  /\ \A b \in Callbacks : page[b] = "200" => write[LoginOf[b]].state = "won"
  /\ \A l \in Logins : SessionPoll(l) = "completed" => write[l].state = "won"

\* cancel() and wait(): when they have returned, no commit of the login is on
\* its way.
NoCommitAfterEnd ==
  \A l \in Logins : stage[l] = "ended" => write[l].state # "running"

\* A login that is waited for ends its wait: it is answered or times out.
WaitsFinish == \A l \in Logins : stage[l] \in Waiting ~> l \in finished

\* The documentation: wait() closes the callback server after success,
\* rejection, timeout, or cancellation.
WaitReturns ==
  \A l \in BrowserLogins : l \in finished ~> stage[l] = "ended"
=============================================================================
