----------------------------- MODULE CodexTokens -----------------------------
(***************************************************************************)
(* The Codex tokens: a store that several services (of one process or of   *)
(* several) share, the token manager of each service, the authentication   *)
(* of model requests, and the model catalog that is cached per revision of *)
(* the credentials.                                                        *)
(*                                                                         *)
(* A call is made at most once.  The mutations of the store run in threads *)
(* under a file lock, each in one step, and outlive an impatient caller.   *)
(* Tokens are the number under which the provider issued the access token, *)
(* 0 is none; the refresh token that goes with it is left out.             *)
(***************************************************************************)
EXTENDS Integers, Sequences, FiniteSets

CONSTANTS Services,
          Calls,
          Kinds,      \* of a call: a subset of CallKinds, what it may turn out to be
          Logins,     \* the logins of CodexLogin, which commit tokens too
          ServiceOf,  \* the service of a call or login
          MaxIssued   \* bound on the tokens the provider issues

Writers == Calls \cup Logins

CallKinds == {"request", "list", "build", "logout"}

ASSUME CodexAssumption ==
  /\ ServiceOf \in [Writers -> Services]
  /\ Kinds \in [Calls -> SUBSET CallKinds]
  /\ MaxIssued \in Nat
  /\ Logins \cap Calls = {}

VARIABLES
  store,      \* what the keyring holds: its revision and tokens
  issued,     \* how many tokens the provider has issued
  floor,      \* history: `issued` when the store last changed
  stale,      \* the stored access token has expired, or soon will
  active,     \* the services inside `async with`
  write,      \* the mutation a writer has given to a thread
  absorbed,   \* interruptions a writer has met while the mutation ran
  pc,         \* where a call is suspended
  seen,       \* the snapshot it has read
  sent,       \* the snapshots whose tokens it has sent to the backend
  key,        \* the revision it has read before loading the catalog
  catalog     \* per service: the cached catalog's key, and the revision of
              \* the tokens the backend has answered with it

tokenVars == <<store, issued, floor, stale, active, write, absorbed,
               pc, seen, sent, key, catalog>>
callVars == <<pc, seen, sent, key, catalog>>
storeVars == <<store, issued, floor, stale, write>>

NoTokens == 0
Tokens == 0 .. MaxIssued
Snapshot == [revision : Nat, tokens : Tokens]
Any == -1          \* no expected revision, no catalog
NoWrite == [state |-> "none", expected |-> Any, tokens |-> NoTokens]
NoCatalog == [key |-> Any, source |-> Any]
Revisions == Nat \cup {Any}
Mutations == [state : {"none", "running", "won", "lost", "failed"},
              expected : Revisions, tokens : Tokens]
CatalogEntries == [key : Revisions, source : Revisions]
Nothing == [revision |-> 0, tokens |-> NoTokens]

TokensInit ==
  /\ issued \in Tokens \cap {0, 1} /\ floor = issued
  /\ store = [revision |-> 0, tokens |-> issued]
  /\ stale = FALSE
  /\ active = Services
  /\ write = [w \in Writers |-> NoWrite]
  /\ absorbed = [w \in Writers |-> 0]
  /\ pc = [c \in Calls |-> "idle"]
  /\ seen = [c \in Calls |-> Nothing]
  /\ sent = [c \in Calls |-> <<>>]
  /\ key = [c \in Calls |-> Any]
  /\ catalog = [s \in Services |-> NoCatalog]

-----------------------------------------------------------------------------
\* The store.

\* A fault to test with: the two arguments are swapped.
SubmitFault(w, expected, tokens) ==
  write' = [write EXCEPT ![w] = [state |-> "running", expected |-> tokens,
                                 tokens |-> expected]]

\* _mutate hands the mutation to a thread.
Submit(w, expected, tokens) ==
  write' = [write EXCEPT ![w] = [state |-> "running", expected |-> expected,
                                 tokens |-> tokens]]

\* A fault to test with: the revision is not compared.
ReplaceFault(w) ==
  /\ write[w].state = "running"
  /\ store' = [revision |-> store.revision + 1, tokens |-> write[w].tokens]
  /\ floor' = issued
  /\ stale' = (stale /\ write[w].tokens = store.tokens)
  /\ write' = [write EXCEPT ![w].state = "won"]
  /\ UNCHANGED <<issued, active, absorbed, callVars>>

\* The thread: under the file lock it compares the revision and replaces the
\* record, or the lock or the keyring fails.
Replace(w) ==
  /\ write[w].state = "running"
  /\ LET matches == write[w].expected \in {Any, store.revision} IN
     \/ /\ matches
        /\ store' = [revision |-> store.revision + 1, tokens |-> write[w].tokens]
        /\ floor' = issued
        /\ stale' = (stale /\ write[w].tokens = store.tokens)
        /\ write' = [write EXCEPT ![w].state = "won"]
     \/ /\ ~matches
        /\ write' = [write EXCEPT ![w].state = "lost"]
        /\ UNCHANGED <<store, floor, stale>>
     \/ /\ write' = [write EXCEPT ![w].state = "failed"]
        /\ UNCHANGED <<store, floor, stale>>
  /\ UNCHANGED <<issued, active, absorbed, callVars>>

Written(w) == write[w].state \in {"won", "lost", "failed"}

\* The provider issues the next token.
Issue == issued < MaxIssued /\ issued' = issued + 1

Expire ==
  /\ store.tokens # NoTokens /\ ~stale
  /\ stale' = TRUE
  /\ UNCHANGED <<store, issued, floor, active, write, absorbed, callVars>>

-----------------------------------------------------------------------------
\* The calls.

\* asyncio locks: one caller of a service reads and refreshes, one loads.
Refreshing(s) == \E c \in Calls : ServiceOf[c] = s /\ pc[c] \in {"refreshing", "swapping"}
Loading(s) == \E c \in Calls : ServiceOf[c] = s /\ key[c] # Any

Go(c, to) == pc' = [pc EXCEPT ![c] = to] /\ UNCHANGED <<seen, sent, key, absorbed>>

\* A call that ends, by returning, raising or being cancelled, forgets what
\* it has read.
End(c) ==
  /\ pc' = [pc EXCEPT ![c] = "ended"]
  /\ seen' = [seen EXCEPT ![c] = Nothing]
  /\ sent' = [sent EXCEPT ![c] = <<>>]
  /\ key' = [key EXCEPT ![c] = Any]
  /\ absorbed' = [absorbed EXCEPT ![c] = 0]

\* An inactive service refuses its callers.
Proceed(c, to) == IF ServiceOf[c] \in active THEN Go(c, to) ELSE End(c)

Request(c) ==
  /\ pc[c] = "idle" /\ "request" \in Kinds[c]
  /\ Proceed(c, "asking")
  /\ UNCHANGED <<storeVars, active, catalog>>

\* An HTTP client of the listing's own, closed at its end.
List(c) ==
  /\ pc[c] = "idle" /\ "list" \in Kinds[c]
  /\ Proceed(c, "keying")
  /\ UNCHANGED <<storeVars, active, catalog>>

\* Settings that keep state at the provider are refused.
Build(c) ==
  /\ pc[c] = "idle" /\ "build" \in Kinds[c]
  /\ Proceed(c, "keying") \/ End(c)
  /\ UNCHANGED <<storeVars, active, catalog>>

Logout(c) ==
  /\ pc[c] = "idle" /\ "logout" \in Kinds[c]
  /\ Proceed(c, "deleting")
  /\ IF ServiceOf[c] \in active THEN Submit(c, Any, NoTokens) ELSE UNCHANGED write
  /\ UNCHANGED <<store, issued, floor, stale, active, catalog>>

\* Under the instruction lock: the revision first, then the cache.
ReadKey(c) ==
  /\ pc[c] = "keying" /\ ~Loading(ServiceOf[c])
  /\ \/ /\ ServiceOf[c] \in active /\ catalog[ServiceOf[c]].key # store.revision
        /\ pc' = [pc EXCEPT ![c] = "asking"]
        /\ key' = [key EXCEPT ![c] = store.revision]
        /\ UNCHANGED <<seen, sent, absorbed>>
     \/ ServiceOf[c] \in active /\ catalog[ServiceOf[c]].key = store.revision /\ End(c)
     \/ End(c)                 \* inactive, or the store cannot be read
  /\ UNCHANGED <<storeVars, active, catalog>>

Send(c, snapshot) ==
  /\ pc' = [pc EXCEPT ![c] = "sending"]
  /\ sent' = [sent EXCEPT ![c] = Append(@, snapshot)]
  /\ UNCHANGED <<seen, key, absorbed>>

Usable == store.tokens # NoTokens /\ ~stale

\* A fault to test with: the retry does not force a refresh.
ReadTokensFault(c) ==
  /\ pc[c] = "asking" /\ ~Refreshing(ServiceOf[c])
  /\ IF Usable THEN Send(c, store) ELSE End(c)
  /\ UNCHANGED <<storeVars, active, catalog>>

\* Under the manager's lock.  A caller whose tokens the backend has refused
\* refreshes them even if they have not expired.
ReadTokens(c) ==
  /\ pc[c] = "asking" /\ ~Refreshing(ServiceOf[c])
  /\ \/ Usable /\ sent[c] = <<>> /\ Send(c, store)
     \/ /\ store.tokens # NoTokens
        /\ sent[c] # <<>> \/ stale
        /\ pc' = [pc EXCEPT ![c] = "refreshing"]
        /\ seen' = [seen EXCEPT ![c] = store]
        /\ UNCHANGED <<sent, key, absorbed>>
     \/ End(c)                 \* no tokens, or the store cannot be read
  /\ UNCHANGED <<storeVars, active, catalog>>

\* The provider answers a refresh; an access token it omits is kept.
Refreshed(c) ==
  /\ pc[c] = "refreshing"
  /\ Issue
  /\ \E tokens \in {issued', seen[c].tokens} : Submit(c, seen[c].revision, tokens)
  /\ Go(c, "swapping")
  /\ UNCHANGED <<store, floor, stale, active, catalog>>

RefreshFails(c) ==
  /\ pc[c] = "refreshing"
  /\ End(c)
  /\ UNCHANGED <<storeVars, active, catalog>>

\* A fault to test with: the caller of a mutation that lost is not woken.
SwappedFault(c) ==
  /\ pc[c] \in {"swapping", "deleting"} /\ write[c].state \in {"won", "failed"}
  /\ End(c)
  /\ write' = [write EXCEPT ![c] = NoWrite]
  /\ UNCHANGED <<store, issued, floor, stale, active, catalog>>

\* The mutation has ended and its caller runs again.  A refresh that lost
\* against another change uses what is stored now.
Swapped(c) ==
  /\ pc[c] \in {"swapping", "deleting"} /\ Written(c)
  /\ LET usedBy == pc[c] = "swapping" /\ absorbed[c] = 0 IN
     \/ usedBy /\ write[c].state = "won"
        /\ Send(c, [revision |-> write[c].expected + 1, tokens |-> write[c].tokens])
     \/ usedBy /\ write[c].state = "lost" /\ Usable /\ Send(c, store)
     \/ ~(usedBy /\ write[c].state = "won") /\ End(c)
  /\ write' = [write EXCEPT ![c] = NoWrite]
  /\ UNCHANGED <<store, issued, floor, stale, active, catalog>>

\* A fault to test with: the revision is read when the catalog has come.
RespondFault(c) ==
  /\ pc[c] = "sending"
  /\ IF key[c] # Any
       THEN catalog' = [catalog EXCEPT ![ServiceOf[c]] =
                          [key |-> store.revision, source |-> sent[c][Len(sent[c])].revision]]
       ELSE UNCHANGED catalog
  /\ End(c)
  /\ UNCHANGED <<storeVars, active>>

\* The backend answers: the result, a refusal of the tokens, or an error.
\* Only the first refusal is answered with a forced refresh.
Respond(c) ==
  /\ pc[c] = "sending"
  /\ \/ /\ key[c] # Any
        /\ catalog' = [catalog EXCEPT ![ServiceOf[c]] =
                         [key |-> key[c], source |-> sent[c][Len(sent[c])].revision]]
        /\ End(c)
     \/ Len(sent[c]) = 1 /\ Proceed(c, "asking") /\ UNCHANGED catalog
     \/ End(c) /\ UNCHANGED catalog
  /\ UNCHANGED <<storeVars, active>>

\* Cancellation.  While a mutation runs, _mutate waits for it after the
\* first one; the second one leaves the thread to itself.
Cancel(c) ==
  /\ pc[c] \notin {"idle", "ended"}
  /\ IF pc[c] \in {"swapping", "deleting"} /\ absorbed[c] = 0
       THEN absorbed' = [absorbed EXCEPT ![c] = 1] /\ UNCHANGED <<pc, seen, sent, key>>
       ELSE End(c)
  /\ UNCHANGED <<storeVars, active, catalog>>

Begin(c) == Request(c) \/ List(c) \/ Build(c) \/ Logout(c)
CallStep(c) == ReadKey(c) \/ ReadTokens(c) \/ Refreshed(c) \/ RefreshFails(c)
               \/ Swapped(c) \/ Respond(c)

TokensNext ==
  \/ \E c \in Calls : Begin(c) \/ CallStep(c) \/ Cancel(c)
  \/ \E w \in Writers : Replace(w)
  \/ Expire

\* Tasks run, the provider and the backend answer or time out, threads end.
TokensFairness ==
  /\ \A c \in Calls : WF_tokenVars(CallStep(c))
  /\ \A w \in Writers : WF_tokenVars(Replace(w))

-----------------------------------------------------------------------------
TokensTypeOK ==
  /\ store \in Snapshot
  /\ issued \in Tokens /\ floor \in Tokens
  /\ stale \in BOOLEAN
  /\ active \subseteq Services
  /\ write \in [Writers -> Mutations]
  /\ absorbed \in [Writers -> Nat]
  /\ pc \in [Calls -> {"idle", "keying", "asking", "refreshing", "swapping",
                      "deleting", "sending", "ended"}]
  /\ seen \in [Calls -> Snapshot]
  /\ sent \in [Calls -> Seq(Snapshot)]
  /\ key \in [Calls -> Revisions]
  /\ catalog \in [Services -> CatalogEntries]

\* compare_and_swap by refreshes and logins: a change of the store keeps or
\* removes what it replaces, or brings what the provider has issued since the
\* last change.  No change is overwritten by an answer that is older.
CommitsAreFresh ==
  [][store' # store =>
       \/ store'.tokens = NoTokens
       \/ store'.tokens \in {store.tokens} \cup (floor + 1 .. issued)]_store

\* _CodexHttpxAuth: a request that was refused is repeated with tokens that
\* were stored after those it was refused with.
RetryIsNewer ==
  \A c \in Calls : Len(sent[c]) > 1 => sent[c][2].revision > sent[c][1].revision

\* CodexSubscriptionModelFactory._catalog: a catalog is never older than the
\* credentials it is cached for.
CatalogIsNotOlder ==
  \A s \in Services : catalog[s].source >= catalog[s].key

\* Every call ends, behind others at the locks and whatever is cancelled.
CallsEnd == \A c \in Calls : pc[c] # "idle" ~> pc[c] = "ended"
=============================================================================
