----------------------------- MODULE RunOutcome -----------------------------
(***************************************************************************)
(* What a server promises about one run, whatever the transport: a client  *)
(* that stays gets exactly one answer; a result is only given once the     *)
(* conversation has the run's messages; and nothing changes once the run   *)
(* has ended.  An error does not say that nothing was stored.              *)
(***************************************************************************)
CONSTANT Run

VARIABLES
  durable,  \* runs whose messages the conversation store has
  answer,   \* per run: the terminal frame, "none" before it
  left,     \* runs whose client went away
  ended     \* runs that are not active any more

vars == <<durable, answer, left, ended>>

Init ==
  /\ durable = {} /\ left = {} /\ ended = {}
  /\ answer = [r \in Run |-> "none"]

Persist(r) ==
  /\ r \notin durable \cup ended
  /\ answer[r] = "none"
  /\ durable' = durable \cup {r}
  /\ UNCHANGED <<answer, left, ended>>

Answer(r, a) ==
  /\ r \notin ended
  /\ answer[r] = "none"
  /\ a = "result" => r \in durable
  /\ answer' = [answer EXCEPT ![r] = a]
  /\ UNCHANGED <<durable, left, ended>>

Leave(r) ==
  /\ left' = left \cup {r}
  /\ UNCHANGED <<durable, answer, ended>>

End(r) ==
  /\ answer[r] # "none" \/ r \in left
  /\ ended' = ended \cup {r}
  /\ UNCHANGED <<durable, answer, left>>

Next ==
  \E r \in Run :
    \/ Persist(r) \/ Leave(r) \/ End(r)
    \/ \E a \in {"result", "error"} : Answer(r, a)

Spec == Init /\ [][Next]_vars

=============================================================================
