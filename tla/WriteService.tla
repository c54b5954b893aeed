---------------------------- MODULE WriteService ----------------------------
(***************************************************************************)
(* What submitTrafficWrite promises its callers, without the queue, the    *)
(* mutex or the writer goroutine: a call takes effect at most once, at one *)
(* instant between the call and the return, the caller is told whether it  *)
(* did, and every call returns.                                            *)
(***************************************************************************)

CONSTANT Writes   \* the submissions; each is one call of submitTrafficWrite

VARIABLES
  phase,   \* "idle" -> "pending" -> "applied" -> "returned"
  answer   \* what the caller was, or will be, told

svars == <<phase, answer>>

(* Errors raised by the applied function itself, panics included, are "err": *)
(* the function did run.  "full" is the refusal of a call that did not.      *)
Outcomes == {"ok", "err"}

Init ==
  /\ phase = [w \in Writes |-> "idle"]
  /\ answer = [w \in Writes |-> "none"]

Call(w) ==
  /\ phase[w] = "idle"
  /\ phase' = [phase EXCEPT ![w] = "pending"]
  /\ UNCHANGED answer

(* The function runs; its caller may learn of it later or in the same step. *)
Apply(w) ==
  /\ phase[w] = "pending"
  /\ \E next \in {"applied", "returned"}, r \in Outcomes :
       /\ phase' = [phase EXCEPT ![w] = next]
       /\ answer' = [answer EXCEPT ![w] = r]

Refuse(w) ==
  /\ phase[w] = "pending"
  /\ phase' = [phase EXCEPT ![w] = "returned"]
  /\ answer' = [answer EXCEPT ![w] = "full"]

Return(w) ==
  /\ phase[w] = "applied"
  /\ phase' = [phase EXCEPT ![w] = "returned"]
  /\ UNCHANGED answer

Complete(w) == Apply(w) \/ Refuse(w) \/ Return(w)

Next == \E w \in Writes : Call(w) \/ Complete(w)

Safety == Init /\ [][Next]_svars

Spec == Safety /\ \A w \in Writes : WF_svars(Complete(w))

=============================================================================
