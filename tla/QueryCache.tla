----------------------------- MODULE QueryCache -----------------------------
(***************************************************************************)
(* The query cache of the front end (queryClient.ts, api/queryKeys.ts) as  *)
(* its pages use it.  What a query holds is the revision of the server at  *)
(* which the answer was read; revisions start at 1 and 0 is "no data yet". *)
(* A query is a tuple whose head names it; the list of clients and the     *)
(* scan of the violation filter carry the criteria they were asked with.   *)
(***************************************************************************)
EXTENDS Naturals, Sequences, TLC

list(criteria) == <<"list", criteria>>
violationAll(criteria) == <<"violationAll", criteria>>
groups == <<"groups">>
slim == <<"slim">>
detail == <<"detail">>
options == <<"options">>

\* The root of a key, and whether an invalidation of a root reaches a query.
\* The panel inside a row writes its own key, under neither list.
Root(q) ==
  CASE Head(q) \in {"list", "violationAll", "groups"} -> "clients"
    [] Head(q) \in {"slim", "options"}                -> "inbounds"
    [] Head(q) = "detail"                             -> "inbound"
UnderRoot_SlimOnly(root, q) == Root(q) = root /\ q # options
UnderRoot(root, q) == Root(q) = root

\* slim and options never grow stale by themselves; the others do, in 30 s.
Ages(q) == q \notin {slim, options}
\* Only the list of clients is asked again every 30 s.
Polled(q) == Head(q) = "list"

\* from # 0: a read is under way that saw the server no earlier than then.
NoEntry == [data |-> 0, invalid |-> FALSE, from |-> 0, retried |-> FALSE]
Idle(e) == e.from = 0
Reading(e, now) == [e EXCEPT !.from = now, !.retried = FALSE]
Asked(e, now) == IF Idle(e) THEN Reading(e, now) ELSE e
Answered(e, r) == [data |-> r, invalid |-> FALSE, from |-> 0, retried |-> FALSE]
\* A read is tried once more, unless nobody watches the query any longer.
Failed(e, watched, now) ==
  IF watched /\ ~e.retried THEN [e EXCEPT !.from = now, !.retried = TRUE]
                           ELSE [e EXCEPT !.from = 0, !.retried = FALSE]

\* A first read cannot be restarted, nor a read nobody watches: the
\* invalidation joins it, and its answer counts as fresh.
Joins(e, watched) == ~Idle(e) /\ (e.data = 0 \/ ~watched)
Invalidated(e, watched, now) ==
  CASE Joins(e, watched) -> [e EXCEPT !.invalid = TRUE]
    [] ~Joins(e, watched) /\ watched -> Reading([e EXCEPT !.invalid = TRUE], now)
    [] OTHER -> [e EXCEPT !.invalid = e.data # 0]

\* setQueryData: the written data counts as fresh, whatever was marked before.
Written(e, r) == [e EXCEPT !.data = r, !.invalid = FALSE]

\* What opening a view, or the window's focus, asks for.
Wants(q, e, aged) == e.data = 0 \/ e.invalid \/ (aged /\ Ages(q))
=============================================================================
