--------------------------- MODULE IdempotentJobs ---------------------------
(***************************************************************************)
(* What a job store promises its callers, with nothing of how it keeps the *)
(* promise: an idempotency key is accepted at most once, an accepted key   *)
(* is never forgotten, and a key's outcome - the work succeeded, or failed *)
(* for good - is decided at most once and never changes afterwards.        *)
(*                                                                         *)
(* A cancelled job counts as still pending.  Cancellation is cooperative   *)
(* in this system: the promise is only that it never undoes an outcome.    *)
(***************************************************************************)
CONSTANT Keys     \* the idempotency keys callers submit under

VARIABLE outcome  \* what callers can learn of each key

Outcomes == {"absent", "pending", "succeeded", "failed"}

TypeOK == outcome \in [Keys -> Outcomes]

Init == outcome = [k \in Keys |-> "absent"]

(***************************************************************************)
(* A key is accepted: it was unknown and is now pending.                   *)
(***************************************************************************)
Accept(k) ==
    /\ outcome[k] = "absent"
    /\ outcome' = [outcome EXCEPT ![k] = "pending"]

(***************************************************************************)
(* The outcome of a pending key is decided.                                *)
(***************************************************************************)
Decide(k) ==
    /\ outcome[k] = "pending"
    /\ \E r \in {"succeeded", "failed"} : outcome' = [outcome EXCEPT ![k] = r]

Next == \E k \in Keys : Accept(k) \/ Decide(k)

Spec == Init /\ [][Next]_outcome

=============================================================================
