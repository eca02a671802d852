-------------------------- MODULE MCDurableAgent --------------------------
(* Small instances of DurableAgent. *)
EXTENDS DurableAgent, TLC

(* Threads are interchangeable. Not used where liveness is checked. *)
Symmetry == Permutations(Threads)

(* Bound where two threads run: one that died is resumed, and only one      *)
(* whose last run ended, or died before its first node, is run again.      *)
DeadThreadsAreResumed ==
    \A t \in Threads :
        t \in invoked' \ invoked /\ next'[t] = "parse_request"
          => next[t] \in {END, "parse_request"}
=============================================================================
