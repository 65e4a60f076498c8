----------------------------- MODULE MCDispatch -----------------------------
(***************************************************************************)
(* The three outboxes side by side.  They share no row, no lease and no     *)
(* message, so a behaviour moves in one of them: `lane` says in which.      *)
(***************************************************************************)
EXTENDS RunDispatch, DemandDispatch, RetryDispatch, TLC

VARIABLE lane
vars == <<lane, runDispatchVars, demandVars, retryVars>>

Init ==
  /\ lane \in {"runs", "demands", "retries"}
  /\ RunDispatchInit /\ DemandDispatchInit /\ RetryDispatchInit

Next ==
  /\ UNCHANGED lane
  /\ \/ lane = "runs" /\ RunDispatchNext /\ UNCHANGED <<demandVars, retryVars>>
     \/ lane = "demands" /\ DemandDispatchNext /\ UNCHANGED <<runDispatchVars, retryVars>>
     \/ lane = "retries" /\ RetryDispatchNext /\ UNCHANGED <<runDispatchVars, demandVars>>

Spec == Init /\ [][Next]_vars

Symmetric == UNION {Permutations(S) : S \in {ApiProcesses, Workers, Sweepers}}

-----------------------------------------------------------------------------
(* Properties *)

\* The three outboxes keep their types and the CHECK constraints of their
\* tables.
DispatchTypeOK == RunDispatchTypeOK /\ DemandDispatchTypeOK /\ RetryDispatchTypeOK /\ ClaimsFitStatus

\* Work that was committed is in an outbox, in the broker or with a worker, in
\* every order of publications, claims, leases, refusals and deaths: a run to be
\* planned, a recruiter's request to be submitted, requests to be tried again.
NothingIsForgotten == QueuedRunIsOnItsWay /\ DemandIsOnItsWay /\ RetriedWorkIsDurable
=============================================================================
