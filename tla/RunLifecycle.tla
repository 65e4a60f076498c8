---------------------------- MODULE RunLifecycle ----------------------------
(***************************************************************************)
(* What a sourcing run promises to its recruiter, without the broker, the   *)
(* workers, the checkpoints or the retries: the state moves only along      *)
(* ALLOWED_TRANSITIONS, results are only added, a run is handed to          *)
(* enrichment at the moment every candidate found so far is scored, and a   *)
(* cancelled run never changes again.  RunPipeline implements this.         *)
(***************************************************************************)
EXTENDS Naturals, FiniteSets, RunStateMachine

CONSTANTS Runs,           \* sourcing runs
          Candidates,     \* resolved candidate identities of the agency
          MaxCandidates   \* _MAX_RUN_CANDIDATES

VARIABLES state,          \* run -> RunState
          found,          \* run -> candidates recorded for the run
          scored          \* run -> candidates of the run that have a score

vars == <<state, found, scored>>

Init ==
  /\ state = [r \in Runs |-> "queued"]
  /\ found = [r \in Runs |-> {}]
  /\ scored = [r \in Runs |-> {}]

MoveTo(r, target) ==
  /\ CanMove(state[r], target)
  /\ state' = [state EXCEPT ![r] = target]
  /\ UNCHANGED <<found, scored>>

\* A page of search results is committed.
Collect(r) ==
  /\ state[r] \notin {"queued", "cancelled"}
  /\ \E more \in SUBSET Candidates :
       /\ found[r] \subseteq more
       /\ Cardinality(more) <= MaxCandidates
       /\ found' = [found EXCEPT ![r] = more]
  /\ UNCHANGED <<state, scored>>

\* The search ends with something to rank.
SearchSucceeds(r) ==
  /\ found[r] # {}
  /\ MoveTo(r, "matching")

\* A batch of candidates is scored.
Score(r) ==
  /\ state[r] \in {"matching", "partially_ready"}
  /\ \E more \in SUBSET found[r] :
       /\ scored[r] \subseteq more
       /\ scored' = [scored EXCEPT ![r] = more]
  /\ UNCHANGED <<state, found>>

\* The ranked list is handed to enrichment.
Rank(r) ==
  /\ scored[r] = found[r]
  /\ MoveTo(r, "enriching")

\* Every other move: plan, stop early, complete, fail, cancel.
OtherMove(r) == \E target \in RunStates \ {"matching", "enriching"} :
                  MoveTo(r, target)

Next == \E r \in Runs : \/ Collect(r) \/ SearchSucceeds(r) \/ Score(r)
                        \/ Rank(r) \/ OtherMove(r)

Spec == Init /\ [][Next]_vars
=============================================================================
