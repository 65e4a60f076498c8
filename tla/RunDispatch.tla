----------------------------- MODULE RunDispatch -----------------------------
(***************************************************************************)
(* Starting a run of a job and getting its plan_run message to a worker:    *)
(* SourcingService.start_with_outcome and the endpoint start_run, the three *)
(* maintenance functions of migration 0011 and the minutely task of         *)
(* sourcing/dispatch_recovery.py.                                           *)
(*                                                                         *)
(* A run is committed with dispatch_pending, published after the commit and *)
(* marked as dispatched in a third step.  Requests and maintenance tasks    *)
(* may die between any two steps, the broker may refuse a publication, and  *)
(* a lease may run out while its holder is only slow.                       *)
(***************************************************************************)
EXTENDS Naturals, FiniteSets, RunStateMachine, DispatchClaims

CONSTANTS
  Runs,          \* names of the runs of one job
  StartKeys,     \* Idempotency-Keys the recruiters use
  LastScorecard  \* bound: scorecard versions confirmed

ASSUME RunDispatchAssumption == LastScorecard \in Nat \ {0} /\ NoItem \notin Runs

VARIABLES
  scorecard,   \* version of Job.current_scorecard_id
  run,         \* SourcingRun rows: version, state, dispatch columns
  answer,      \* key -> the run its idempotency record names
  start,       \* API process -> its place and its run
  sweep,       \* maintenance task -> the claims it has still to publish
  runLease,    \* holder -> runs whose claim is less than five minutes old
  planned,     \* runs of which the broker holds one plan_run message or more
  startFaults  \* history: refused publications and deaths

runDispatchVars == <<scorecard, run, answer, start, sweep, runLease, planned, startFaults>>

RunRows == [version : 0..LastScorecard, state : RunStates,
            claim : [pending : BOOLEAN, holder : Sweepers \cup {NoOne}]]

Started == {r \in Runs : run[r].version # 0}
IdleStart == [at |-> "idle", run |-> NoItem]

\* A slip: a version that was run before may be run again.
ActiveRunsOnly == {r \in Started : run[r].version = scorecard
                                   /\ run[r].state \in ActiveStates}

RunsOfScorecard == {r \in Started : run[r].version = scorecard}

RunDispatchInit ==
  /\ scorecard = 1
  /\ run = [r \in Runs |-> [version |-> 0, state |-> "queued", claim |-> NoClaim]]
  /\ answer = [k \in StartKeys |-> NoItem]
  /\ start = [c \in ApiProcesses |-> IdleStart]
  /\ sweep = [s \in Sweepers |-> NoSweep]
  /\ runLease = [s \in Sweepers |-> {}]
  /\ planned = {}
  /\ startFaults = 0

-----------------------------------------------------------------------------
(* start_run: the transaction, then the publication, then the flag.  The    *)
(* job row is locked for the whole transaction, so it is one step; a        *)
(* request that is refused rolls back and changes nothing.                  *)

Dispatch(c, r) == start' = [start EXCEPT ![c] = [at |-> "publish", run |-> r]]

\* The key was used before: its run, dispatched again if that is still open.
ReplayStart(c, k) ==
  /\ start[c].at = "idle"
  /\ answer[k] # NoItem /\ run[answer[k]].claim.pending
  /\ Dispatch(c, answer[k])
  /\ UNCHANGED <<scorecard, run, answer, sweep, runLease, planned, startFaults>>

\* A new key meets an active run that was never dispatched.
AdoptRun(c, k) ==
  /\ start[c].at = "idle" /\ answer[k] = NoItem
  /\ \E r \in RunsOfScorecard :
       /\ run[r].state \in ActiveStates /\ run[r].claim.pending
       /\ answer' = [answer EXCEPT ![k] = r]
       /\ Dispatch(c, r)
  /\ UNCHANGED <<scorecard, run, sweep, runLease, planned, startFaults>>

CreateRun(c, k) ==
  /\ start[c].at = "idle" /\ answer[k] = NoItem
  /\ RunsOfScorecard = {}
  /\ \E r \in Runs \ Started :
       /\ run' = [run EXCEPT ![r] = [version |-> scorecard, state |-> "queued",
                                     claim |-> [NoClaim EXCEPT !.pending = TRUE]]]
       /\ answer' = [answer EXCEPT ![k] = r]
       /\ Dispatch(c, r)
  /\ UNCHANGED <<scorecard, sweep, runLease, planned, startFaults>>

PublishStart(c) ==
  /\ start[c].at = "publish"
  /\ planned' = planned \cup {start[c].run}
  /\ start' = [start EXCEPT ![c].at = "clear"]
  /\ UNCHANGED <<scorecard, run, answer, sweep, runLease, startFaults>>

\* The session does not look at the row again: it clears the flag, and leaves a
\* claim made since then where it is.
ClearStart(c) ==
  /\ start[c].at = "clear"
  /\ run' = [run EXCEPT ![start[c].run].claim.pending = FALSE]
  /\ start' = [start EXCEPT ![c] = IdleStart]
  /\ UNCHANGED <<scorecard, answer, sweep, runLease, planned, startFaults>>

\* The broker refuses: the request fails after the run was committed.
StartOutage(c) ==
  /\ start[c].at = "publish" /\ startFaults < MaxFaults
  /\ start' = [start EXCEPT ![c] = IdleStart]
  /\ startFaults' = startFaults + 1
  /\ UNCHANGED <<scorecard, run, answer, sweep, runLease, planned>>

StartDies(c) ==
  /\ start[c].at # "idle" /\ startFaults < MaxFaults
  /\ start' = [start EXCEPT ![c] = IdleStart]
  /\ startFaults' = startFaults + 1
  /\ UNCHANGED <<scorecard, run, answer, sweep, runLease, planned>>

-----------------------------------------------------------------------------
(* maintenance.recover_sourcing_dispatches: claim a batch, then publish and *)
(* finish one claim after the other.                                        *)

ClaimRuns(s) ==
  LET due == {r \in Started : Claimable(run[r].claim, runLease, r)} IN
  /\ sweep[s] = NoSweep /\ due # {}
  /\ run' = [r \in Runs |-> IF r \in due
                            THEN [run[r] EXCEPT !.claim = Claimed(@, s)] ELSE run[r]]
  /\ sweep' = [sweep EXCEPT ![s] = SweepOf(due)]
  /\ runLease' = [runLease EXCEPT ![s] = @ \cup due]
  /\ UNCHANGED <<scorecard, answer, start, planned, startFaults>>

PublishRun(s) ==
  /\ sweep[s].at = "publish"
  /\ \E r \in sweep[s].left :
       /\ planned' = planned \cup {r}
       /\ sweep' = [sweep EXCEPT ![s] = Sent(@, r)]
  /\ UNCHANGED <<scorecard, run, answer, start, runLease, startFaults>>

RunOutage(s) ==
  /\ sweep[s].at = "publish" /\ startFaults < MaxFaults
  /\ \E r \in sweep[s].left : sweep' = [sweep EXCEPT ![s] = Refused(@, r)]
  /\ startFaults' = startFaults + 1
  /\ UNCHANGED <<scorecard, run, answer, start, runLease, planned>>

\* The lease of this claim is over with it.
FinishRun(s) ==
  LET r == sweep[s].item IN
  /\ \/ sweep[s].at = "complete" /\ run' = [run EXCEPT ![r].claim = Completed(@, s)]
     \/ sweep[s].at = "release" /\ run' = [run EXCEPT ![r].claim = Released(@, s)]
  /\ sweep' = [sweep EXCEPT ![s] = Finished(@)]
  /\ runLease' = [runLease EXCEPT ![s] = @ \ {r}]
  /\ UNCHANGED <<scorecard, answer, start, planned, startFaults>>

SweepDies(s) ==
  /\ sweep[s] # NoSweep /\ startFaults < MaxFaults
  /\ sweep' = [sweep EXCEPT ![s] = NoSweep]
  /\ startFaults' = startFaults + 1
  /\ UNCHANGED <<scorecard, run, answer, start, runLease, planned>>

\* Five minutes have passed since the claim.
RunLeaseEnds(s, r) ==
  /\ r \in runLease[s]
  /\ runLease' = [runLease EXCEPT ![s] = @ \ {r}]
  /\ UNCHANGED <<scorecard, run, answer, start, sweep, planned, startFaults>>

-----------------------------------------------------------------------------
(* What else happens to a run: RunPipeline and JobService in outline.       *)

\* plan_run takes one message of the run, perhaps not the last one; a run that
\* is not queued stays as it is.
DeliverPlan(r) ==
  /\ r \in planned
  /\ planned' \in {planned, planned \ {r}}
  /\ run' = [run EXCEPT ![r].state = IF @ = "queued" THEN "sourcing" ELSE @]
  /\ UNCHANGED <<scorecard, answer, start, sweep, runLease, startFaults>>

\* The rest of the pipeline, or a recruiter, ends the run.
EndRun(r) ==
  /\ r \in Started /\ run[r].state \in ActiveStates
  /\ \E s \in {"partially_ready", "cancelled"} :
       CanMove(run[r].state, s) /\ run' = [run EXCEPT ![r].state = s]
  /\ UNCHANGED <<scorecard, answer, start, sweep, runLease, planned, startFaults>>

ConfirmScorecard ==
  /\ scorecard < LastScorecard /\ scorecard' = scorecard + 1
  /\ UNCHANGED <<run, answer, start, sweep, runLease, planned, startFaults>>

-----------------------------------------------------------------------------

StartRequest(c) == PublishStart(c) \/ ClearStart(c)
SweepRuns(s) == ClaimRuns(s) \/ PublishRun(s) \/ FinishRun(s)

RunDispatchNext ==
  \/ \E c \in ApiProcesses : \/ \E k \in StartKeys : ReplayStart(c, k) \/ AdoptRun(c, k)
                                                   \/ CreateRun(c, k)
                           \/ StartRequest(c) \/ StartOutage(c) \/ StartDies(c)
  \/ \E s \in Sweepers : \/ SweepRuns(s) \/ RunOutage(s) \/ SweepDies(s)
                         \/ \E r \in Runs : RunLeaseEnds(s, r)
  \/ \E r \in Runs : DeliverPlan(r) \/ EndRun(r)
  \/ ConfirmScorecard

\* The scheduler starts the maintenance task every minute, time passes, and a
\* worker takes the messages that wait.  Nobody has to repeat a request.
RunDispatchFairness ==
  /\ \A s \in Sweepers : WF_runDispatchVars(SweepRuns(s))
  /\ \A s \in Sweepers, r \in Runs : WF_runDispatchVars(RunLeaseEnds(s, r))
  /\ \A r \in Runs : WF_runDispatchVars(DeliverPlan(r))

RunDispatchSpec == RunDispatchInit /\ [][RunDispatchNext]_runDispatchVars

-----------------------------------------------------------------------------
(* Properties *)

\* Every variable of starting and dispatching runs keeps its type.
RunDispatchTypeOK ==
  /\ scorecard \in 1..LastScorecard
  /\ run \in [Runs -> RunRows]
  /\ answer \in [StartKeys -> Runs \cup {NoItem}]
  /\ start \in [ApiProcesses -> [at : {"idle", "publish", "clear"}, run : Runs \cup {NoItem}]]
  /\ sweep \in [Sweepers -> Sweeps(Runs)]
  /\ runLease \in [Sweepers -> SUBSET Runs]
  /\ planned \subseteq Runs
  /\ startFaults \in 0..MaxFaults

\* A committed run that no worker has planned yet is still marked for
\* dispatch, or its message is in the broker: no order of the publication, the
\* flag, the maintenance task, an outage and a death forgets it.
QueuedRunIsOnItsWay ==
  \A r \in Started : run[r].state = "queued" => run[r].claim.pending \/ r \in planned

\* Whatever keys recruiters use and repeat, a scorecard version is run once.
ScorecardIsRunOnce ==
  \A r, q \in Started : run[r].version = run[q].version => r = q

\* Every run that was committed is planned or ended, without anybody asking
\* again: maintenance makes up for outages and deaths.
QueuedRunsArePlanned ==
  \A r \in Runs : r \in Started /\ run[r].state = "queued" ~> run[r].state # "queued"
=============================================================================
