--------------------------- MODULE DemandDispatch ---------------------------
(***************************************************************************)
(* Getting the enrichment a recruiter asked for to a worker that holds the  *)
(* enrichment execution lock: SourcingService.queue_on_demand_enrichment    *)
(* and its endpoint, the maintenance functions of migrations 0012 and 0017, *)
(* the task enrich_request and execute_queued_enrichment_request.           *)
(*                                                                         *)
(* A task that meets a busy lock or a request that is not due gives its     *)
(* message up and puts the request back into the outbox, while the API or a *)
(* maintenance task that published that message may not yet have marked it  *)
(* as dispatched.  What a submission costs and answers is in Enrichment.    *)
(***************************************************************************)
EXTENDS Naturals, DispatchClaims

CONSTANTS
  DemandRequests, \* on-demand requests of one run
  MaxLimits       \* rate limits until a request fails

ASSUME DemandAssumption == MaxLimits \in Nat \ {0} /\ NoItem \notin DemandRequests

VARIABLES
  demand,      \* EnrichmentRequest rows: status, due, tries, dispatch columns
  asking,      \* API process -> its place and its request
  demandSweep, \* maintenance task -> the claims it has still to publish
  demandLease, \* holder -> requests whose claim is less than five minutes old
  asked,       \* requests of which the broker holds one message or more
  exec,        \* worker -> its place and its request
  demandFaults \* history

demandVars == <<demand, asking, demandSweep, demandLease, asked, exec, demandFaults>>

Holders == ApiProcesses \cup Sweepers
Open == {"queued", "submitting"}
IdleAsking == [at |-> "idle", request |-> NoItem]

\* Where a worker holds the enrichment execution lock of the run.
ExecLocked == {"check", "call", "record", "requeue_locked"}

DemandDispatchInit ==
  /\ demand = [d \in DemandRequests |->
                 [status |-> "none", due |-> TRUE, tries |-> 0, claim |-> NoClaim]]
  /\ asking = [a \in ApiProcesses |-> IdleAsking]
  /\ demandSweep = [s \in Sweepers |-> NoSweep]
  /\ demandLease = [h \in Holders |-> {}]
  /\ asked = {}
  /\ exec = [w \in Workers |-> IdleAsking]
  /\ demandFaults = 0

Fault == demandFaults < MaxFaults /\ demandFaults' = demandFaults + 1

-----------------------------------------------------------------------------
(* POST /job-candidates/{id}/enrich: one transaction creates the request or *)
(* finds it, and claims its dispatch if it can.                             *)

\* A repeated key, and an active request, give the request that exists.
Ask(a, d) ==
  LET row == IF demand[d].status = "none"
             THEN [demand[d] EXCEPT !.status = "queued", !.claim.pending = TRUE]
             ELSE demand[d] IN
  /\ asking[a].at = "idle"
  /\ Claimable(row.claim, demandLease, d)
  /\ demand' = [demand EXCEPT ![d] = [row EXCEPT !.claim = Claimed(@, a)]]
  /\ asking' = [asking EXCEPT ![a] = [at |-> "publish", request |-> d]]
  /\ demandLease' = [demandLease EXCEPT ![a] = @ \cup {d}]
  /\ UNCHANGED <<demandSweep, asked, exec, demandFaults>>

PublishDemand(a) ==
  /\ asking[a].at = "publish"
  /\ asked' = asked \cup {asking[a].request}
  /\ asking' = [asking EXCEPT ![a].at = "complete"]
  /\ UNCHANGED <<demand, demandSweep, demandLease, exec, demandFaults>>

DemandOutage(a) ==
  /\ asking[a].at = "publish" /\ Fault
  /\ asking' = [asking EXCEPT ![a].at = "release"]
  /\ UNCHANGED <<demand, demandSweep, demandLease, asked, exec>>

\* finish_enrichment_dispatch, published or not.
FinishDemand(a) ==
  LET d == asking[a].request IN
  /\ \/ asking[a].at = "complete" /\ demand' = [demand EXCEPT ![d].claim = Completed(@, a)]
     \/ asking[a].at = "release" /\ demand' = [demand EXCEPT ![d].claim = Released(@, a)]
  /\ asking' = [asking EXCEPT ![a] = IdleAsking]
  /\ demandLease' = [demandLease EXCEPT ![a] = @ \ {d}]
  /\ UNCHANGED <<demandSweep, asked, exec, demandFaults>>

AskerDies(a) ==
  /\ asking[a].at # "idle" /\ Fault
  /\ asking' = [asking EXCEPT ![a] = IdleAsking]
  /\ UNCHANGED <<demand, demandSweep, demandLease, asked, exec>>

-----------------------------------------------------------------------------
(* maintenance.recover_sourcing_dispatches, its second part.                *)

Waits(row) == row.status \in Open /\ row.due

\* A request is claimed only when a worker could do something with it.
ClaimDemands(s) ==
  LET ready == {d \in DemandRequests : Waits(demand[d])
                                       /\ Claimable(demand[d].claim, demandLease, d)} IN
  /\ demandSweep[s] = NoSweep /\ ready # {}
  /\ demand' = [d \in DemandRequests |->
                  IF d \in ready THEN [demand[d] EXCEPT !.claim = Claimed(@, s)]
                                 ELSE demand[d]]
  /\ demandSweep' = [demandSweep EXCEPT ![s] = SweepOf(ready)]
  /\ demandLease' = [demandLease EXCEPT ![s] = @ \cup ready]
  /\ UNCHANGED <<asking, asked, exec, demandFaults>>

PublishClaimed(s) ==
  /\ demandSweep[s].at = "publish"
  /\ \E d \in demandSweep[s].left :
       /\ asked' = asked \cup {d}
       /\ demandSweep' = [demandSweep EXCEPT ![s] = Sent(@, d)]
  /\ UNCHANGED <<demand, asking, demandLease, exec, demandFaults>>

ClaimedOutage(s) ==
  /\ demandSweep[s].at = "publish" /\ demandSweep[s].left # {} /\ Fault
  /\ \E d \in demandSweep[s].left : demandSweep' = [demandSweep EXCEPT ![s] = Refused(@, d)]
  /\ UNCHANGED <<demand, asking, demandLease, asked, exec>>

FinishClaimed(s) ==
  LET d == demandSweep[s].item IN
  /\ \/ demandSweep[s].at = "complete"
        /\ demand' = [demand EXCEPT ![d].claim = Completed(@, s)]
     \/ demandSweep[s].at = "release"
        /\ demand' = [demand EXCEPT ![d].claim = Released(@, s)]
  /\ demandSweep' = [demandSweep EXCEPT ![s] = Finished(@)]
  /\ demandLease' = [demandLease EXCEPT ![s] = @ \ {d}]
  /\ UNCHANGED <<asking, asked, exec, demandFaults>>

DemandSweepDies(s) ==
  /\ demandSweep[s] # NoSweep /\ Fault
  /\ demandSweep' = [demandSweep EXCEPT ![s] = NoSweep]
  /\ UNCHANGED <<demand, asking, demandLease, asked, exec>>

\* Five minutes have passed since the claim.
DemandLeaseEnds(h, d) ==
  /\ d \in demandLease[h]
  /\ demandLease' = [demandLease EXCEPT ![h] = @ \ {d}]
  /\ UNCHANGED <<demand, asking, demandSweep, asked, exec, demandFaults>>

-----------------------------------------------------------------------------
(* enrich_request.  Its message is unacknowledged until it is idle again.   *)

Step(w, at, d) == exec' = [exec EXCEPT ![w] = [at |-> at, request |-> d]]
Leave(w) == exec' = [exec EXCEPT ![w] = IdleAsking]
Over(row) == [row EXCEPT !.status = "over", !.claim = NoClaim]

\* The lock may also be held by the run's own enrich_run.
TakeDemand(w, d) ==
  /\ exec[w].at = "idle" /\ d \in asked
  /\ asked' \in {asked, asked \ {d}}
  /\ \/ Step(w, "requeue", d)
     \/ (\A v \in Workers : exec[v].at \notin ExecLocked) /\ Step(w, "check", d)
  /\ UNCHANGED <<demand, asking, demandSweep, demandLease, demandFaults>>

\* The first transaction of execute_queued_enrichment_request.
CheckDemand(w) ==
  LET d == exec[w].request
      row == demand[d] IN
  /\ exec[w].at = "check"
  /\ \/ \* answered already
        row.status = "over" /\ Leave(w) /\ UNCHANGED demand
     \/ \* rate-limited until later, or submitted by a worker that was lost
        row.status \in Open /\ ~ row.due /\ Step(w, "requeue_locked", d) /\ UNCHANGED demand
     \/ \* its deadline passed; or cancelled, unknown to the provider, or switched off
        /\ (row.status = "submitting" /\ row.due) \/ row.status = "queued"
        /\ demand' = [demand EXCEPT ![d] = Over(@)] /\ Leave(w)
     \/ /\ row.status = "queued" /\ row.due
        /\ demand' = [demand EXCEPT ![d].status = "submitting", ![d].due = FALSE]
        /\ Step(w, "call", d)
  /\ UNCHANGED <<asking, demandSweep, demandLease, asked, demandFaults>>

\* The provider accepts, refuses for good, asks for patience, or no answer comes.
CallProvider(w) ==
  LET d == exec[w].request IN
  /\ exec[w].at = "call"
  /\ \/ Step(w, "record", d) /\ UNCHANGED demand
     \/ /\ demand[d].tries + 1 < MaxLimits /\ Step(w, "requeue_locked", d)
        /\ demand' = [demand EXCEPT ![d].status = "queued", ![d].tries = @ + 1]
     \/ /\ demand[d].tries + 1 >= MaxLimits /\ Leave(w)
        /\ demand' = [demand EXCEPT ![d] = Over(@)]
     \/ Step(w, "requeue_locked", d) /\ UNCHANGED demand
  /\ UNCHANGED <<asking, demandSweep, demandLease, asked, demandFaults>>

\* _record_receipt and _fail_request, whose request a webhook may have ended.
RecordAnswer(w) ==
  LET d == exec[w].request IN
  /\ exec[w].at = "record"
  /\ demand' = [demand EXCEPT ![d] = Over(@)]
  /\ Leave(w)
  /\ UNCHANGED <<asking, demandSweep, demandLease, asked, demandFaults>>

\* _requeue_enrichment_dispatch: pending again, and nobody's.
PutBack(row) == [row EXCEPT !.claim = [pending |-> row.status \in Open, holder |-> NoOne]]

Requeue(w) ==
  LET d == exec[w].request IN
  /\ exec[w].at \in {"requeue", "requeue_locked"}
  /\ demand' = [demand EXCEPT ![d] = PutBack(@)]
  /\ Leave(w)
  /\ UNCHANGED <<asking, demandSweep, demandLease, asked, demandFaults>>

\* A lost worker, or a database error: the message is delivered again.
ExecDies(w) ==
  /\ exec[w].at # "idle" /\ Fault
  /\ asked' = asked \cup {exec[w].request}
  /\ Leave(w)
  /\ UNCHANGED <<demand, asking, demandSweep, demandLease>>

-----------------------------------------------------------------------------
(* Time, and what ends a request elsewhere.                                 *)

\* poll_after or stage_deadline is reached.
BecomesDue(d) ==
  /\ demand[d].status \in Open /\ ~ demand[d].due
  /\ demand' = [demand EXCEPT ![d].due = TRUE]
  /\ UNCHANGED <<asking, demandSweep, demandLease, asked, exec, demandFaults>>

\* A webhook answers a submission the provider has seen; the dispatch columns stay.
Webhook(d) ==
  /\ demand[d].status = "submitting"
  /\ \A w \in Workers : ~ (exec[w].at = "call" /\ exec[w].request = d)
  /\ demand' = [demand EXCEPT ![d].status = "over"]
  /\ UNCHANGED <<asking, demandSweep, demandLease, asked, exec, demandFaults>>

\* fail_active_enrichment_requests of the run's enrich_run, under the lock.
SweptOff(d) ==
  /\ demand[d].status \in Open
  /\ \A w \in Workers : exec[w].at \notin ExecLocked
  /\ demand' = [demand EXCEPT ![d] = Over(@)]
  /\ UNCHANGED <<asking, demandSweep, demandLease, asked, exec, demandFaults>>

-----------------------------------------------------------------------------

AskRequest(a) == PublishDemand(a) \/ FinishDemand(a)
SweepDemands(s) == ClaimDemands(s) \/ PublishClaimed(s) \/ FinishClaimed(s)
WorkOn(w) == CheckDemand(w) \/ CallProvider(w) \/ RecordAnswer(w) \/ Requeue(w)

DemandDispatchNext ==
  \/ \E a \in ApiProcesses : \/ \E d \in DemandRequests : Ask(a, d)
                       \/ AskRequest(a) \/ DemandOutage(a) \/ AskerDies(a)
  \/ \E s \in Sweepers : SweepDemands(s) \/ ClaimedOutage(s) \/ DemandSweepDies(s)
  \/ \E h \in Holders, d \in DemandRequests : DemandLeaseEnds(h, d)
  \/ \E w \in Workers : \/ \E d \in DemandRequests : TakeDemand(w, d)
                          \/ WorkOn(w) \/ ExecDies(w)
  \/ \E d \in DemandRequests : BecomesDue(d) \/ Webhook(d) \/ SweptOff(d)

\* The scheduler starts maintenance every minute, leases and delays pass, workers
\* work; a request that is taken again and again finds the lock free at last.
DemandDispatchFairness ==
  /\ \A s \in Sweepers : WF_demandVars(SweepDemands(s))
  /\ \A h \in Holders, d \in DemandRequests : WF_demandVars(DemandLeaseEnds(h, d))
  /\ \A d \in DemandRequests : WF_demandVars(BecomesDue(d))
  /\ \A w \in Workers : /\ WF_demandVars(WorkOn(w))
                          /\ \A d \in DemandRequests :
                               SF_demandVars(TakeDemand(w, d) /\ exec'[w].at = "check")

DemandDispatchSpec == DemandDispatchInit /\ [][DemandDispatchNext]_demandVars

-----------------------------------------------------------------------------
(* Properties *)

\* Every variable of dispatching on-demand requests keeps its type.
DemandDispatchTypeOK ==
  /\ demand \in [DemandRequests ->
       [status : {"none", "queued", "submitting", "over"}, due : BOOLEAN,
        tries : 0..MaxLimits - 1, claim : [pending : BOOLEAN, holder : Holders \cup {NoOne}]]]
  /\ asking \in [ApiProcesses -> [at : {"idle", "publish", "complete", "release"},
                            request : DemandRequests \cup {NoItem}]]
  /\ demandSweep \in [Sweepers -> Sweeps(DemandRequests)]
  /\ demandLease \in [Holders -> SUBSET DemandRequests]
  /\ asked \subseteq DemandRequests
  /\ exec \in [Workers -> [at : ExecLocked \cup {"idle", "requeue"},
                             request : DemandRequests \cup {NoItem}]]
  /\ demandFaults \in 0..MaxFaults

\* A request that is not answered is in the outbox, in the broker or with a
\* worker: a task that puts it back is not overruled by whoever published it.
DemandIsOnItsWay ==
  \A d \in DemandRequests :
    demand[d].status \in Open => \/ demand[d].claim.pending \/ d \in asked
                                 \/ \E w \in Workers : exec[w].request = d

\* Every request a recruiter has made ends, without anybody asking again.
DemandsEnd ==
  \A d \in DemandRequests : demand[d].status \in Open ~> demand[d].status = "over"
=============================================================================
