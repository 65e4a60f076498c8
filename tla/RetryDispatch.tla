---------------------------- MODULE RetryDispatch ----------------------------
(***************************************************************************)
(* The durable retry of enrich_run (sourcing/tasks.py 979-1330, migration   *)
(* 0016).  A pass that leaves requests queued or submitting stages a new    *)
(* generation in the row of its run, publishes it with a delay and marks it *)
(* as published; the delivered message claims its generation for fifteen    *)
(* minutes and completes it or stages the next one.  Maintenance publishes  *)
(* again whatever is due.  Workers die, the broker refuses, the database    *)
(* fails, and the connection that holds the enrichment execution lock may   *)
(* be lost while its worker goes on.                                        *)
(***************************************************************************)
EXTENDS Naturals, DispatchClaims

CONSTANTS
  OnDemandToo,    \* whether enrich_request also holds the execution lock
  MaxGenerations  \* bound: retries the provider makes necessary

ASSUME RetryAssumption ==
  /\ MaxFaults \in Nat /\ MaxGenerations \in Nat
  /\ OnDemandToo \in BOOLEAN
  /\ NoOne \notin Workers \cup Sweepers

VARIABLES
  retry,       \* the EnrichmentRetryDispatch row
  deferred,    \* whether requests wait for another pass: unknown before the first one
  enrichQueue, \* generations with a message in the broker; 0 is match_run's message
  retrier,     \* worker -> place, generation of its message and of its schedule
  retryLock,   \* the worker that holds the enrichment execution lock
  retrySweep,  \* maintenance task -> place and generation
  retryFaults  \* history

retryVars == <<retry, deferred, enrichQueue, retrier, retryLock, retrySweep, retryFaults>>

ActiveRetries == {"pending", "published", "claimed"}
Generations == 0..MaxGenerations
IdleRetrier == [at |-> "idle", message |-> 0, staged |-> 0]

\* `young` says that the claim is less than fifteen minutes old.
RetryDispatchInit ==
  /\ retry = [gen |-> 0, status |-> "none", holder |-> NoOne, young |-> FALSE, due |-> FALSE]
  /\ deferred = "unranked"
  /\ enrichQueue = {}
  /\ retrier = [w \in Workers |-> IdleRetrier]
  /\ retryLock = NoOne
  /\ retrySweep = [s \in Sweepers |-> [at |-> "idle", gen |-> 0]]
  /\ retryFaults = 0

RetryFault == retryFaults < MaxFaults /\ retryFaults' = retryFaults + 1

\* What each worker action but the first and the last leaves alone.
Within == UNCHANGED <<enrichQueue, retryLock, retrySweep, retryFaults>>

Proceed(w, at) == retrier' = [retrier EXCEPT ![w].at = at]

\* The task returns: its message is acknowledged and the lock is free.
Return(w) ==
  /\ retrier' = [retrier EXCEPT ![w] = IdleRetrier]
  /\ retryLock' = IF retryLock = w THEN NoOne ELSE retryLock

\* A slip: the claim stays.
KeepsClaim(row) == row

Unclaimed(row) == [row EXCEPT !.holder = NoOne, !.young = FALSE]
ClaimedBy(row, h) == [row EXCEPT !.holder = h, !.young = TRUE]

-----------------------------------------------------------------------------
(* enrich_run                                                               *)

\* match_run publishes the first message.
MatchDone ==
  /\ deferred = "unranked" /\ deferred' = "maybe"
  /\ enrichQueue' = {0}
  /\ UNCHANGED <<retry, retrier, retryLock, retrySweep, retryFaults>>

\* Maintenance may have published the generation of the row more than once.
TakeRetry(w, g) ==
  /\ retrier[w].at = "idle" /\ g \in enrichQueue
  /\ \/ enrichQueue' = enrichQueue \ {g}
     \/ g # 0 /\ g = retry.gen /\ UNCHANGED enrichQueue
  /\ \/ \* busy: the message is dropped
        (retryLock # NoOne \/ OnDemandToo) /\ UNCHANGED <<retrier, retryLock>>
     \/ /\ retryLock = NoOne /\ retryLock' = w
        /\ retrier' = [retrier EXCEPT ![w] = [at |-> "claim", message |-> g, staged |-> 0]]
  /\ UNCHANGED <<retry, deferred, retrySweep, retryFaults>>

\* A first message: _has_active_enrichment_retry.
BeginFresh(w) ==
  /\ retrier[w].at = "claim" /\ retrier[w].message = 0
  /\ IF retry.status \in ActiveRetries THEN Return(w)
                                       ELSE Proceed(w, "pass") /\ UNCHANGED retryLock
  /\ UNCHANGED <<retry, deferred, enrichQueue, retrySweep, retryFaults>>

Deliverable(g) ==
  /\ retry.gen = g /\ retry.due
  /\ \/ retry.status \in {"pending", "published"}
     \/ retry.status = "claimed" /\ ~ retry.young

\* _claim_enrichment_retry_delivery; a stale message is dropped.
BeginRetry(w) ==
  /\ retrier[w].at = "claim" /\ retrier[w].message # 0
  /\ IF Deliverable(retrier[w].message)
     THEN /\ retry' = ClaimedBy([retry EXCEPT !.status = "claimed"], w)
          /\ Proceed(w, "pass") /\ UNCHANGED retryLock
     ELSE Return(w) /\ UNCHANGED retry
  /\ UNCHANGED <<deferred, enrichQueue, retrySweep, retryFaults>>

\* enqueue_top_enrichment: some requests wait for later, or none does any more.
Pass(w) ==
  /\ retrier[w].at = "pass"
  /\ \/ /\ deferred # "no" /\ retry.gen < MaxGenerations
        /\ deferred' = "yes" /\ Proceed(w, "stage")
     \/ deferred' = "no" /\ Proceed(w, "complete")
  /\ UNCHANGED retry /\ Within

HoldsDelivery(w) ==
  retry.gen = retrier[w].message /\ retry.status = "claimed" /\ retry.holder = w

\* _stage_enrichment_retry.  A first pass whose lock was lost may find a retry
\* that another one staged for the same requests, and publish that.
Stage(w) ==
  LET Staged == [gen |-> retry.gen + 1, status |-> "pending", holder |-> NoOne,
                 young |-> FALSE, due |-> FALSE]
      Adopts == retrier[w].message = 0 /\ retry.status \in {"pending", "published"}
      Schedule(g) == retrier' = [retrier EXCEPT ![w].at = "claim_publish", ![w].staged = g]
  IN
  /\ retrier[w].at = "stage"
  /\ \/ Adopts /\ Schedule(retry.gen) /\ UNCHANGED <<retry, retryLock>>
     \/ /\ retrier[w].message = 0 \/ HoldsDelivery(w)
        /\ retry.gen < MaxGenerations
        /\ retry' = Staged /\ Schedule(retry.gen + 1) /\ UNCHANGED retryLock
     \/ /\ retrier[w].message # 0 /\ ~ HoldsDelivery(w)
        /\ Return(w) /\ UNCHANGED retry
  /\ UNCHANGED <<deferred, enrichQueue, retrySweep, retryFaults>>

\* _claim_retry_publish
ClaimPublish(w) ==
  /\ retrier[w].at = "claim_publish"
  /\ IF retry.gen = retrier[w].staged /\ retry.status = "pending" /\ ~ retry.young
     THEN retry' = ClaimedBy(retry, w) /\ Proceed(w, "send") /\ UNCHANGED retryLock
     ELSE Return(w) /\ UNCHANGED retry
  /\ UNCHANGED <<deferred, enrichQueue, retrySweep, retryFaults>>

SendRetry(w) ==
  /\ retrier[w].at = "send"
  /\ enrichQueue' = enrichQueue \cup {retrier[w].staged}
  /\ Proceed(w, "published")
  /\ UNCHANGED <<retry, deferred, retryLock, retrySweep, retryFaults>>

SendOutage(w) ==
  /\ retrier[w].at = "send" /\ RetryFault
  /\ Proceed(w, "unpublished")
  /\ UNCHANGED <<retry, deferred, enrichQueue, retryLock, retrySweep>>

\* A slip: the status is not compared.
PublishesGeneration(h, g) == retry.gen = g

HoldsPublish(h, g) == retry.gen = g /\ retry.status = "pending" /\ retry.holder = h

PublishFinished(h, g, sent) ==
  retry' = IF ~ HoldsPublish(h, g) THEN retry
           ELSE Unclaimed(IF sent THEN [retry EXCEPT !.status = "published"] ELSE retry)

\* _finish_retry_publish
FinishPublish(w) ==
  /\ retrier[w].at \in {"published", "unpublished"}
  /\ PublishFinished(w, retrier[w].staged, retrier[w].at = "published")
  /\ Return(w)
  /\ UNCHANGED <<deferred, enrichQueue, retrySweep, retryFaults>>

\* _complete_enrichment_retry_delivery
CompleteRetry(w) ==
  /\ retrier[w].at = "complete"
  /\ retry' = IF retrier[w].message # 0 /\ HoldsDelivery(w)
              THEN Unclaimed([retry EXCEPT !.status = "completed"]) ELSE retry
  /\ Return(w)
  /\ UNCHANGED <<deferred, enrichQueue, retrySweep, retryFaults>>

\* A lost worker: its message is delivered again.
RetrierDies(w) ==
  /\ retrier[w].at # "idle" /\ RetryFault
  /\ enrichQueue' = enrichQueue \cup {retrier[w].message}
  /\ Return(w)
  /\ UNCHANGED <<retry, deferred, retrySweep>>

ReleasedRetry(row) == Unclaimed([row EXCEPT !.status = "published"])

\* An OperationalError inside the pass: _release_enrichment_retry_delivery, then
\* Celery publishes the message again.
PassFails(w) ==
  /\ retrier[w].at \notin {"idle", "claim"} /\ RetryFault
  /\ retry' = IF retrier[w].message # 0 /\ HoldsDelivery(w)
              THEN ReleasedRetry(retry) ELSE retry
  /\ enrichQueue' = enrichQueue \cup {retrier[w].message}
  /\ Return(w)
  /\ UNCHANGED <<deferred, retrySweep>>

\* PostgreSQL drops the advisory lock with its connection.
LockLost ==
  /\ retryLock # NoOne /\ RetryFault
  /\ retryLock' = NoOne
  /\ UNCHANGED <<retry, deferred, enrichQueue, retrier, retrySweep>>

-----------------------------------------------------------------------------
(* maintenance_claim_pending_enrichment_retries and what follows it         *)

Recoverable ==
  /\ retry.due
  /\ \/ retry.status \in {"pending", "claimed"} /\ ~ retry.young
     \/ retry.status = "published"

ClaimRetry(s) ==
  /\ retrySweep[s].at = "idle" /\ Recoverable
  /\ retry' = ClaimedBy([retry EXCEPT !.status = "pending"], s)
  /\ retrySweep' = [retrySweep EXCEPT ![s] = [at |-> "publish", gen |-> retry.gen]]
  /\ UNCHANGED <<deferred, enrichQueue, retrier, retryLock, retryFaults>>

PublishRetry(s) ==
  /\ retrySweep[s].at = "publish"
  /\ enrichQueue' = enrichQueue \cup {retrySweep[s].gen}
  /\ retrySweep' = [retrySweep EXCEPT ![s].at = "complete"]
  /\ UNCHANGED <<retry, deferred, retrier, retryLock, retryFaults>>

RetryOutage(s) ==
  /\ retrySweep[s].at = "publish" /\ RetryFault
  /\ retrySweep' = [retrySweep EXCEPT ![s].at = "release"]
  /\ UNCHANGED <<retry, deferred, enrichQueue, retrier, retryLock>>

FinishRetry(s) ==
  /\ retrySweep[s].at \in {"complete", "release"}
  /\ PublishFinished(s, retrySweep[s].gen, retrySweep[s].at = "complete")
  /\ retrySweep' = [retrySweep EXCEPT ![s] = [at |-> "idle", gen |-> 0]]
  /\ UNCHANGED <<deferred, enrichQueue, retrier, retryLock, retryFaults>>

RetrySweepDies(s) ==
  /\ retrySweep[s].at # "idle" /\ RetryFault
  /\ retrySweep' = [retrySweep EXCEPT ![s] = [at |-> "idle", gen |-> 0]]
  /\ UNCHANGED <<retry, deferred, enrichQueue, retrier, retryLock>>

\* not_before is reached; fifteen minutes have passed since the claim.
RetryDue ==
  /\ retry.status \in ActiveRetries /\ ~ retry.due
  /\ retry' = [retry EXCEPT !.due = TRUE]
  /\ UNCHANGED <<deferred, enrichQueue, retrier, retryLock, retrySweep, retryFaults>>

RetryLeaseEnds ==
  /\ retry.young
  /\ retry' = [retry EXCEPT !.young = FALSE]
  /\ UNCHANGED <<deferred, enrichQueue, retrier, retryLock, retrySweep, retryFaults>>

-----------------------------------------------------------------------------

EnrichRun(w) ==
  \/ BeginFresh(w) \/ BeginRetry(w) \/ Pass(w) \/ Stage(w)
  \/ ClaimPublish(w) \/ SendRetry(w) \/ FinishPublish(w) \/ CompleteRetry(w)

SweepRetry(s) == ClaimRetry(s) \/ PublishRetry(s) \/ FinishRetry(s)

RetryDispatchNext ==
  \/ \E w \in Workers : \/ \E g \in Generations : TakeRetry(w, g)
                             \/ EnrichRun(w) \/ SendOutage(w)
                             \/ RetrierDies(w) \/ PassFails(w)
  \/ \E s \in Sweepers : SweepRetry(s) \/ RetryOutage(s) \/ RetrySweepDies(s)
  \/ MatchDone \/ LockLost \/ RetryDue \/ RetryLeaseEnds

\* Workers work, maintenance runs every minute, time passes; a message that is
\* published again every minute is delivered at last to a worker that finds the
\* lock free and the retry due; six attempts and a deadline settle every request,
\* whether or not a pass outlives its claim.
RetryDispatchFairness ==
  /\ \A w \in Workers :
       /\ WF_retryVars(EnrichRun(w))
       /\ SF_retryVars(Pass(w) /\ deferred' = "no")
       /\ \A g \in Generations : SF_retryVars(TakeRetry(w, g) /\ retrier'[w].at = "claim"
                                              /\ (g = 0 \/ Deliverable(g)))
  /\ \A s \in Sweepers : WF_retryVars(SweepRetry(s))
  /\ WF_retryVars(RetryDue) /\ WF_retryVars(RetryLeaseEnds)

RetryDispatchSpec == RetryDispatchInit /\ [][RetryDispatchNext]_retryVars

-----------------------------------------------------------------------------
(* Properties *)

RetryRows ==
  [gen : Generations, status : ActiveRetries \cup {"none", "completed"},
   holder : Workers \cup Sweepers \cup {NoOne}, young : BOOLEAN, due : BOOLEAN]

RetrierPlaces == {"idle", "claim", "pass", "stage", "claim_publish", "send", "published",
                  "unpublished", "complete"}
Retriers == [at : RetrierPlaces, message : Generations, staged : Generations]

\* Every variable of the retry dispatch keeps its type.
RetryDispatchTypeOK ==
  /\ retry \in RetryRows
  /\ deferred \in {"unranked", "maybe", "yes", "no"}
  /\ enrichQueue \subseteq Generations
  /\ retrier \in [Workers -> Retriers]
  /\ retryLock \in Workers \cup {NoOne}
  /\ retrySweep \in [Sweepers -> [at : {"idle", "publish", "complete", "release"},
                                  gen : Generations]]
  /\ retryFaults \in 0..MaxFaults

\* The CHECK constraints of migration 0016: a claimed row has a token, and only a
\* pending or claimed row has one.
ClaimsFitStatus ==
  /\ retry.status = "claimed" => retry.holder # NoOne
  /\ retry.holder # NoOne => retry.status \in {"pending", "claimed"}

\* While requests wait for another pass, the row is active, the first message is
\* still to be delivered, or a first pass is under way: whatever dies, no retry
\* is forgotten.
RetriedWorkIsDurable ==
  deferred = "yes" => \/ retry.status \in ActiveRetries \/ 0 \in enrichQueue
                      \/ \E w \in Workers : retrier[w].at # "idle" /\ retrier[w].message = 0

\* A completed generation stays completed: a late confirmation of a publication,
\* a stale message or an expired claim does not bring it back.
CompletedStaysCompleted ==
  [][retry.status = "completed" => retry' = retry \/ retry'.gen > retry.gen]_retryVars

\* Requests that wait for another pass are settled at last.
RetriesEnd == deferred = "yes" ~> deferred = "no"
=============================================================================
