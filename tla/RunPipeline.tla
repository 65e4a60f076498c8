---------------------------- MODULE RunPipeline -----------------------------
(***************************************************************************)
(* The sourcing pipeline of a run: the Celery tasks plan_run, source_run,   *)
(* match_run and enrich_run of src/backend/app/sourcing/tasks.py, executed  *)
(* by workers that may crash, on a broker that delivers at least once.      *)
(*                                                                         *)
(* A step of a worker is one database transaction, one provider call, one   *)
(* publication or the acknowledgement; everything else interleaves between  *)
(* two steps.  A message is acknowledged last (acks_late), so a crash gives *)
(* it back (reject_on_worker_lost); a task that raises anything but an      *)
(* OperationalError is rejected and its message is lost                     *)
(* (task_acks_on_failure_or_timeout is off).  The run row is locked by each *)
(* transaction (FOR UPDATE); the two advisory locks span transactions.      *)
(***************************************************************************)
EXTENDS Naturals, FiniteSets, RunStateMachine

CONSTANTS
  Runs,             \* sourcing runs of one agency
  Workers,          \* Celery worker processes
  People,           \* provider person ids
  Candidates,       \* canonical identities
  CandidateOf,      \* person -> the identity ingestion resolves it to
  Suppressed,       \* people ingestion refuses (do-not-contact)
  Main,             \* candidates the matching engine classifies "main"
  Pages,            \* pages of the planned queries, 1..n in search order
  PeopleOn,         \* page -> the people the provider returns for it
  MaxCandidates,    \* _MAX_RUN_CANDIDATES (300)
  MatchBatch,       \* _MATCH_BATCH_SIZE (100)
  SearchCap,        \* cap on search_pages in the agency's usage budget
  MaxTries,         \* max_retries of the tasks (5)
  ProviderErrors,   \* the ways a search may fail: "auth", "retryable", "other"
  EnrichOutcomes,   \* what a submission may come to, see Submit
  Outdated,         \* the stages that may find the scorecard out of date
  OnDemand,         \* whether recruiters ask for single enrichments
  MaxPublish,       \* bound: publications of plan_run per run
  MaxRedeliveries,  \* bound: redeliveries of a message still being processed
  MaxCrashes,       \* bound: worker crashes
  MaxFailures,      \* bound: database failures
  NoJob             \* what an idle worker holds

ASSUME CatalogAssumption ==
  /\ IsFiniteSet(People) /\ IsFiniteSet(Candidates)
  /\ CandidateOf \in [People -> Candidates]
  /\ Suppressed \subseteq People /\ Main \subseteq Candidates
  /\ Pages \subseteq Nat /\ IsFiniteSet(Pages)
  /\ PeopleOn \in [Pages -> SUBSET People]

ASSUME LimitAssumption ==
  /\ MaxCandidates \in Nat \ {0} /\ MatchBatch \in Nat \ {0}
  /\ SearchCap \in Nat /\ MaxTries \in Nat
  /\ MaxPublish \in Nat /\ MaxRedeliveries \in Nat
  /\ MaxCrashes \in Nat /\ MaxFailures \in Nat

ASSUME EnvironmentAssumption ==
  /\ IsFiniteSet(Workers)
  /\ ProviderErrors \subseteq {"auth", "retryable", "other"}
  /\ EnrichOutcomes \subseteq {"pending", "completed", "failed", "deferred",
                               "rate_limited", "auth"}
  /\ Outdated \subseteq {"plan", "match"}
  /\ OnDemand \in BOOLEAN

Tasks == {"plan", "source", "match", "enrich"}

\* A message carries its retry count.
Messages == [task : Tasks, run : Runs, tries : 0..MaxTries]

ASSUME NoJobAssumption == NoJob \notin Messages

VARIABLES
  state,        \* SourcingRun.state
  checkpoints,  \* run -> stages whose RunCheckpoint is completed
  pages,        \* run -> pages whose RunCheckpoint is completed
  seen,         \* run -> provider ids in the page checkpoints
  scored,       \* run -> candidates with a match_score
  requests,     \* run -> kind -> EnrichmentRequest.status
  enabled,      \* ProviderConnectorState.enabled
  reserved,     \* search_pages reserved in the usage ledger
  queue,        \* the broker: message -> copies waiting
  pc,           \* worker -> what it does next
  job,          \* worker -> the message it processes
  searches,     \* history: provider searches made
  late,         \* history: run -> searches begun after the cancellation
  published,    \* history: run -> publications of plan_run
  redeliveries, \* history: messages delivered twice
  crashes,      \* history: worker crashes
  failures      \* history: database failures

records == <<checkpoints, pages, seen, scored>>
provider == <<enabled, reserved, searches, late>>
environment == <<published, redeliveries, crashes, failures>>
vars == <<state, records, requests, provider, queue, pc, job, environment>>

-----------------------------------------------------------------------------
(* What the code reads *)

\* The run's RunCandidate rows: one per identity, however often it was found.
Found(r) == {CandidateOf[p] : p \in seen[r]}

\* enqueue_top_enrichment's selection (stable_top_candidate_ids).
Selected(r) == scored[r] \cap Main

Kinds == {"auto", "demand"}
Open == {"queued", "submitting", "pending"}
Statuses == Open \cup {"none", "completed", "failed", "cancelled"}

Cancelled(r) == state[r] = "cancelled"

\* Where a worker holds _source_execution_lock, _enrichment_execution_lock.
SourceLocked == {"page", "reserve", "search", "record", "finish", "finish_budget"}
EnrichLocked == {"select", "empty", "prepare", "submit", "defer", "finalize",
                 "refused", "fail_active", "finalize_off", "mark_off"}
Unlocked == {"idle", "plan", "plan_sent", "source", "lock", "disable", "giveup",
             "giveup_off", "source_done", "match", "match_done", "enrich", "ack"}
FinishSteps == {"finish", "finish_budget", "giveup", "giveup_off"}
Steps == SourceLocked \cup EnrichLocked \cup Unlocked

\* A slip: the lock is asked for and its answer ignored.
NeverHeld(w, where) == FALSE

HeldByOther(w, where) ==
  \E v \in Workers \ {w} : pc[v] \in where /\ job[v].run = job[w].run

\* The provider ids a page still adds, before ingestion.
NewPeople(r, page) == PeopleOn[page] \ seen[r]

OpenPages(r) == Pages \ pages[r]
IsNextPage(r, page) == /\ page \in OpenPages(r)
                       /\ \A other \in OpenPages(r) : page <= other

\* A slip: the limit is checked on the candidates only.
FullOfRows(r) == Cardinality(Found(r)) >= MaxCandidates

Full(r) == \/ Cardinality(Found(r)) >= MaxCandidates
           \/ Cardinality(seen[r]) >= MaxCandidates

\* transition_run is called with these by _finish_source.
FinishTarget(w) ==
  LET r == job[w].run IN
  IF Cancelled(r) THEN "cancelled"
  ELSE IF pc[w] = "finish_budget" THEN "partially_ready"
  ELSE IF Found(r) = {} THEN "failed"
  ELSE IF pc[w] \in {"giveup", "giveup_off"} THEN "partially_ready" ELSE "matching"

\* A slip: the state is assigned without transition_run.
NeverRefused(w) == FALSE

FinishRefused(w) ==
  LET r == job[w].run IN
  /\ ~ Cancelled(r)
  /\ ~ (pc[w] = "finish_budget" /\ state[r] = "partially_ready")
  /\ ~ CanMove(state[r], FinishTarget(w))

\* _mark_budget_exhausted.
BudgetExhausted(current) ==
  IF current \in {"sourcing", "matching", "enriching"} THEN "partially_ready"
                                                       ELSE current

\* A slip: a run that is not being enriched is completed too.
FinalizedAnyState(r, now) ==
  IF \E k \in Kinds : now[k] \in Open THEN state[r]
  ELSE IF \E k \in Kinds : now[k] = "failed" THEN "partially_ready" ELSE "ready"

\* A slip: failed requests are not counted.
FinalizedAsReady(r, now) ==
  IF \A k \in Kinds : now[k] \notin Open /\ state[r] \in {"enriching", "partially_ready"}
  THEN "ready" ELSE state[r]

\* _finalize_if_terminal and webhooks._finalize_run, once the requests are now.
Finalized(r, now) ==
  LET target == IF \E k \in Kinds : now[k] = "failed" THEN "partially_ready"
                                                     ELSE "ready"
  IN IF \/ \E k \in Kinds : now[k] \in Open
        \/ ~ \/ state[r] = "enriching"
             \/ state[r] = "partially_ready" /\ target = "ready"
     THEN state[r] ELSE target

-----------------------------------------------------------------------------
(* The broker and the worker's place in its task *)

Message(task, r) == [task |-> task, run |-> r, tries |-> 0]
Put(m) == queue' = [queue EXCEPT ![m] = @ + 1]

At(w, where) == pc[w] = where
Goto(w, where) == /\ pc' = [pc EXCEPT ![w] = where]
                  /\ UNCHANGED <<job, queue>>
SendThen(w, m, where) == /\ pc' = [pc EXCEPT ![w] = where]
                         /\ Put(m)
                         /\ UNCHANGED job
Release(w) == /\ pc' = [pc EXCEPT ![w] = "idle"]
              /\ job' = [job EXCEPT ![w] = NoJob]
Drop(w) == Release(w) /\ UNCHANGED queue
GiveBack(w, m) == Release(w) /\ Put(m)

Again(m) == [m EXCEPT !.tries = @ + 1]

\* A delivery: the message is no longer waiting, and not acknowledged yet.
Take(w) ==
  /\ At(w, "idle")
  /\ \E m \in Messages :
       /\ queue[m] > 0
       /\ queue' = [queue EXCEPT ![m] = @ - 1]
       /\ job' = [job EXCEPT ![w] = m]
       /\ pc' = [pc EXCEPT ![w] = m.task]
  /\ UNCHANGED <<state, records, requests, provider, environment>>

Acknowledge(w) ==
  /\ At(w, "ack")
  /\ Drop(w)
  /\ UNCHANGED <<state, records, requests, provider, environment>>

-----------------------------------------------------------------------------
(* plan_run *)

Complete(r, stage) == /\ checkpoints' = [checkpoints EXCEPT ![r] = @ \cup {stage}]
                      /\ UNCHANGED <<pages, seen, scored>>

\* A slip: the replay of a planned run returns without publishing.
NothingAfterReplay(r) == "ack"

\* plan_run goes on whenever the stage returns SOURCING, replayed or not.
AfterReplay(r) == IF state[r] = "sourcing" THEN "plan_sent" ELSE "ack"

\* execute_plan_run finds the stage done, or the run cancelled.
PlanSkipped(w) ==
  LET r == job[w].run IN
  /\ At(w, "plan")
  /\ "plan" \in checkpoints[r] \/ Cancelled(r)
  /\ Complete(r, "plan")
  /\ Goto(w, AfterReplay(r))
  /\ UNCHANGED <<state, requests, provider, environment>>

\* The queries are compiled, or the scorecard must be revised first.
Plan(w) ==
  LET r == job[w].run IN
  /\ At(w, "plan")
  /\ "plan" \notin checkpoints[r]
  /\ state[r] = "queued"
  /\ \E planned \in BOOLEAN :
       /\ planned \/ "plan" \in Outdated
       /\ state' = [state EXCEPT ![r] = IF planned THEN "sourcing" ELSE "failed"]
       /\ Goto(w, IF planned THEN "plan_sent" ELSE "ack")
  /\ Complete(r, "plan")
  /\ UNCHANGED <<requests, provider, environment>>

SendSource(w) ==
  /\ At(w, "plan_sent")
  /\ SendThen(w, Message("source", job[w].run), "ack")
  /\ UNCHANGED <<state, records, requests, provider, environment>>

-----------------------------------------------------------------------------
(* source_run *)

\* is_provider_enabled, before any lock.
CheckProvider(w) ==
  /\ At(w, "source")
  /\ Goto(w, IF enabled THEN "lock" ELSE "giveup_off")
  /\ UNCHANGED <<state, records, requests, provider, environment>>

\* execute_source_run returns at once when another worker holds the lock, and
\* when the stage is done or the run cancelled.
SourceSkipped(w) ==
  LET r == job[w].run IN
  /\ At(w, "lock")
  /\ \/ HeldByOther(w, SourceLocked) /\ UNCHANGED records
     \/ /\ ~ HeldByOther(w, SourceLocked)
        /\ "source" \in checkpoints[r] \/ Cancelled(r)
        /\ Complete(r, "source")
  /\ Goto(w, "source_done")
  /\ UNCHANGED <<state, requests, provider, environment>>

\* The lock is taken and the first transaction finds the run to be searched.
OpenSource(w) ==
  LET r == job[w].run IN
  /\ At(w, "lock")
  /\ ~ HeldByOther(w, SourceLocked)
  /\ "source" \notin checkpoints[r]
  /\ state[r] = "sourcing"
  /\ Goto(w, "page")
  /\ UNCHANGED <<state, records, requests, provider, environment>>

\* The check before a page: cancelled, full or exhausted ends the search.
CheckPage(w) ==
  LET r == job[w].run IN
  /\ At(w, "page")
  /\ Goto(w, IF Cancelled(r) \/ Full(r) \/ OpenPages(r) = {} THEN "finish"
                                                            ELSE "reserve")
  /\ UNCHANGED <<state, records, requests, provider, environment>>

\* A slip: a repeated page reserves under the key of its first attempt.
ReservedOnce == reserved

ReservedNext == reserved + 1

\* reserve_usage, one page under a reservation key of its own.
ReservePage(w) ==
  /\ At(w, "reserve")
  /\ reserved < SearchCap
  /\ reserved' = ReservedNext
  /\ Goto(w, "search")
  /\ UNCHANGED <<state, records, requests, enabled, searches, late, environment>>

\* reserve_usage raises; the caller commits what _mark_budget_exhausted did.
ReserveExhausted(w) ==
  /\ At(w, "reserve")
  /\ reserved = SearchCap
  /\ state' = [state EXCEPT ![job[w].run] = BudgetExhausted(@)]
  /\ Goto(w, "finish_budget")
  /\ UNCHANGED <<records, requests, provider, environment>>

CallProvider(r) ==
  /\ searches' = searches + 1
  /\ late' = IF Cancelled(r) THEN [late EXCEPT ![r] = @ + 1] ELSE late
  /\ UNCHANGED <<enabled, reserved>>

SearchAnswers(w) ==
  /\ At(w, "search")
  /\ CallProvider(job[w].run)
  /\ Goto(w, "record")
  /\ UNCHANGED <<state, records, requests, environment>>

\* The exception leaves the advisory lock before source_run handles it.
SearchFails(w) ==
  /\ At(w, "search")
  /\ CallProvider(job[w].run)
  /\ \/ "auth" \in ProviderErrors /\ Goto(w, "disable")
     \/ "other" \in ProviderErrors /\ Goto(w, "giveup")
     \/ /\ "retryable" \in ProviderErrors
        /\ job[w].tries >= MaxTries
        /\ Goto(w, "giveup")
     \/ /\ "retryable" \in ProviderErrors
        /\ job[w].tries < MaxTries
        /\ GiveBack(w, Again(job[w]))
  /\ UNCHANGED <<state, records, requests, environment>>

\* disable_provider, for the source and for the enrichment task.
DisableProvider(w) ==
  /\ At(w, "disable")
  /\ enabled' = FALSE
  /\ Goto(w, IF job[w].task = "source" THEN "giveup" ELSE "fail_active")
  /\ UNCHANGED <<state, records, requests, reserved, searches, late, environment>>

\* A page that comes back for a cancelled run is charged and thrown away.
PageDiscarded(w) ==
  /\ At(w, "record")
  /\ Cancelled(job[w].run)
  /\ Goto(w, "finish")
  /\ UNCHANGED <<state, records, requests, provider, environment>>

\* How many of the n new people of a page are ingested: _new_run_people stops
\* when it has filled the room the ids seen leave (and never when there was
\* none), _record_source_page the room the candidates leave.
Ingested(r, n) ==
  LET least(a, b) == IF a <= b THEN a ELSE b
      selected == IF Cardinality(seen[r]) = MaxCandidates THEN n
                  ELSE least(n, MaxCandidates - Cardinality(seen[r]))
  IN least(selected, MaxCandidates - Cardinality(Found(r)))

\* A slip: suppressed people are recorded with the others.
Everyone(people) == people

Usable(people) == people \ Suppressed

RecordPage(w) ==
  LET r == job[w].run IN
  /\ At(w, "record")
  /\ ~ Cancelled(r)
  /\ \E page \in Pages : \E kept \in SUBSET NewPeople(r, page) :
       /\ IsNextPage(r, page)
       /\ Cardinality(kept) = Ingested(r, Cardinality(NewPeople(r, page)))
       /\ seen' = [seen EXCEPT ![r] = @ \cup Usable(kept)]
       /\ pages' = [pages EXCEPT ![r] = @ \cup {page}]
  /\ Goto(w, "page")
  /\ UNCHANGED <<state, checkpoints, scored, requests, provider, environment>>

\* _finish_source: the end of the search, or _mark_source_retry_exhausted,
\* which holds no advisory lock and does not look at the checkpoint; given up
\* because the connector is disabled, source_run returns without match_run.
FinishSource(w) ==
  LET r == job[w].run IN
  /\ pc[w] \in FinishSteps
  /\ ~ FinishRefused(w)
  /\ state' = [state EXCEPT ![r] = FinishTarget(w)]
  /\ Complete(r, "source")
  /\ Goto(w, IF At(w, "giveup_off") THEN "ack" ELSE "source_done")
  /\ UNCHANGED <<requests, provider, environment>>

\* _run_is_match_eligible.
MatchEligible(r) == Found(r) # {} /\ state[r] \in {"matching", "partially_ready"}

SendMatch(w) ==
  LET r == job[w].run IN
  /\ At(w, "source_done")
  /\ IF MatchEligible(r)
     THEN SendThen(w, Message("match", r), "ack")
     ELSE Goto(w, "ack")
  /\ UNCHANGED <<state, records, requests, provider, environment>>

-----------------------------------------------------------------------------
(* match_run *)

MatchSkipped(w) ==
  LET r == job[w].run IN
  /\ At(w, "match")
  /\ "match" \in checkpoints[r] \/ Cancelled(r)
  /\ Complete(r, "match")
  /\ Goto(w, "match_done")
  /\ UNCHANGED <<state, requests, provider, environment>>

\* A slip: the cancellation is looked at before the loop only.
MatchableWhileCancelled(r) == /\ "match" \notin checkpoints[r]
                              /\ state[r] \in {"matching", "partially_ready",
                                              "cancelled"}

Matchable(r) == /\ "match" \notin checkpoints[r]
                /\ state[r] \in {"matching", "partially_ready"}

\* _fail_historical_seniority.
MatchOutdated(w) ==
  LET r == job[w].run IN
  /\ At(w, "match")
  /\ Matchable(r)
  /\ "match" \in Outdated
  /\ state' = [state EXCEPT ![r] = "failed"]
  /\ Complete(r, "match")
  /\ Goto(w, "match_done")
  /\ UNCHANGED <<requests, provider, environment>>

Unmatched(r) == Found(r) \ scored[r]

AllMatched(r) == Unmatched(r) = {}

\* One transaction of the loop scores one batch.
ScoreBatch(w) ==
  LET r == job[w].run IN
  /\ At(w, "match")
  /\ Matchable(r)
  /\ \E batch \in SUBSET Unmatched(r) :
       /\ batch # {}
       /\ \/ batch = Unmatched(r) /\ Cardinality(batch) <= MatchBatch
          \/ batch # Unmatched(r) /\ Cardinality(batch) = MatchBatch
       /\ scored' = [scored EXCEPT ![r] = @ \cup batch]
  /\ UNCHANGED <<state, checkpoints, pages, seen, requests, provider, queue,
                 pc, job, environment>>

\* The transaction that finds nothing left hands the run to enrichment.
MatchCompletes(w) ==
  LET r == job[w].run IN
  /\ At(w, "match")
  /\ Matchable(r)
  /\ AllMatched(r)
  /\ state' = [state EXCEPT ![r] = "enriching"]
  /\ Complete(r, "match")
  /\ Goto(w, "match_done")
  /\ UNCHANGED <<requests, provider, environment>>

\* _run_is_enrich_eligible.
SendEnrich(w) ==
  LET r == job[w].run IN
  /\ At(w, "match_done")
  /\ IF state[r] \in {"enriching", "partially_ready"}
     THEN SendThen(w, Message("enrich", r), "ack")
     ELSE Goto(w, "ack")
  /\ UNCHANGED <<state, records, requests, provider, environment>>

-----------------------------------------------------------------------------
(* enrich_run, with one request per run where the code makes batches *)

SetRequest(r, kind, status) == requests' = [requests EXCEPT ![r][kind] = status]

BeginEnrich(w) ==
  /\ At(w, "enrich")
  /\ Goto(w, IF HeldByOther(w, EnrichLocked) THEN "ack"
             ELSE IF enabled THEN "select" ELSE "fail_active")
  /\ UNCHANGED <<state, records, requests, provider, environment>>

Enrichable(r) == state[r] \in {"enriching", "partially_ready"}

\* enqueue_top_enrichment's first transaction.
SelectTop(w) ==
  LET r == job[w].run IN
  /\ At(w, "select")
  /\ Cancelled(r) \/ Enrichable(r)
  /\ Goto(w, IF Cancelled(r) THEN "ack"
             ELSE IF Selected(r) = {} THEN "empty" ELSE "prepare")
  /\ UNCHANGED <<state, records, requests, provider, environment>>

FinishEmpty(w) ==
  /\ At(w, "empty")
  /\ state' = [state EXCEPT ![job[w].run] = IF @ = "enriching" THEN "ready" ELSE @]
  /\ Goto(w, "ack")
  /\ UNCHANGED <<records, requests, provider, environment>>

\* _prepare_request finds nothing to submit: the run is cancelled, or the
\* request was already submitted and has its answer or waits for it.
PrepareNothing(w) ==
  LET r == job[w].run IN
  /\ At(w, "prepare")
  /\ \/ requests[r].auto \in {"pending", "completed", "failed", "cancelled"}
     \/ requests[r].auto \in {"none", "queued"} /\ Cancelled(r)
  /\ Goto(w, "finalize")
  /\ UNCHANGED <<state, records, requests, provider, environment>>

\* A request is opened and its usage reserved, or a paused one taken up again.
PrepareRequest(w) ==
  LET r == job[w].run IN
  /\ At(w, "prepare")
  /\ requests[r].auto \in {"none", "queued"}
  /\ ~ Cancelled(r)
  /\ SetRequest(r, "auto", "submitting")
  /\ Goto(w, "submit")
  /\ UNCHANGED <<state, records, provider, environment>>

\* The enrichment budget (its own units) does not cover the request.
PrepareExhausted(w) ==
  LET r == job[w].run IN
  /\ At(w, "prepare")
  /\ requests[r].auto = "none"
  /\ ~ Cancelled(r)
  /\ "failed" \in EnrichOutcomes
  /\ SetRequest(r, "auto", "failed")
  /\ state' = [state EXCEPT ![r] = BudgetExhausted(@)]
  /\ Goto(w, "finalize")
  /\ UNCHANGED <<records, provider, environment>>

\* A request left "submitting" by a crash: wait for its deadline, then fail it.
PrepareAmbiguous(w) ==
  LET r == job[w].run IN
  /\ At(w, "prepare")
  /\ requests[r].auto = "submitting"
  /\ \/ Goto(w, "defer") /\ UNCHANGED requests
     \/ Goto(w, "finalize") /\ SetRequest(r, "auto", "failed")
  /\ UNCHANGED <<state, records, provider, environment>>

\* _request_dispatchable withdraws the request of a cancelled run; else the
\* provider is called and the answer recorded.
SubmitWithdrawn(w) ==
  LET r == job[w].run IN
  /\ At(w, "submit")
  /\ Cancelled(r)
  /\ SetRequest(r, "auto", "cancelled")
  /\ Goto(w, "finalize")
  /\ UNCHANGED <<state, records, provider, environment>>

Submit(w) ==
  LET r == job[w].run IN
  /\ At(w, "submit")
  /\ ~ Cancelled(r)
  /\ \E outcome \in EnrichOutcomes :
       /\ SetRequest(r, "auto", CASE outcome = "deferred" -> "submitting"
                                  [] outcome = "rate_limited" -> "queued"
                                  [] outcome = "auth" -> "failed"
                                  [] OTHER -> outcome)
       /\ Goto(w, CASE outcome \in {"deferred", "rate_limited"} -> "defer"
                    [] outcome = "auth" -> "refused"
                    [] OTHER -> "finalize")
  /\ UNCHANGED <<state, records, provider, environment>>

\* The staged retry publishes enrich_run again.
SendRetry(w) ==
  /\ At(w, "defer")
  /\ SendThen(w, Message("enrich", job[w].run), "ack")
  /\ UNCHANGED <<state, records, requests, provider, environment>>

\* _finalize_if_terminal after a pass, after a refusal, after the sweep.
Finalize(w) ==
  LET r == job[w].run IN
  /\ pc[w] \in {"finalize", "refused", "finalize_off"}
  /\ state' = [state EXCEPT ![r] = Finalized(r, requests[r])]
  /\ Goto(w, CASE pc[w] = "finalize" -> "ack"
               [] pc[w] = "refused" -> "disable"
               [] pc[w] = "finalize_off" -> "mark_off")
  /\ UNCHANGED <<records, requests, provider, environment>>

\* fail_active_enrichment_requests.
FailActive(w) ==
  LET r == job[w].run IN
  /\ At(w, "fail_active")
  /\ requests' = [requests EXCEPT ![r] =
                    [k \in Kinds |-> IF @[k] \in Open THEN "failed" ELSE @[k]]]
  /\ Goto(w, "finalize_off")
  /\ UNCHANGED <<state, records, provider, environment>>

\* _mark_enrichment_provider_disabled.
MarkProviderDisabled(w) ==
  /\ At(w, "mark_off")
  /\ state' = [state EXCEPT ![job[w].run] =
                 IF @ = "enriching" THEN "partially_ready" ELSE @]
  /\ Goto(w, "ack")
  /\ UNCHANGED <<records, requests, provider, environment>>

-----------------------------------------------------------------------------
(* A transaction raises ValueError or InvalidTransition *)

Unexpected(w) ==
  LET r == job[w].run IN
  \/ /\ At(w, "plan")
     /\ "plan" \notin checkpoints[r]
     /\ state[r] \notin {"queued", "cancelled"}
  \/ /\ At(w, "lock")
     /\ ~ HeldByOther(w, SourceLocked)
     /\ "source" \notin checkpoints[r]
     /\ state[r] \notin {"sourcing", "cancelled"}
  \/ pc[w] \in FinishSteps /\ FinishRefused(w)
  \/ /\ At(w, "match")
     /\ "match" \notin checkpoints[r] /\ ~ Matchable(r) /\ ~ Cancelled(r)
  \/ At(w, "select") /\ ~ Cancelled(r) /\ ~ Enrichable(r)

\* The task fails and its message is rejected without being requeued.
Reject(w) ==
  /\ Unexpected(w)
  /\ Drop(w)
  /\ UNCHANGED <<state, records, requests, provider, environment>>

-----------------------------------------------------------------------------
(* The world around the workers *)

\* router.start_run, or the maintenance job that recovers a dispatch, puts
\* plan_run on the broker; RunDispatch models when they do.
PublishPlan(r) ==
  /\ published[r] < MaxPublish
  /\ published' = [published EXCEPT ![r] = @ + 1]
  /\ Put(Message("plan", r))
  /\ UNCHANGED <<state, records, requests, provider, pc, job, redeliveries,
                 crashes, failures>>

Cancel(r) ==
  /\ state[r] \notin TerminalStates
  /\ state' = [state EXCEPT ![r] = "cancelled"]
  /\ UNCHANGED <<records, requests, provider, queue, pc, job, environment>>

\* queue_on_demand_enrichment, for a candidate outside the automatic batch or
\* one whose enrichment failed.
QueueOnDemand(r) ==
  /\ OnDemand
  /\ state[r] \in {"partially_ready", "ready"}
  /\ requests[r].demand \in {"none", "failed"}
  /\ \/ Found(r) \ Selected(r) # {}
     \/ requests[r].auto = "failed" /\ Found(r) # {}
  /\ SetRequest(r, "demand", "queued")
  /\ UNCHANGED <<state, records, provider, queue, pc, job, environment>>

\* The answer to a submitted request (webhook, poll or its deadline), and the
\* task enrich_request for one a recruiter asked for; each finalizes the run.
SettleRequest(r, kind) ==
  /\ requests[r][kind] = IF kind = "auto" THEN "pending" ELSE "queued"
  /\ \E outcome \in {"completed"} \cup (EnrichOutcomes \cap {"failed"}) :
       LET now == [requests[r] EXCEPT ![kind] = outcome] IN
       /\ requests' = [requests EXCEPT ![r] = now]
       /\ state' = [state EXCEPT ![r] = Finalized(r, now)]
  /\ UNCHANGED <<records, provider, queue, pc, job, environment>>

Busy(w) == pc[w] # "idle"

\* The worker process dies and the broker delivers its message again.
Crash(w) ==
  /\ Busy(w)
  /\ crashes < MaxCrashes
  /\ crashes' = crashes + 1
  /\ GiveBack(w, job[w])
  /\ UNCHANGED <<state, records, requests, provider, published, redeliveries,
                 failures>>

\* An OperationalError rolls the transaction back; autoretry_for publishes the
\* message again until its retries are used up.
DatabaseFailure(w) ==
  /\ pc[w] \notin {"idle", "plan_sent", "search", "defer", "ack"}
  /\ failures < MaxFailures
  /\ failures' = failures + 1
  /\ IF job[w].tries < MaxTries THEN GiveBack(w, Again(job[w])) ELSE Drop(w)
  /\ UNCHANGED <<state, records, requests, provider, published, redeliveries,
                 crashes>>

\* The broker's visibility timeout passes while the message is processed.
Redeliver(w) ==
  /\ Busy(w)
  /\ redeliveries < MaxRedeliveries
  /\ redeliveries' = redeliveries + 1
  /\ Put(job[w])
  /\ UNCHANGED <<state, records, requests, provider, pc, job, published,
                 crashes, failures>>

-----------------------------------------------------------------------------
Init ==
  /\ state = [r \in Runs |-> "queued"]
  /\ checkpoints = [r \in Runs |-> {}]
  /\ pages = [r \in Runs |-> {}]
  /\ seen = [r \in Runs |-> {}]
  /\ scored = [r \in Runs |-> {}]
  /\ requests = [r \in Runs |-> [k \in Kinds |-> "none"]]
  /\ enabled = TRUE
  /\ reserved = 0
  /\ queue = [m \in Messages |-> 0]
  /\ pc = [w \in Workers |-> "idle"]
  /\ job = [w \in Workers |-> NoJob]
  /\ searches = 0
  /\ late = [r \in Runs |-> 0]
  /\ published = [r \in Runs |-> 0]
  /\ redeliveries = 0
  /\ crashes = 0
  /\ failures = 0

PlanTask(w) == PlanSkipped(w) \/ Plan(w) \/ SendSource(w)

SourceTask(w) ==
  \/ CheckProvider(w) \/ SourceSkipped(w) \/ OpenSource(w) \/ CheckPage(w)
  \/ ReservePage(w) \/ ReserveExhausted(w) \/ SearchAnswers(w) \/ SearchFails(w)
  \/ DisableProvider(w) \/ PageDiscarded(w) \/ RecordPage(w) \/ FinishSource(w)
  \/ SendMatch(w)

MatchTask(w) == \/ MatchSkipped(w) \/ MatchOutdated(w) \/ ScoreBatch(w)
                \/ MatchCompletes(w) \/ SendEnrich(w)

EnrichTask(w) ==
  \/ BeginEnrich(w) \/ SelectTop(w) \/ FinishEmpty(w) \/ PrepareNothing(w)
  \/ PrepareRequest(w) \/ PrepareExhausted(w) \/ PrepareAmbiguous(w)
  \/ SubmitWithdrawn(w) \/ Submit(w) \/ SendRetry(w) \/ Finalize(w)
  \/ FailActive(w) \/ MarkProviderDisabled(w)

Work(w) == \/ Take(w) \/ Acknowledge(w) \/ Reject(w)
           \/ PlanTask(w) \/ SourceTask(w) \/ MatchTask(w) \/ EnrichTask(w)

World == \/ \E r \in Runs : \/ PublishPlan(r) \/ Cancel(r) \/ QueueOnDemand(r)
                            \/ \E kind \in Kinds : SettleRequest(r, kind)
         \/ \E w \in Workers : Crash(w) \/ DatabaseFailure(w) \/ Redeliver(w)

Next == World \/ \E w \in Workers : Work(w)

Spec == Init /\ [][Next]_vars

\* A worker that can take a step takes one: a Celery process does not stop
\* while it holds a message or one is waiting.
FairSpec == Spec /\ \A w \in Workers : WF_vars(Work(w))

-----------------------------------------------------------------------------
(* Properties *)

RunType ==
  /\ state \in [Runs -> RunStates]
  /\ checkpoints \in [Runs -> SUBSET {"plan", "source", "match"}]
  /\ pages \in [Runs -> SUBSET Pages]
  /\ seen \in [Runs -> SUBSET (People \ Suppressed)]
  /\ scored \in [Runs -> SUBSET Candidates]
  /\ requests \in [Runs -> [Kinds -> Statuses]]

ProviderType ==
  /\ enabled \in BOOLEAN
  /\ reserved \in Nat
  /\ searches \in Nat
  /\ late \in [Runs -> Nat]

BrokerType ==
  /\ queue \in [Messages -> Nat]
  /\ pc \in [Workers -> Steps]
  /\ job \in [Workers -> Messages \cup {NoJob}]
  /\ \A w \in Workers : pc[w] = "idle" <=> job[w] = NoJob

EnvironmentType ==
  /\ published \in [Runs -> Nat]
  /\ redeliveries \in Nat
  /\ crashes \in Nat
  /\ failures \in Nat

\* Every variable keeps its type; in particular no suppressed person is ever
\* recorded for a run, and a worker holds a message exactly while it works.
TypeOK == RunType /\ ProviderType /\ BrokerType /\ EnvironmentType

\* The provider is never called without a reservation of its own, and the
\* agency's cap bounds the calls, whatever crashes or is delivered twice
\* (reserve_usage before each gateway.search, a fresh attempt key each time).
SpendWithinCap == searches <= reserved /\ reserved <= SearchCap

\* The completed checkpoints and the run's state tell the same story: a replay
\* that trusts one of them never contradicts the other.
CheckpointsFollowState ==
  \A r \in Runs :
    /\ "plan" \notin checkpoints[r] => state[r] \in {"queued", "cancelled"}
    /\ "source" \in checkpoints[r] => state[r] \notin {"queued", "sourcing"}
    /\ "match" \in checkpoints[r] => state[r] \notin {"queued", "sourcing", "matching"}
    /\ state[r] = "queued" => checkpoints[r] = {}
    /\ state[r] = "matching" => "source" \in checkpoints[r]
    /\ state[r] = "enriching" => "match" \in checkpoints[r]

\* A run never records more provider ids than _durable_seen_provider_ids
\* accepts: past the limit every later source_run of the run would raise.
SeenWithinLimit == \A r \in Runs : Cardinality(seen[r]) <= MaxCandidates

\* Cancelling races the worker only once: the search it had already checked
\* the run for is the last one.
AtMostOneSearchAfterCancel == \A r \in Runs : late[r] <= 1

\* Cancellation keeps the candidates and scores already committed, and adds
\* none.
CancelFreezesCandidates ==
  [][\A r \in Runs : Cancelled(r) => /\ seen'[r] = seen[r]
                                    /\ scored'[r] = scored[r]]_vars

\* No candidate is left without a score in a run handed to enrichment or
\* shown as ready.
RankedRunsAreFullyScored ==
  \A r \in Runs : state[r] \in {"enriching", "ready"} => Found(r) \subseteq scored[r]

\* A run is ready only when its shortlist was enriched or there is none.
ReadyMeansEnriched ==
  \A r \in Runs : state[r] = "ready" =>
    requests[r].auto = "completed" \/ Found(r) \cap Main = {}

\* A run's state says what its results are: a ranked run is scored in full, and
\* the shortlist of a ready run was enriched.
ResultsMatchState == RankedRunsAreFullyScored /\ ReadyMeansEnriched

\* Nothing waits, and nobody works, for the run.
Quiet(r) == /\ \A m \in Messages : m.run = r => queue[m] = 0
            /\ \A w \in Workers : Busy(w) => job[w].run # r

\* A published run whose messages are all gone got as far as it can: it is
\* over, its candidates were ranked, or the budget left it without any.
WorkNotLost ==
  \A r \in Runs : published[r] > 0 /\ Quiet(r) =>
    \/ state[r] \in TerminalStates
    \/ "match" \in checkpoints[r]
    \/ state[r] = "partially_ready" /\ Found(r) = {}

\* What the recruiter was promised, whatever the workers and the broker do.
Life == INSTANCE RunLifecycle WITH found <- [r \in Runs |-> Found(r)]
KeepsRunPromise == Life!Spec

\* A published run leaves the stages nobody but the workers can end.
RunsProgress ==
  \A r \in Runs :
    published[r] > 0 ~> state[r] \notin {"queued", "sourcing", "matching"}
=============================================================================
