# A verification model of the recruitment sourcing agent

The program finds candidates for a job: a recruiter approves a scorecard, starts a
*sourcing run*, and background workers search a provider (Apollo), resolve the people
found to candidates, score them and buy contact details for the best ones. This
directory models the parts of it in which order, failure and concurrency decide
whether the result is right. Paths below are relative to `src/backend/app/`.

## 1. Inventory

| Component | State it keeps | Operations | Hard behaviour |
|---|---|---|---|
| Sourcing pipeline (`sourcing/tasks.py`, `state_machine.py`, `worker.py`) | `SourcingRun.state`, stage and page checkpoints, `RunCandidate` rows with scores | tasks `plan_run`, `source_run`, `match_run`, `enrich_run` | at-least-once delivery, lost workers, retries, two workers on one run, cancellation in mid-search |
| Enrichment (`sourcing/enrichment.py`, `webhooks.py`) | `EnrichmentRequest` rows, their reservations, the run's state | submit, poll, webhook, deadline, sweep, finalize | a provider whose answer may be lost, late, early or doubled; polls racing webhooks; finalization counted by several actors |
| Run API and usage budget (`sourcing/service.py`, `router.py`) | runs, idempotency records, `UsageBudget` and ledger | start, cancel, queue on-demand enrichment, reserve, reconcile | concurrent reservations, replayed requests, one run per scorecard version |
| Dispatch recovery (`sourcing/dispatch_recovery.py`, `maintenance_tasks.py`, `scheduler.py`, migrations 0011, 0012, 0017) | dispatch flags and claims on runs and requests | claim, publish, finish, recover | a commit and a publication that cannot be atomic; leases that end under a slow holder |
| Retry dispatch (`sourcing/tasks.py:979-1330`, migration 0016) | `EnrichmentRetryDispatch` row: generation, claims, lease | stage, publish, deliver, complete, release | duplicate and stale deliveries of one generation; lost advisory locks |
| Provider gateway, connector health (`providers/`) | `ProviderConnectorState.enabled` | search, enrich, disable | an authentication error of one run disables all |
| Query planner (`providers/query_planner.py`) | none | compile | duplicates, limits |
| Snapshots (`providers/snapshots.py`, migration 0008) | encrypted payloads with expiry | store, renew, claim, purge | a purge against a renewal; an object store and a database that are not written together |
| Candidates and contacts (`candidates/`, migration 0010) | identities, profiles, contact points with their retention | ingest, suggest, store, reveal, expire | two pages resolving one person; observations out of order; erasure against reveal |
| Matching engine (`matching/engine.py`) | none | score | rounding, missing evidence |
| CRM (`crm/`) | cards, stages, activities, acceptance snapshots | move, rescore, report, export; notes, tags, assignment | reports and runs that interleave; exports page by page |
| Jobs, scorecards (`jobs/`) | draft with a revision, confirmed versions | generate, edit, confirm, revise | an LLM call between two reads of the draft; provenance across edits |
| Document extraction (`jobs/document_*.py`) | none; a subprocess | extract | limits of time and memory |
| Clients (`clients/`) | clients, industries, adjacencies, grants | edit, grant, revoke | a grant is a row and an entry of the membership |
| Identity (`identity/`) | users, memberships, invitations, the ledger of idempotency keys | invite, claim, change role, deactivate | invitations racing claims and changes; retried requests |
| Privacy (`privacy/`, migration 0010) | requests, suppressions, deletion checkpoints and targets | submit, verify, approve, execute, finalize | deletion while the person is found, enriched, scored, shown |
| Audit, core, `main.py`, operations | log, configuration | append, configure | none of their own |
| Web application (`src/web`) | session, tenant cookie | proxy, claim an invitation | retries, seen by the ledger |

Workers and the API share the PostgreSQL rows and talk over a Redis broker. A worker
acknowledges a message after the task (`acks_late`), so a lost worker means a second
delivery (`reject_on_worker_lost`). Two advisory locks span transactions: the source
execution lock and the enrichment execution lock of a run; many more last one
transaction (an idempotency key, an invitation's address, the digests of a person, the
suppression gate of an agency). Maintenance runs every minute (dispatch) and every day
(snapshots, contacts, deletions) in processes of its own, through database functions
that see all agencies. The provider answers a submission directly, by a webhook, or
when polled.

What makes each component correct is listed as hazards in `PROJECT.json`, each with
the line where it bites and the properties that would show it.

## 2. Plan

1. The pipeline of a run: `RunStateMachine`, `RunLifecycle` (what a run promises),
   `RunPipeline` (how the tasks keep it), `RunPipelineProofs`, `RunPromiseProofs` (the
   source lock, the refinement, results and lost work). **Written.**
2. `Enrichment`: the requests of a run one by one, `EnrichmentProofs`. **Written.**
3. Dispatch: `DispatchClaims`, `RunDispatch` (it supplies what `RunPipeline` takes as
   `PublishPlan`), `DemandDispatch`, `RetryDispatch` (it supplies what `Enrichment`
   takes as `wake`), `DispatchProofs`. **Written.**
4. People: `People`, `PrivacyDeletion`, `ContactRetention`, `PeopleProofs`. **Written.**
5. Workspace: `Ledger`, `Memberships`, `Scorecards`, `Opportunities`, `Matching`,
   `QueryPlanner`, `MembershipProofs`, `MatchingProofs`, `WorkspaceProofs`. **Written.**

Every safety property that a run checks is stated by a theorem. What a next step would
add is code that is not modelled (section 6), not another proof about what is.

## 3. Modules

### RunStateMachine
The table of `state_machine.py` and the two state sets of `service.py`, shared by all.

Most theorems are about a component with its own specification (`DeletionSpec`,
`ContactSpec`, `RunDispatchSpec`, `DemandDispatchSpec`, `RetryDispatchSpec`,
`MembershipSpec`, `JobSpec`, `CrmSpec`): its initial state and all of its steps, without
the bounds that an MC module adds. The lanes of `MCPeople` and `MCWorkspace` begin in
prepared states; section 5 says where these are proved to satisfy the same invariants,
and so that every property those runs check holds in every lane.

### RunLifecycle: the abstract specification
One variable per thing a recruiter sees of a run: its state, the candidates found, the
candidates scored. It promises that the state moves only along the table, that results
are only added and only while the run is not cancelled, and that a run is handed to
enrichment only at the moment everything found is scored. There are no workers.

### RunPipeline: the tasks
| Code | Model |
|---|---|
| `SourcingRun.state` | `state` |
| completed `RunCheckpoint` rows of the stages, of the pages | `checkpoints`, `pages` |
| provider ids stored in page checkpoints | `seen`; the `RunCandidate` rows are `Found(r)` |
| rows with `match_score` | `scored` |
| `EnrichmentRequest.status` (one automatic, one on-demand request per run) | `requests` |
| broker queue and unacknowledged messages | `queue`, `job` |
| the place in a task, and the advisory locks held there | `pc`, `SourceLocked`, `EnrichLocked` |

A step of a worker is one transaction, one provider call, one publication or the
acknowledgement. Between two steps another worker, the API, a webhook or a crash may
act. `Crash` gives the message back with nothing undone that was committed.
`DatabaseFailure` rolls a transaction back and republishes the message with one more
try, or drops it when the tries are used up. `Redeliver` is the broker's visibility
timeout. `Reject` is any other exception (`ValueError`, `InvalidTransition`): the
message is gone.

Abstractions: the pages of the planned queries are fixed and come in order, while the
people kept of a page that does not fit are any of them; the batches of
`match_run` are any batches of the right size; taking an advisory lock and the
transaction that follows is one step; one cap on search pages is shared by the runs;
`cancellation_requested` and the state `cancelled` are always set together, so the
model has only the state; enrichment is coarse (one request of each kind per run), and
`Enrichment` refines that part on its own.

### Enrichment: the requests of one ranked run
| Code | Model |
|---|---|
| `EnrichmentRequest.status`, `retry_count`, `provider_request_id` set | `request[q].status`, `.tries`, `.known` |
| its reservation in the ledger and `usage_reconciled_at` | `request[q].usage`: reserved, charged, released |
| the `enrich_run` message, or the staged retry that becomes one | `wake` |
| the task holding the enrichment execution lock (`enrich_run` or `enrich_request`), its place and local lists | `pass` |
| the `poll_enrichment_result` task of a request and its place | `poll[q]` |
| the open transaction of `apply_enrichment_payload`, and its count of open requests | `applying`, `lastOne` |
| `ProviderConnectorState.enabled` | `enabled` |
| what the provider has really accepted, submissions after a cancellation, lost workers | history: `accepted`, `late`, `crashes` |

A pass goes through *select*, *prepare* (one transaction per batch), *dispatch* (check,
call, record, one after the other), *finish* and *schedule*; an authentication error
leads through *abort*, *disable*, *sweep* and *mark_off*. `Batches` are the automatic
requests in the order of enrichment, `Demands` those a recruiter asks for. A transaction
that applies a payload holds the request row and the run row and is the only one split
in two: a transaction that locks neither can commit between its count and its commit.
All others that lock the run row wait (`RunFree`), and all that lock the request wait
for it (`RowFree`, `SettleFree`).

Abstractions: `poll_after` and `stage_deadline` pass at any time; `enrich_request` may be
delivered whenever its request is queued or submitting; a request has one poll task;
`MaxAttempts` stands for both limits of six (`enrichment.py:42-43`); the retry
generations that keep `wake` durable are left to `RetryDispatch`. Not modelled: a
candidate without provider identity, an invalid payload, a webhook that carries no
final result, people suppressed in between, on-demand requests of people who are
already enriched, and a poll of a request that `enrich_request` has already failed,
which does nothing.

### Dispatch: DispatchClaims, RunDispatch, DemandDispatch, RetryDispatch
Each of the three modules is one outbox of the program; `DispatchClaims` has the claim
columns and the loop of `dispatch_recovery.py` that two of them share.

| Code | Model |
|---|---|
| `dispatch_pending`, `dispatch_claim_token` of a run or request | `run[r].claim`, `demand[d].claim`: pending, holder |
| `dispatch_claimed_at` younger than five (fifteen) minutes | `runLease`, `demandLease`; `retry.young` |
| idempotency record of a start; `Job.current_scorecard_id` | `answer`; `scorecard` |
| the API between commit, publication and clearing the flag | `start`, `asking` |
| one execution of `maintenance.recover_sourcing_dispatches` | `sweep`, `demandSweep`, `retrySweep`: claims not yet published, the one at hand |
| messages `plan_run`, `enrich_request`, `enrich_run` in the broker | `planned`, `asked`, `enrichQueue` (by generation) |
| `EnrichmentRetryDispatch` row | `retry`: generation, status, holder, young, due |
| a worker inside `enrich_request`, `enrich_run` | `exec`, `retrier`, `retryLock` |

A process may die, and a publication may be refused, between any two steps
(`MaxFaults`). The end of a lease is an action: a holder that is only slow goes on and
finishes a claim that is no longer its own. The connection that holds an advisory lock
may be lost while its worker goes on. `RunDispatch` takes the rest of the pipeline in
outline (`DeliverPlan`, `EndRun`); what a submission costs is in `Enrichment`.
Not modelled: a database that fails six times in a row under `enrich_request`, which
loses the message of a request that is no longer pending.

### People: People, PrivacyDeletion, ContactRetention
| Code | Model |
|---|---|
| `SourceIdentity` (provider id, profile URL) | `identity[k]` |
| `Candidate` profile, its contact points, its `RunCandidate`, its `JobCandidate` | `row`, `emails`, `evidence`, `card` |
| `suppression_identifiers` | `suppressed` |
| snapshot object and `ProviderSnapshot` row of a request | `object`, `reference` |
| transaction of an ingestion, payload or materialization, with the shared gate and identity locks | `work` |
| `PrivacyRequest`, deletion targets, `execute_delete` under way | `ask`, `targets`, `call` |
| message and process of `execute_privacy_deletion`, `reconcile_expired_snapshots` | `ordered`, `cleaner`, `leased` |
| `candidate_contact_points` row, its tombstone | `point`, `retired` |
| transactions of `store` and `reveal`, columns as they were read | `storing`, `revealing` |

A digest is an identifier (provider id, URL or address). `People` is what writes people
into rows; `PrivacyDeletion` EXTENDS it with requests and the two phases of a deletion.
`ContactRetention` counts days; maintenance computes its expiry from the columns, the
program from `expires_at`. Two history variables exclude what section 4 reports:
`lost` (an object whose row was rolled back) and `overtaken` (a store or reveal that
wrote over a change it had not read).

### Workspace: Ledger, Memberships, Scorecards, Opportunities, Matching, QueryPlanner
| Code | Model |
|---|---|
| completed `IdentityIdempotencyKey` rows | `ledger` |
| an API process with its open transaction, its key, what it read and locked | `open[h]` |
| `Membership`, its `allowed_client_ids`, `ClientGrant`, `MembershipInvitation` | `member`, `allowed`, `grants`, `invitation` |
| `Job` draft, revision, extraction status; `ScorecardVersion` | `job`, `scorecards` |
| `JobCandidate`, `ActivityEvent` | `card`, `activity` |
| `SourcingRun` with scores, cohort, `AcceptanceSnapshot`; order of `completed_at` | `jobRun`, `ready` |
| the export stream, its cursor, and the row its session still holds | `export` (`ScoreHeld`) |
| `CandidateProfile`, scorecard being scored | `profile`, `scored` |

A handler opens a transaction (`AskX`: the context read at its start), waits for the
key, and goes statement by statement where it may wait for a lock; READ COMMITTED lets
it see what others committed in between. `Abort` rolls any of them back. Every
operation of the workspace goes through the same `Ledger`. `Matching` and
`QueryPlanner` are pure operators, checked against their meaning: points and years
against sums over years, gates against evidence, queries against coverage. Their inputs
are what the schemas of `jobs/schemas.py` let through: a scorecard has a title and an
industry (`PlanAssumption`; `max_queries` is positive), its criteria have unique keys
(`validate_scorecard_invariants`), and none is a key of the engine, since the engine's have a
dot and the pattern of the scorecard's has none (`MatchAssumption`). Histories include a job
that ends after `Today`: `_years_experience` takes a dated end as it stands. `Sorted` is the
ordered sequence of a set of intervals, defined by what `sort` gives.

The cursor of an export (`exports.py:89`) is the score of a row of the session, which
commits do not expire (`core/database.py:15`). The stream refers to one row at a time, so a
card is read afresh when another was exported in between, but when the card just exported
is selected again, `row.score` is as first read. `ScoreHeld` is that. Such a card was
rescored lower behind the cursor; the cursor stays where it is, the card is next again, and
the export lists it until somebody changes the card, or puts another in front of it, or the
client leaves: an export need not complete. `ExportMissesNone` is about the exports that do.
Likewise `ChangeMember` writes a member's row only if it `Differs` from the row as the
request read it: SQLAlchemy emits no UPDATE otherwise.

`Normalized` is the loop of `_normalize_draft_provenance` said at once: `Predecessors`
is the assignment that the loop makes, each submitted criterion taking the first match
that none before it took.

Abstractions: a criterion is a key and a content; industries and uncertainties of a
draft are inferred items like the others; seniority of a title is a constant `Level`;
words are compared by the code's normalization and are values here; a page of the
export is one row; a cohort has `CohortSize` places.

## 4. Runs

`CHECK_DEADLOCK FALSE` everywhere because the system really stops: when all messages are
consumed and nobody asks for anything there is nothing to do. Symmetry is used only
where no liveness is checked.

| Run | Question |
|---|---|
| `pipeline` | One run against everything: two workers, crash, redelivery, retry, every answer of the provider, cancellation, outdated scorecards, on-demand requests. Checkpoints, the limit and cancellation hold, and the pipeline implements `RunLifecycle`. |
| `two_runs` | Two runs share a budget of three pages: every call has a reservation, and the cap holds. |
| `recovery` | Crash, redelivery, database failure and a doubled publication, with a provider that answers every search. Replays finish the work, and states say what the results are. |
| `progress` | Fair workers: a published run leaves `queued`, `sourcing`, `matching`. |
| `enrichment` | Two batches and a recruiter's request, a budget of two, two attempts, every answer, webhooks, cancellation, a connector disabled and reset by others, one lost worker: no double submission, and at most the call under way after a cancellation. |
| `enrichment_answers` | The same with a connector that stays enabled and polls that get an answer: final answers, the charge of what was accepted, what `ready` means. |
| `enrichment_progress` | No lost worker and no lost answer; fair workers: the run leaves `enriching` and the recruiter's request ends. |
| `dispatch` | The three outboxes with two processes of each kind and one fault: nothing committed is forgotten, no scorecard is run twice, no completed retry comes back. |
| `maintenance_progress` | Fair maintenance and workers, one fault: what is in an outbox is done, and a deletion that began completes. |
| `people` | Deletions against ingestion, payloads, expiring snapshots, failing purges, dying processes; one contact point against stores, reveals and the daily erasure. |
| `workspace` | Two handlers with two keys on members, grants, drafts, stages, reports and an export; cohorts of two runs; scores and queries of small scorecards. |
| `deletion_race` (violation) | A run's matches are read before a deletion and written to a card after it has completed. |

Bounds. The pipeline instances have five people on three pages, two of them two ids of
one candidate (twice), one suppressed; two candidates, one of them on the shortlist;
batches of one. With a limit of two candidates the limit is reached by ids before it is
reached by rows. `MaxPublish`, `MaxRedeliveries`, `MaxCrashes`, `MaxFailures` count what
the environment does; `MaxTries` is the retry limit. Two batches and one demand are the
smallest instance with two requests in one pass, a third competing for a budget of two,
and a last request that is not the only one; two attempts make the difference between
the first and the last try.

`MCDispatch`, `MCMaintenance`, `MCPeople` and `MCWorkspace` put parts that share no row
side by side: the variable `lane`, fixed at the beginning, says which one moves, so the
states add up instead of multiplying. `MaxFaults = 1` and `MaxTroubles = 1`: each outbox
is meant to survive a fault. `NothingIsForgotten` also holds with `MaxFaults = 2` (two
million states) and, with one maintenance process, with three; those instances are too
slow to keep as runs. Two runs, two
keys, two processes of every kind let each of them be overtaken. In `people` the lanes
are ingestion with one deletion, payloads with one deletion and no trouble, two
deletions that may share a snapshot, and a contact over three days with policies of at
most two. In `workspace`, `Completes(n)` ends a behaviour after n requests (four for
members, three for grants and scorecards, two for reports): enough for a change, one
that races it and a retry of either. The members begin with an owner and a pending
invitation, and with an owner alone when only invitations are made (two requests); the
grants with an owner and a recruiter; a cohort has two places and the job three candidates;
the scorecards, histories and lists of titles are the definitions of `MCWorkspace`. The
export begins with two cards at the top score and the last one at the lowest (`LastIsLow`),
so a run can rescore a card lower and it is next, or higher. An export that repeats a card
is followed for two rows more than there are cards (`MaxRows`, a bound of the lane and not
of `Opportunities`): the instance has exports that repeat a card and complete, and exports
that are still repeating it at the bound.

### Disagreements that are not runs

Each row changes one cfg of this directory and checks one property. The code does the
one thing and a document says the other.

| Change | Property violated | What happens |
|---|---|---|
| `PipelineRecovery.cfg` with `Workers = {w1}`, `SearchCap = 1`, `MaxTries = 1` | `WorkNotLost` | The state `partially_ready` of an exhausted budget is committed before the source checkpoint (`tasks.py:711`, `:787`). Redelivered in between, `source_run` raises and the candidates found are never ranked. The design document (`docs/superpowers/specs/2026-08-15-...-design.md:95`) says "A lost or duplicated broker message must therefore be safe". |
| `PipelineRecovery.cfg` with `ProviderErrors = {"auth"}`, `MaxCandidates = 4` and no crash | `ResultsMatchState` | A run without enrichment requests is finalized as `ready` when the connector is disabled (`enrichment.py:1297`); `docs/runbooks/provider-outage.md:16` says "Shared connector disabled; run safely fails/partial". |
| `PipelineRecovery.cfg` with `ProviderErrors = {"other"}`, `OnDemand = TRUE` | `ResultsMatchState` | An on-demand request settled before `match_run` makes the run `ready` with unscored candidates (`webhooks.py:826`). Without on-demand requests: giving up takes no lock (`tasks.py:800`), a duplicated `source_run` ends the search and the run is ranked while the other one adds a candidate. |
| `PipelineRecovery.cfg` with `ProviderErrors = {"auth"}` | `WorkNotLost` | `source_run` with the connector disabled returns without `match_run` (`tasks.py:1421`); after a crash this strands the pages found before. |
| `EnrichmentAnswers.cfg` with the poll answer `"pending"` | `AnswersAreFinal` | A webhook completes a request while its last poll waits for the provider; the poll then fails the completed request (`enrichment.py:1104`). The runbook (`:21`) says "Polling path applies the same idempotent handler". |
| `EnrichmentProgress.cfg` with `OtherRuns = TRUE`, `Resets = TRUE` | `EnrichmentEnds` | A poll that finds the connector disabled ends the last request and does not finalize the run (`tasks.py:888`). |
| `EnrichmentProgress.cfg` with `MaxCrashes = 1` | `EnrichmentEnds` | The worker is lost between the receipt and the scheduling of its poll (`tasks.py:1622`); the next pass finds the request pending and schedules nothing. |
| `EnrichmentProgress.cfg` with the answer `"lost"` | `EnrichmentEnds` | A deadline ends an already charged request without the run row while a webhook applies the other one: each counts the other as open (`webhooks.py:789`, `enrichment.py:1264`) and nobody finalizes. |
| `EnrichmentAnswers.cfg` with `OtherRuns = TRUE` | `AcceptedWorkIsCharged` | The worker is lost after the provider accepted and before the receipt; the sweep of a disabled connector releases the reservation (`enrichment.py:1068`). With `Resets = TRUE` the unit is spent again, beyond the cap. |
| `Dispatch.cfg` with `OnDemandToo = TRUE` | `NothingIsForgotten` | The first `enrich_run` of a run meets the lock held by a recruiter's request and is dropped (`tasks.py:1518`); no row asks for it again. |

Read from the code only:

* Enrichment: a run cancelled while a request is queued by a rate limit or pending keeps
  that request's reservation open for good (`enrichment.py:162`). `start_run` and
  `request_candidate_enrichment` do not set the tenant of the transaction again after
  their first commit.
* Privacy: a payload whose transaction is rolled back after the upload leaves an object no
  row names; so do two deletions that share a snapshot, when a payload uploads it again
  between the purge and its record, and a reconciliation that purges an object just
  uploaded again. A second `execute_privacy_deletion` of a completed request is retried
  every minute for ever (`privacy/tasks.py:128`). `store` and `reveal` do not lock the
  contact point against the daily erasure: one that overlaps may leave a value in a row
  marked expired (`contacts.py:196`). A person whose provider id changes keeps the URL,
  and the new id is not recorded, so not suppressed.
* Identity: only `provision` makes an owner, so an agency has one. A member who is
  removed and invited again has the old grants. A request acts on the role read at its
  start; one that finds a member as it wants it writes nothing, also if a claim or another
  change has been committed since: such a removal succeeds and
  leaves one who has just joined active (`identity/service.py:334`). A grant locks the member, then the key, a revocation the key, then the member:
  the database breaks the tie (`Abort`). `update_industries` and `set_tags` delete and
  insert without a lock: two at once leave the union (`clients/service.py:109`,
  `crm/service.py:638`).
* Scorecards: criteria are matched to their predecessors in the order submitted, so an
  exchange of two keys may turn an inference into one a recruiter entered.
* CRM: each later finalization of an on-demand request of a ready run sets
  `completed_at` again (`webhooks.py:833`, `enrichment.py:1305`), which moves the end of the
  week and may make an older run the latest, while the design document (`:314`) says
  "Measure it seven days after results become Ready". The model has it
  (`OnDemandEnds`). An export whose last card is rescored lower and is next repeats that
  card (`exports.py:89`, above): `export.rows[i] # export.rows[i + 1]` as an invariant of
  `Workspace.cfg` is violated. An assignment to the assignee it read is not written though its activity
  says so.
* Matching: an exclusion about work eligibility is evaluated as a requirement
  (`_eligibility_evaluation` does not invert), and `HardGatesHold` leaves it out. No
  ingestion brings work eligibility yet, so a scorecard that requires it makes every
  candidate a near match; the profiles of `MCWorkspace` have it all the same.

Because of all these, the properties concerned are checked where the environment
excludes exactly the scenarios above: those of `recovery` without failing searches,
those of `enrichment_answers` without a disabled connector and without polls that wait
in vain, those of `enrichment_progress` without crashes, lost answers, connectors
disabled by others or authentication errors in polls, those of `dispatch` without
on-demand requests on the lock of a run. `enrichment` excludes nothing.

### Fairness

`FairSpec` of the pipeline assumes weak fairness of `Work(w)` for each worker: a Celery
process that has a message, or sees one waiting, keeps going until it crashes, and it is
restarted. Nothing is assumed of recruiters, webhooks or crashes. `RunsProgress` does not
say `enriching` is left: that depends on the provider's answer or a deadline. In
`Enrichment` the pass, each poll task, each `enrich_request` and the commit of an open
transaction are weakly fair; the expiry and the resumption of a batch are strongly fair,
since a pass that comes back every minute finds the deadline passed in the end although
each pass also may find it ahead. Webhooks, recruiters and other runs are not fair, so
both properties hold without a single webhook. `Pass` includes the call: the provider
client has a timeout.

In `MCMaintenance` the scheduler's minutely task (`SweepRuns` and its siblings), the end of
leases and delays, the workers that take waiting messages and the daily job of deletions
are weakly fair. Strongly fair are only steps whose guard others switch off and on
again: in `DemandDispatch` taking a request with the lock free, in `RetryDispatch` taking
a due retry with the lock free and the pass that settles the last request (six attempts
and a deadline end every one), and in
`PrivacyDeletion` the lock of the gate and of the candidate (PostgreSQL grants locks in
the order of the requests) and taking an order from the broker, which several
maintenance processes share. Recruiters, managers and faults are not fair.

## 5. Proofs

`RunPipelineProofs` proves for every set of runs and workers, every catalogue of people
and pages, and all bounds:

* `TypeCorrect`: `Spec => []TypeOK`, one lemma per task.
* `SpendingBounded`: `Spec => []SpendWithinCap`. The invariant is not inductive: a
  worker between reservation and call has one page reserved and not searched. The
  strengthening says searches plus the workers at `search` stay within `reserved`; its
  steps rest on the cardinality theorems for finite sets.
* `CheckpointsAgree`: `Spec => []CheckpointsFollowState`. The strengthening adds
  `QueuedAwaitsPlan`: while a run is queued, its messages and its workers are all at
  `plan_run`, so no later task can complete a checkpoint early.
* `CancellationFreezes`: `Spec => CancelFreezesCandidates`, from the guards of the two
  actions that add candidates and scores and the finality of `cancelled`.

The proofs use `CatalogAssumption`, `LimitAssumption`, `EnvironmentAssumption` and
`NoJobAssumption`, which TLC evaluates in every run.

`RunPromiseProofs` goes on from there. Its lemma `SourceLockExclusive` says that at most
one worker is in the section under the source lock of a run.

* `LimitKept`: `Spec => []SeenWithinLimit`. `RoomLeft` adds that whoever will record a
  page has seen fewer ids than the limit; with a second worker under the lock that would
  not last.
* `OneLateSearch`: `Spec => []AtMostOneSearchAfterCancel`. `Lateness` adds that after
  the late search nobody is about to make another.
* `PromiseKept`: `Spec => KeepsRunPromise`, the refinement of `RunLifecycle`: initial
  states map to initial states, and each action is a step of the abstract run or none.
  It needs `ScoredAreFound` and `CheckpointsFollowState`.
* `ResultsFit`: `[]ResultsMatchState` for `ProviderAnswers` (no search fails, no
  enrichment is refused for want of authorization) and without on-demand requests.
  `StageInv` and `ResultsInv` say what each stage leaves for the next. The hypotheses
  are those of `PipelineRecovery.cfg`; the second and third rows of the disagreements
  show why neither can be dropped.
* `NoWorkLost`: `Spec /\ []BudgetLasts => []WorkNotLost` for `ProviderAnswers` and
  `MaxFailures <= MaxTries`. `NextStageInHand` says for each state which message waits
  or which worker is where. `BudgetLasts` (a page can still be reserved) is needed
  because of the first row of the disagreements, `MaxFailures <= MaxTries` because a
  message is dropped when its tries are used up.

`EnrichmentProofs` proves for every set of requests, every budget, number of attempts
and set of answers, with crashes, disabled connectors and cancellation:

* `EnrichmentTypeCorrect`: `Spec => []TypeOK`; `retry_count` within `MaxAttempts` is not
  inductive: `AttemptsLeft` adds that a request that is not over, or whose poll was told
  to wait, has an attempt left.
* `NoRequestSubmittedTwice`: `Spec => []SubmittedOnce`. The strengthening `Submissions`
  says that a request `none` or `queued` was never accepted (`Unsent`), that what is
  polled or applied was submitted (`Followed`), and what the pass holds (`Held`): every
  request not yet dispatched is `submitting` and not accepted, and the first one, while
  its answer is recorded, is not accepted if the answer is a rate limit. Without `Held`
  a rate limit could put an accepted request back into the queue.
* `CancellationStopsSubmissions`: `Spec => []AtMostOneSubmissionAfterCancel`, from
  `Submissions` and `Lateness`: after a late call the pass is not about to call, and it
  comes there only when the run is not cancelled.
* `AnswersStay`: `Spec => AnswersAreFinal` if no poll is told to wait (the fifth row of
  the disagreements is that poll). `Applied` says that the request of an open
  transaction is pending, `RowsWait` that nobody else changes its row before the commit.
* `AcceptedIsCharged`: `[]AcceptedWorkIsCharged` for `Authorized`: no authentication
  error here, no other run that disables the connector (the ninth row). `Connected` says
  that nobody then acts as if it were off, `Billed` that an open request has its unit.
* `ReadyIsComplete`: `[]ReadyMeansCompleted` for `Authorized` and no poll that waits.
  `Prepares` says that behind *prepare* every automatic request was opened, `CountHolds`
  that what an open transaction counted as the last request still is the last,
  `StatusMoves` which status follows which. A connector that is off makes a run without
  requests `ready` (the second row).

The hypotheses of the last three are the instance of `enrichment_answers`.

These modules have one lemma per action; `RowKeeps`, `MoveKeeps` and `PollMoves` state
what any step of a kind preserves. `RequestAssumption` and `BoundAssumption` are what
`EnrichmentProofs` rests on.

`DispatchProofs` proves of the retries of `enrich_run`, for every number of workers,
maintenance processes, generations and faults (`RetryAssumption`), from one inductive
invariant, `RetryInv`:

* `RetryTypeCorrect` and `RetryClaimsFit`: the types, and the CHECK constraints of
  migration 0016. `YoungIsClaimed` adds that only a claim has an age.
* `CompletedRetriesStay`: `RetryDispatchSpec => CompletedStaysCompleted`.
* `RetriesAreDurable`: `[]RetriedWorkIsDurable` if on-demand requests stay off the lock
  of the run. `CompletedIsSettled` says that a generation is completed only after the
  last request was settled, `NoneStaged` that nothing but the first message exists
  before the first retry is staged, and `LockIsAtWork` that a message dropped because
  the lock is held leaves a worker behind that will stage the retry.

And of the other outboxes, for every number of runs, requests, API processes, maintenance
processes and faults (`ClaimAssumption`, `RunDispatchAssumption`, `DemandAssumption`):

* `RunOnce`: `RunDispatchSpec => []ScorecardIsRunOnce`, whatever keys are repeated.
* `DispatchTypeCorrect` and `NothingForgotten`: `[]DispatchTypeOK` and
  `[]NothingIsForgotten` of `MCDispatch`, whose lanes are the three outboxes.
  `PublishedBeforeCleared` and `PublishedBeforeCompleted` carry the argument: whoever is
  about to clear a row, and still holds its claim, has published it. Whoever has lost
  the claim clears nothing. The second theorem assumes that on-demand requests stay off
  the lock of the run, as `Dispatch.cfg` does (the last row of the disagreements).
* `DispatchStaysDone`: `Spec => []ScorecardIsRunOnce /\ CompletedStaysCompleted`, since a
  behaviour of `MCDispatch` is one of each outbox (`LanesAreDispatches`).

`PeopleProofs` proves, for any number of candidates, identifiers, requests, workers,
managers and maintenance processes (`PeopleAssumption`, `DeletionAssumption`), from one
inductive invariant, `DeletionInv`:

* `DeletionTypeCorrect`, and `ProfileStays`: `DeletionSpec => []OneRowPerProfile`.
* `ListedStayOut`: `DeletionSpec => SuppressedStayOut`.
* `ErasureCompletes`: `DeletionSpec => ErasureIsComplete`.
* `RenewedStay`: `DeletionSpec => RenewedSnapshotsStay`.

The argument is the gate. Who ingests a person or applies a payload holds the locks of
the digests (`LocksApart`), so what it read under them still holds when it writes
(`IngestionsHold`, `ReadsHold`, `PayloadsHold`); and the suppression list grows only
while nobody holds the gate. `ObjectsOfRequests`, `ObjectsAreKnown` and `TargetsHold`
follow the snapshots: each object with data of an executing deletion is a target of it,
unless it is one of the lost objects of section 4. The attempt to prove
`SuppressedStayOut` as an invariant of the URLs found that it is none: digests are
collected before the gate, and a URL collected then may belong to another candidate when
the gate is held. The candidate keeps a URL that is on the list, and what holds, and is
now stated, is that nobody *takes* a listed URL.

For one contact point, with any number of days and any policies (`RetentionAssumption`):

* `RetentionIsKept`: `ContactSpec => RetentionHolds`. `Expiring` says how the expiry
  follows from the columns: the anchor plus the days once the value was verified or
  used, before that at most the observation plus the days. `Lawful` says that, and that
  the tombstone keeps the day on which an erased value was due, unless a store or a
  reveal has written over a change it had not read (`overtaken`).

`PeopleTypeCorrect` and `PeopleStaySafe` are about `MCPeople`: `Spec` keeps the types and
has all five properties of the run. `LanesBegin` and `LanesKeep` show that the prepared
states of the lanes (candidates already found and scored, deletions already approved)
satisfy `DeletionInv` and that a lane moves as the deletions and the contact do.

`MembershipProofs` proves for any number of members, clients, invitations and requests
(`MembershipAssumption`), from `MembershipInv`:

* `MembershipTypeCorrect`, with which nobody becomes an owner.
* `MembershipsStay`: `MembershipSpec => []MembershipsAgree`.
* `OldInvitationsStayVoid`: `MembershipSpec => OldInvitationsAreVoid`.

`Holds` says what each transaction has read and still relies on (another owner, the
clients of a member, the pending invitations of an address, an invitation that awaits
its claim), `Apart` that no two hold the same membership, address or invitation.

`WorkspaceProofs` proves for any drafts and extractions, candidates, runs and requests
(`JobAssumption`, `CrmAssumption`):

* `NoRevisionIsOverwritten` and `ScorecardsStayHonest`: `[]EditsBuildOnWhatTheySaw` and
  `[]ScorecardsAreHonest` of `JobSpec`. An edit holds the row from reading to writing
  (`RowsHold`) and is alone (`OneHolder`); an extraction holds nothing while the model
  answers and looks again. `DraftIsConfirmed` says that what a draft has as confirmed
  was confirmed as it stands there.
* `JobTypeCorrect`: a revision stays within the ledger although several requests may be
  open when it fills up, since each revision has an entry of its own
  (`RevisionsAreCounted`, by a surjection).
* `ActivitiesStayTrue`, `ExportsMissNone`, `AcceptanceStaysSound`, `CrmTypeCorrect` of
  `CrmSpec`, from `CrmInv`. `KeysApart` and `HoldsCard` make a retry apply once;
  `CardHolds` says that activities are the path to the stage and as many as the applied
  requests; `RunHolds` that a cohort is the best of its run, for which the ranks of
  distinct candidates are shown to be distinct numbers; `ExportHolds` that a card nobody
  changed is in the export exactly if the cursor has passed it, and that a cursor on such a
  card has the card's score. A cursor that stays on an old score is therefore on a card that
  was changed, and passes no other. `CrmSpec` bounds neither the rows of an export nor how
  often a card is repeated.
* `WorkspaceTypeCorrect`, `WorkspaceStaysSafe` and `WorkspaceStepsAreSafe` are about
  `MCWorkspace`: in every lane the types and the seven properties of members, jobs and
  cards hold. `LanesStart` and `LanesGoOn` show that the prepared states of the lanes
  satisfy the invariants above (`LaneAssumption`: the runs 1 and 2 exist and a score can be
  positive). The parts share the ledger, so a lane of members could disturb what is said of
  jobs and cards without touching their rows; `MembersEnter`, `JobsEnter` and `CardsEnter`
  say which requests each part completes, and `RestGoesOn` that a part that rests keeps its
  promises whatever another one completes.
* `PlansStayInOrder` and `MatchesStaySound`: `Spec => []PlansCoverInOrder` and
  `Spec => MatchesAreSound`, from `MatchingProofs`.

`MatchingProofs` proves what the planner and the engine compute, for any titles,
industries and limit, any scorecard, and any finite history (`PlanAssumption`,
`MatchAssumption`):

* `EveryPlanCovers`: `PlanInit => PlanCoversInOrder`. `StableUniqueKeepsFirstOnes` says
  that the names stay, each once, in the order of their first spelling,
  `FlattenGoesRowByRow` that the queries go through the industries and, within each, through
  the groups of titles, every pair once; the limit cuts off an end of that.
* `ScoresStaySound`: `MatchSpec => [](PointsAddUp /\ HardGatesHold /\ YearsCountOnce)`,
  for the profile as ingestions build it up.
  Points: by `Ranks` as many atoms have a rank below k as k says, so the remainder of a
  division is given out whole (`SharesAddUp`); the four groups have no key in common
  (`GroupsAreApart`), so their sums add (`MaximaAddUp`).
  Years: `MergedCovers` is the invariant of the merge, that the spans are apart, in order,
  and cover the years of the intervals seen so far; it rests on the intervals coming in
  order. The sum of their lengths is then the number of those years (`SumCountsYears`).
* `NothingIsHidden`: `MatchSpec => NotRenormalized`. Which atoms there are does not depend
  on the profile (`EvaluationsAgree`), so neither does what each is out of.

The induction theorems of the library take an operator as a parameter, which the provers
cannot instantiate. `Climb` and `Shrink` do without: they are induction for a *set* of
numbers and a *set* of subsets, from the least member of a set of naturals (`Least`). That
a fold satisfies its equation is not free either, since it is a `CHOOSE` of a function:
`FoldIsDefined` and `SumIsDefined` build a solution, and what is chosen is then one.

Only model-checked. `RunsProgress`, `EnrichmentEnds`, `DemandsAreAnswered`,
`CommittedWorkIsDone` and `ExecutingDeletionsComplete` are liveness under fairness, which
is out of the prover's reach, as is `ENABLED`. All other properties of the passing runs
are proved, some under the hypotheses named above, which the cfg of the run satisfies.

## 6. Not modelled

The components marked "not_modelled" in `PROJECT.json`, with their reasons: document
extraction (a parser in a subprocess, no state), the audit log (an append in the
caller's transaction), configuration, the restore rehearsal, the web application and
the scripts around the program. Inside the pipeline: the zero-charge local search
before the provider is called, job-level budgets and refunds, tenant notifications, the
backfill of page checkpoints of old runs. Inside enrichment: what section 3 lists,
capability tokens and the parsing of payloads. Inside people: merges and splits of
candidates, which need a second provider (with Apollo alone every pair has a provider
conflict), the access export (a read), and encryption. Inside the workspace: notes, tags,
assignment and the fields of jobs and clients, each an edit of one row; the listings;
the wording of explanations; sessions and tokens.
