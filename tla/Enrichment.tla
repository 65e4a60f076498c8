----------------------------- MODULE Enrichment -----------------------------
(***************************************************************************)
(* The contact enrichment of one ranked run, request by request:            *)
(* src/backend/app/sourcing/enrichment.py and webhooks.py, and the tasks    *)
(* enrich_run, enrich_request and poll_enrichment_result of tasks.py.       *)
(*                                                                         *)
(* Four actors change a request: the task that holds the enrichment         *)
(* execution lock of the run (the pass), the poll task of the request, the  *)
(* webhook, and the API that queues or cancels.  A step is a transaction or *)
(* a provider call.  A transaction that applies a payload holds the request *)
(* row and the run row from its count of the other requests to its commit,  *)
(* and is two steps: what another transaction commits without the run row   *)
(* in between, it does not see.                                             *)
(***************************************************************************)
EXTENDS Naturals, FiniteSets, RunStateMachine

CONSTANTS
  Batches,        \* automatic requests, numbered in the order of enrichment
  Demands,        \* requests a recruiter asks for, numbered too
  UnitCap,        \* enrichment budget, in requests
  MaxAttempts,    \* _MAX_PROVIDER_RATE_LIMIT_ATTEMPTS, _MAX_PROVIDER_POLL_ATTEMPTS
  SubmitAnswers,  \* what enrich_batch may come to, see Call
  PollAnswers,    \* what poll_enrichment may come to, see PollAsk
  Webhooks,       \* whether the provider delivers results by itself
  Cancellable,    \* whether a recruiter cancels the run
  OtherRuns,      \* whether another run may disable the connector
  Resets,         \* whether an operator may enable it again
  MaxCrashes,     \* bound: lost workers
  NoRequest       \* no payload is being applied

Requests == Batches \cup Demands

ASSUME RequestAssumption ==
  /\ Batches \subseteq Nat /\ Demands \subseteq Nat /\ Batches \cap Demands = {}
  /\ IsFiniteSet(Batches) /\ IsFiniteSet(Demands) /\ Batches # {}
  /\ NoRequest \notin Requests

ASSUME BoundAssumption ==
  /\ UnitCap \in Nat /\ MaxAttempts \in Nat \ {0} /\ MaxCrashes \in Nat
  /\ SubmitAnswers \subseteq {"pending", "completed", "applied", "rate_limited",
                              "lost", "refused", "auth"}
  /\ PollAnswers \subseteq {"result", "pending", "refused", "auth"}
  /\ Webhooks \in BOOLEAN /\ Cancellable \in BOOLEAN
  /\ OtherRuns \in BOOLEAN /\ Resets \in BOOLEAN

VARIABLES
  state,     \* SourcingRun.state
  request,   \* EnrichmentRequest rows and their ledger rows, see Rows
  enabled,   \* ProviderConnectorState.enabled
  wake,      \* an enrich_run message waits, or a staged retry of it
  pass,      \* the task that holds the execution lock, see Passes
  poll,      \* request -> the place of its poll task
  applying,  \* the request whose payload an open transaction applies
  lastOne,   \* what that transaction counted: no other request is open
  accepted,  \* history: request -> submissions the provider accepted
  late,      \* history: submissions made after the cancellation
  crashes    \* history: lost workers

vars == <<state, request, enabled, wake, pass, poll, applying, lastOne,
          accepted, late, crashes>>

payload == <<applying, lastOne>>
history == <<accepted, late, crashes>>

-----------------------------------------------------------------------------
(* Requests and their reservations *)

Open == {"queued", "submitting", "pending"}
Over == {"completed", "failed", "cancelled"}

\* usage: the reservation in the ledger, and how it was reconciled;
\* known: provider_request_id is set; tries: retry_count.
Rows == [status : Open \cup Over \cup {"none"},
         usage : {"none", "reserved", "charged", "released"},
         known : BOOLEAN,
         tries : 0..MaxAttempts]

NoRow == [status |-> "none", usage |-> "none", known |-> FALSE, tries |-> 0]

Set(q, row) == request' = [request EXCEPT ![q] = row]

\* reconcile_usage, once per reservation (usage_reconciled_at).
Settle(row, units) ==
  IF row.usage = "reserved" THEN [row EXCEPT !.usage = units] ELSE row

Units(charge) == IF charge THEN "charged" ELSE "released"

\* _mark_request_failed.
Failed(row, charge) == Settle([row EXCEPT !.status = "failed"], Units(charge))

\* A slip: only a cancelled request is left alone.
UnlessCancelled(row) == row.status # "cancelled"

\* _fail_request does nothing to a request that has its answer.
Failable(row) == row.status \notin {"completed", "cancelled"}

FailedUnlessOver(row, charge) == IF Failable(row) THEN Failed(row, charge) ELSE row

\* What an abort and a sweep charge: the provider is known to have it.
Submitted(row) == row.known \/ row.status = "pending" \/ row.usage = "charged"

Used == Cardinality({q \in Requests : request[q].usage \in {"reserved", "charged"}})

Affordable == Used < UnitCap

Cancelled == state = "cancelled"

\* The rows an open transaction has locked.  reconcile_usage locks the run row
\* even when its caller did not.
RunFree == applying = NoRequest
RowFree(q) == applying # q
SettleFree(q) == RowFree(q) /\ (request[q].usage = "reserved" => RunFree)

OpenRequests == {q \in Requests : request[q].status \in Open}

\* A slip: failed requests are not looked at.
ReadyWhenAnswered(now) == IF state \in {"enriching", "partially_ready"}
                          THEN "ready" ELSE state

\* The run's state once every request is over (webhooks._finalize_run and
\* enrichment._finalize_if_terminal).
Finalized(now) ==
  IF \E q \in Requests : now[q].status = "failed"
  THEN IF state = "enriching" THEN "partially_ready" ELSE state
  ELSE IF state \in {"enriching", "partially_ready"} THEN "ready" ELSE state

\* _finalize_if_terminal counts first and locks the run only when none is open.
FinalizeIfTerminal ==
  \/ OpenRequests # {} /\ UNCHANGED state
  \/ OpenRequests = {} /\ RunFree /\ state' = Finalized(request)

-----------------------------------------------------------------------------
(* The pass *)

Steps == {"idle", "select", "prepare", "expired", "dispatch", "call", "record",
          "exhausted", "pause", "abort", "aborted", "disable", "sweep", "swept",
          "mark_off", "finish", "schedule"}

\* task: the run, or the request of enrich_request; todo: batches to prepare;
\* mine: the requests this pass prepared; left: those not yet dispatched;
\* answer: what the provider said of the first of them; submitted: requests
\* with a receipt; deferred: something must be retried.
Passes == [at : Steps, task : Demands \cup {NoRequest},
           todo : SUBSET Batches, mine : SUBSET Requests, left : SUBSET Requests,
           answer : SubmitAnswers \cup {"none"},
           submitted : SUBSET Requests, deferred : BOOLEAN]

Idle == [at |-> "idle", task |-> NoRequest, todo |-> {}, mine |-> {}, left |-> {},
         answer |-> "none", submitted |-> {}, deferred |-> FALSE]

First(q, S) == q \in S /\ \A other \in S : q <= other
Batch(q) == First(q, pass.todo)
Current(q) == First(q, pass.left)
OfRun == pass.task = NoRequest

At(where) == pass.at = where
Goto(where) == pass' = [pass EXCEPT !.at = where]
Prepared(q) == [pass EXCEPT !.todo = @ \ {q}]
Dispatched(q, where) == [pass EXCEPT !.at = where, !.left = @ \ {q},
                                     !.answer = "none"]

\* enrich_run takes the lock and looks at the connector.
BeginPass ==
  /\ At("idle") /\ wake
  /\ wake' = FALSE
  /\ pass' = [Idle EXCEPT !.at = IF enabled THEN "select" ELSE "sweep"]
  /\ UNCHANGED <<state, request, enabled, poll, payload, history>>

\* The run must still be enrichable; else nothing is done (or the task raises).
Select ==
  /\ At("select") /\ RunFree
  /\ pass' = IF state \in {"enriching", "partially_ready"}
             THEN [pass EXCEPT !.at = "prepare", !.todo = Batches] ELSE Idle
  /\ UNCHANGED <<state, request, enabled, wake, poll, payload, history>>

\* _prepare_request finds the batch answered or waiting for its answer, or the
\* run cancelled.
PrepareNothing(q) ==
  /\ At("prepare") /\ Batch(q) /\ RowFree(q)
  /\ \/ request[q].status \in {"pending"} \cup Over
     \/ request[q].status \in {"none", "queued"} /\ Cancelled /\ RunFree
  /\ pass' = Prepared(q)
  /\ UNCHANGED <<state, request, enabled, wake, poll, payload, history>>

\* A new request with its reservation.
PrepareOpen(q) ==
  /\ At("prepare") /\ Batch(q) /\ RunFree
  /\ request[q].status = "none" /\ ~ Cancelled
  /\ Affordable
  /\ Set(q, [request[q] EXCEPT !.status = "submitting", !.usage = "reserved"])
  /\ pass' = [Prepared(q) EXCEPT !.mine = @ \cup {q}]
  /\ UNCHANGED <<state, enabled, wake, poll, payload, history>>

\* The budget is exhausted: the request fails unreserved, the run is partial.
PrepareExhausted(q) ==
  /\ At("prepare") /\ Batch(q) /\ RunFree
  /\ request[q].status = "none" /\ ~ Cancelled
  /\ ~ Affordable
  /\ Set(q, [request[q] EXCEPT !.status = "failed"])
  /\ state' = IF state = "enriching" THEN "partially_ready" ELSE state
  /\ pass' = Prepared(q)
  /\ UNCHANGED <<enabled, wake, poll, payload, history>>

\* A slip: a submission whose outcome is unknown is made again.
QueuedOrAmbiguous(row) == row.status \in {"queued", "submitting"}

Resumable(row) == row.status = "queued"

\* A request paused by a rate limit, when poll_after has passed.
PrepareResume(q) ==
  /\ At("prepare") /\ Batch(q) /\ RunFree
  /\ Resumable(request[q]) /\ ~ Cancelled
  /\ Set(q, [request[q] EXCEPT !.status = "submitting"])
  /\ pass' = [Prepared(q) EXCEPT !.mine = @ \cup {q}]
  /\ UNCHANGED <<state, enabled, wake, poll, payload, history>>

\* Before poll_after, or before stage_deadline: come back later.
PrepareWait(q) ==
  /\ At("prepare") /\ Batch(q)
  /\ request[q].status \in {"queued", "submitting"}
  /\ pass' = [Prepared(q) EXCEPT !.deferred = TRUE]
  /\ UNCHANGED <<state, request, enabled, wake, poll, payload, history>>

\* A slip: the request that may have been accepted is not charged.
ExpireUncharged(row) == Failed(row, FALSE)

Expire(row) == Failed(row, TRUE)

\* A submission left without an answer, after stage_deadline.
PrepareExpired(q) ==
  /\ At("prepare") /\ Batch(q) /\ SettleFree(q)
  /\ request[q].status = "submitting"
  /\ Set(q, Expire(request[q]))
  /\ pass' = [Prepared(q) EXCEPT !.at = "expired"]
  /\ UNCHANGED <<state, enabled, wake, poll, payload, history>>

PrepareDone ==
  /\ At("prepare") /\ pass.todo = {}
  /\ pass' = [pass EXCEPT !.at = "dispatch", !.left = pass.mine]
  /\ UNCHANGED <<state, request, enabled, wake, poll, payload, history>>

\* A slip: the run is not looked at again before the call.
AlwaysWanted == TRUE

Wanted == ~ Cancelled

\* _request_dispatchable, just before each call of a pass.
Dispatch(q) ==
  /\ At("dispatch") /\ Current(q) /\ RunFree
  /\ Wanted
  /\ Goto("call")
  /\ UNCHANGED <<state, request, enabled, wake, poll, payload, history>>

Withdraw(q) ==
  /\ At("dispatch") /\ Current(q) /\ RunFree
  /\ ~ Wanted
  /\ Set(q, Settle([request[q] EXCEPT !.status = "cancelled"], "released"))
  /\ pass' = Dispatched(q, "dispatch")
  /\ UNCHANGED <<state, enabled, wake, poll, payload, history>>

DispatchDone ==
  /\ At("dispatch") /\ pass.left = {}
  /\ Goto("finish")
  /\ UNCHANGED <<state, request, enabled, wake, poll, payload, history>>

\* enrich_batch.  A rate limit and an authentication error refuse the request;
\* a lost answer and an error leave open whether the provider accepted it.
Call(q) ==
  /\ At("call") /\ Current(q)
  /\ \E answer \in SubmitAnswers, taken \in BOOLEAN :
       /\ answer \in {"rate_limited", "auth"} => ~ taken
       /\ answer \in {"pending", "completed", "applied"} => taken
       /\ accepted' = IF taken THEN [accepted EXCEPT ![q] = @ + 1] ELSE accepted
       /\ pass' = [pass EXCEPT !.at = "record", !.answer = answer]
  /\ late' = IF Cancelled THEN late + 1 ELSE late
  /\ UNCHANGED <<state, request, enabled, wake, poll, payload, crashes>>

Answer(answer) == At("record") /\ pass.answer = answer

\* _record_receipt.  The result comes later, or there is none, or it has come
\* with the receipt: then it is applied, and the run finalized with it.
Receipt(q) ==
  LET row == [request[q] EXCEPT !.known = TRUE]
      now == [request EXCEPT ![q] =
                IF Cancelled THEN Settle([row EXCEPT !.status = "cancelled"], "charged")
                ELSE IF Answer("pending") THEN [row EXCEPT !.status = "pending"]
                ELSE Settle([row EXCEPT !.status = "completed"], "charged")]
  IN
  /\ Answer("pending") \/ Answer("completed") \/ Answer("applied")
  /\ Current(q) /\ RunFree
  /\ request' = now
  /\ state' = IF Answer("applied") /\ OpenRequests = {q}
              THEN Finalized(now) ELSE state
  /\ pass' = [Dispatched(q, "dispatch") EXCEPT !.submitted = @ \cup {q}]
  /\ UNCHANGED <<enabled, wake, poll, payload, history>>

\* _defer_ambiguous_request: charged now, decided at the deadline.
Ambiguous(q) ==
  /\ Answer("lost") /\ Current(q) /\ SettleFree(q)
  /\ Set(q, Settle(request[q], "charged"))
  /\ pass' = [Dispatched(q, "dispatch") EXCEPT !.deferred = TRUE]
  /\ UNCHANGED <<state, enabled, wake, poll, payload, history>>

\* _fail_request after an error that will not go away.
Refused(q) ==
  /\ Answer("refused") /\ Current(q) /\ SettleFree(q)
  /\ Set(q, FailedUnlessOver(request[q], TRUE))
  /\ pass' = Dispatched(q, "dispatch")
  /\ UNCHANGED <<state, enabled, wake, poll, payload, history>>

\* A slip: one attempt too many.
AttemptsPassed(tries) == tries > MaxAttempts

AttemptsUsed(tries) == tries >= MaxAttempts

\* _defer_rate_limited_request; the rest of the pass is paused.
RateLimited(q) ==
  LET row == [request[q] EXCEPT !.status = "queued", !.tries = @ + 1]
      gone == AttemptsUsed(row.tries)
  IN
  /\ Answer("rate_limited") /\ Current(q) /\ SettleFree(q)
  /\ Set(q, IF gone THEN Failed(row, FALSE) ELSE row)
  /\ pass' = [Dispatched(q, IF gone THEN "exhausted" ELSE "pause")
                EXCEPT !.deferred = pass.deferred \/ ~ gone]
  /\ UNCHANGED <<state, enabled, wake, poll, payload, history>>

\* _pause_undispatched_requests.
Pause ==
  /\ At("pause")
  /\ request' = [q \in Requests |->
                   IF q \in pass.left THEN [request[q] EXCEPT !.status = "queued"]
                                      ELSE request[q]]
  /\ pass' = [pass EXCEPT !.at = "finish", !.left = {},
                          !.deferred = @ \/ pass.left # {}]
  /\ UNCHANGED <<state, enabled, wake, poll, payload, history>>

\* An authentication error: every request this pass prepared is failed, one
\* transaction each (_abort_prepared_requests).
Unauthorized ==
  /\ Answer("auth")
  /\ pass' = [pass EXCEPT !.at = "abort", !.left = pass.mine, !.answer = "none"]
  /\ UNCHANGED <<state, request, enabled, wake, poll, payload, history>>

Abort(q) ==
  /\ At("abort") /\ Current(q) /\ SettleFree(q)
  /\ Set(q, FailedUnlessOver(request[q],
                                   OfRun /\ Submitted(request[q])))
  /\ pass' = Dispatched(q, "abort")
  /\ UNCHANGED <<state, enabled, wake, poll, payload, history>>

AbortDone ==
  /\ At("abort") /\ pass.left = {}
  /\ Goto("aborted")
  /\ UNCHANGED <<state, request, enabled, wake, poll, payload, history>>

\* disable_provider; enrich_run sweeps the run, enrich_request is done.
Disable ==
  /\ At("disable")
  /\ enabled' = FALSE
  /\ IF OfRun THEN Goto("sweep") ELSE pass' = Idle
  /\ UNCHANGED <<state, request, wake, poll, payload, history>>

\* fail_active_enrichment_requests.
Sweep ==
  /\ At("sweep") /\ RunFree
  /\ request' = [q \in Requests |->
                   IF q \in OpenRequests THEN Failed(request[q], Submitted(request[q]))
                                         ELSE request[q]]
  /\ Goto("swept")
  /\ UNCHANGED <<state, enabled, wake, poll, payload, history>>

\* _mark_enrichment_provider_disabled.
MarkOff ==
  /\ At("mark_off") /\ RunFree
  /\ state' = IF state = "enriching" THEN "partially_ready" ELSE state
  /\ pass' = Idle
  /\ UNCHANGED <<request, enabled, wake, poll, payload, history>>

\* The calls of _finalize_if_terminal in a pass, and what follows each.
Finalize ==
  /\ FinalizeIfTerminal
  /\ \/ At("expired") /\ (IF OfRun THEN Goto("prepare") ELSE pass' = Idle)
     \/ At("exhausted") /\ (IF OfRun THEN Goto("pause") ELSE pass' = Idle)
     \/ At("aborted") /\ Goto("disable")
     \/ At("swept") /\ Goto("mark_off")
     \/ At("finish") /\ Goto("schedule")
  /\ UNCHANGED <<request, enabled, wake, poll, payload, history>>

\* A slip: only a pass of the run is followed by polls.
PolledForRun(q) == OfRun /\ request[q].status = "pending"

Polled(q) == request[q].status = "pending"

\* After the pass, the poll tasks of what is still pending are sent.
Schedule ==
  /\ At("schedule")
  /\ \E q \in pass.submitted :
       /\ poll' = [poll EXCEPT ![q] = IF Polled(q) THEN "due" ELSE @]
       /\ pass' = [pass EXCEPT !.submitted = @ \ {q}]
  /\ UNCHANGED <<state, request, enabled, wake, payload, history>>

\* A slip: something was submitted, so nothing is retried.
RetriesUnlessSubmitted == pass.deferred /\ pass.mine = {}

Retries == pass.deferred

\* A pass with deferred requests stages and publishes its retry.
EndPass ==
  /\ At("schedule") /\ pass.submitted = {}
  /\ wake' = (wake \/ (OfRun /\ Retries))
  /\ pass' = Idle
  /\ UNCHANGED <<state, request, enabled, poll, payload, history>>

-----------------------------------------------------------------------------
(* enrich_request, delivered until its request is submitted *)

BeginRequest(q) ==
  /\ At("idle") /\ enabled
  /\ request[q].status = "queued" /\ ~ Cancelled /\ RunFree
  /\ Set(q, [request[q] EXCEPT !.status = "submitting"])
  /\ pass' = [Idle EXCEPT !.at = "call", !.task = q, !.mine = {q}, !.left = {q}]
  /\ UNCHANGED <<state, enabled, wake, poll, payload, history>>

\* A submission left without an answer, after stage_deadline.
RequestExpired(q) ==
  /\ At("idle") /\ enabled
  /\ request[q].status = "submitting" /\ SettleFree(q)
  /\ Set(q, Expire(request[q]))
  /\ pass' = [Idle EXCEPT !.at = "expired", !.task = q]
  /\ UNCHANGED <<state, enabled, wake, poll, payload, history>>

\* The run was cancelled, or the connector is disabled.
RequestWithdrawn(q) ==
  /\ At("idle") /\ RunFree
  /\ request[q].status \in {"queued", "submitting"}
  /\ \/ ~ enabled /\ Set(q, Failed(request[q], request[q].known))
     \/ /\ enabled /\ Cancelled /\ request[q].status = "queued"
        /\ Set(q, Settle([request[q] EXCEPT !.status = "cancelled"], "released"))
  /\ UNCHANGED <<state, enabled, wake, pass, poll, payload, history>>

-----------------------------------------------------------------------------
(* poll_enrichment_result *)

Polls == {"none", "due", "applying", "finalize", "finalize_off", "off"} \cup PollAnswers

PollAt(q, where) == poll[q] = where
PollGoto(q, where) == poll' = [poll EXCEPT ![q] = where]

\* The request is read, and the provider asked unless it is over.
PollAsk(q) ==
  /\ PollAt(q, "due") /\ enabled
  /\ \E answer \in PollAnswers :
       PollGoto(q, IF request[q].status \in Over THEN "none" ELSE answer)
  /\ UNCHANGED <<state, request, enabled, wake, pass, payload, history>>

\* _mark_enrichment_request_provider_disabled.
PollDisabled(q) ==
  /\ PollAt(q, "due") /\ ~ enabled /\ SettleFree(q)
  /\ Set(q, FailedUnlessOver(request[q], request[q].known))
  /\ PollGoto(q, "none")
  /\ UNCHANGED <<state, enabled, wake, pass, payload, history>>

\* _defer_poll_request does not look at the status.
PollPending(q) ==
  LET row == [request[q] EXCEPT !.tries = @ + 1]
      gone == AttemptsUsed(row.tries)
  IN
  /\ PollAt(q, "pending") /\ SettleFree(q)
  /\ Set(q, IF gone THEN Failed(row, TRUE) ELSE row)
  /\ PollGoto(q, IF gone THEN "finalize" ELSE "due")
  /\ UNCHANGED <<state, enabled, wake, pass, payload, history>>

PollRefused(q) ==
  /\ PollAt(q, "refused") \/ PollAt(q, "auth")
  /\ SettleFree(q)
  /\ Set(q, FailedUnlessOver(request[q], TRUE))
  /\ PollGoto(q, IF PollAt(q, "auth") THEN "finalize_off" ELSE "finalize")
  /\ UNCHANGED <<state, enabled, wake, pass, payload, history>>

PollFinalize(q) ==
  /\ FinalizeIfTerminal
  /\ \/ PollAt(q, "finalize") /\ PollGoto(q, "none")
     \/ PollAt(q, "finalize_off") /\ PollGoto(q, "off")
  /\ UNCHANGED <<request, enabled, wake, pass, payload, history>>

\* disable_provider; the request is already over.
PollDisables(q) ==
  /\ PollAt(q, "off")
  /\ enabled' = FALSE
  /\ PollGoto(q, "none")
  /\ UNCHANGED <<state, request, wake, pass, payload, history>>

-----------------------------------------------------------------------------
(* apply_enrichment_payload, for a webhook and for the result of a poll *)

\* Both rows are locked; the other requests are counted.
BeginApply(q) ==
  /\ RunFree
  /\ request[q].status = "pending" /\ ~ Cancelled
  /\ applying' = q
  /\ lastOne' = (OpenRequests = {q})

Webhook(q) ==
  /\ Webhooks
  /\ request[q].known
  /\ BeginApply(q)
  /\ UNCHANGED <<state, request, enabled, wake, pass, poll, history>>

PollApply(q) ==
  /\ PollAt(q, "result")
  /\ \/ BeginApply(q) /\ PollGoto(q, "applying")
     \/ /\ RunFree
        /\ request[q].status \in Over \/ Cancelled
        /\ PollGoto(q, "none")
        /\ UNCHANGED payload
  /\ UNCHANGED <<state, request, enabled, wake, pass, history>>

\* The commit: completed, reconciled, and the run finalized when the count said so.
CommitApply(q) ==
  LET now == [request EXCEPT ![q] = Settle([@ EXCEPT !.status = "completed"], "charged")]
  IN
  /\ applying = q
  /\ request' = now
  /\ state' = IF lastOne THEN Finalized(now) ELSE state
  /\ applying' = NoRequest
  /\ lastOne' = FALSE
  /\ PollGoto(q, IF PollAt(q, "applying") THEN "none" ELSE poll[q])
  /\ UNCHANGED <<enabled, wake, pass, history>>

-----------------------------------------------------------------------------
(* The API, other runs, lost workers *)

Cancel ==
  /\ Cancellable /\ RunFree
  /\ state \notin TerminalStates
  /\ state' = "cancelled"
  /\ UNCHANGED <<request, enabled, wake, pass, poll, payload, history>>

\* queue_on_demand_enrichment.
QueueOnDemand(q) ==
  /\ RunFree
  /\ state \in {"partially_ready", "ready"}
  /\ request[q].status = "none"
  /\ Affordable
  /\ Set(q, [request[q] EXCEPT !.status = "queued", !.usage = "reserved"])
  /\ UNCHANGED <<state, enabled, wake, pass, poll, payload, history>>

DisabledElsewhere ==
  /\ OtherRuns /\ enabled
  /\ enabled' = FALSE
  /\ UNCHANGED <<state, request, wake, pass, poll, payload, history>>

\* The platform operator has rotated the credential (provider-outage.md).
ResetConnector ==
  /\ Resets /\ ~ enabled
  /\ enabled' = TRUE
  /\ UNCHANGED <<state, request, wake, pass, poll, payload, history>>

\* A worker dies: its message is delivered again.
CrashPass ==
  /\ ~ At("idle")
  /\ crashes < MaxCrashes
  /\ crashes' = crashes + 1
  /\ wake' = (wake \/ OfRun)
  /\ pass' = Idle
  /\ UNCHANGED <<state, request, enabled, poll, payload, accepted, late>>

CrashPoll(q) ==
  /\ poll[q] \notin {"none", "due", "applying"}
  /\ crashes < MaxCrashes
  /\ crashes' = crashes + 1
  /\ PollGoto(q, "due")
  /\ UNCHANGED <<state, request, enabled, wake, pass, payload, accepted, late>>

-----------------------------------------------------------------------------
\* match_run has ranked the run and sent enrich_run.
Init ==
  /\ state = "enriching"
  /\ request = [q \in Requests |-> NoRow]
  /\ enabled = TRUE
  /\ wake = TRUE
  /\ pass = Idle
  /\ poll = [q \in Requests |-> "none"]
  /\ applying = NoRequest
  /\ lastOne = FALSE
  /\ accepted = [q \in Requests |-> 0]
  /\ late = 0
  /\ crashes = 0

Preparing(q) == \/ PrepareNothing(q) \/ PrepareOpen(q) \/ PrepareExhausted(q)
                \/ PrepareResume(q) \/ PrepareWait(q) \/ PrepareExpired(q)

Dispatching(q) == \/ Dispatch(q) \/ Withdraw(q) \/ Call(q) \/ Receipt(q)
                  \/ Ambiguous(q) \/ Refused(q) \/ RateLimited(q) \/ Abort(q)

Moving == \/ BeginPass \/ Select \/ PrepareDone \/ DispatchDone \/ Pause
          \/ Unauthorized \/ AbortDone \/ Disable \/ Sweep \/ MarkOff
          \/ Finalize \/ Schedule \/ EndPass

Pass == \/ Moving
        \/ \E q \in Batches : Preparing(q)
        \/ \E q \in Requests : Dispatching(q)

RequestTask(q) == BeginRequest(q) \/ RequestExpired(q) \/ RequestWithdrawn(q)

PollTask(q) == \/ PollAsk(q) \/ PollDisabled(q) \/ PollPending(q) \/ PollRefused(q)
               \/ PollFinalize(q) \/ PollDisables(q) \/ PollApply(q)

Next ==
  \/ Pass \/ Cancel \/ DisabledElsewhere \/ ResetConnector \/ CrashPass
  \/ \E q \in Demands : RequestTask(q) \/ QueueOnDemand(q)
  \/ \E q \in Requests : PollTask(q) \/ Webhook(q) \/ CommitApply(q) \/ CrashPoll(q)

Spec == Init /\ [][Next]_vars

\* Celery workers take the messages that wait; a pass that keeps finding a
\* request before its deadline is past it in the end.
FairSpec ==
  /\ Spec
  /\ WF_vars(Pass)
  /\ \A q \in Batches : SF_vars(PrepareExpired(q)) /\ SF_vars(PrepareResume(q))
  /\ \A q \in Demands : WF_vars(RequestTask(q))
  /\ \A q \in Requests : WF_vars(PollTask(q)) /\ WF_vars(CommitApply(q))

-----------------------------------------------------------------------------
(* Properties *)

\* Every variable keeps its type; retry_count never passes the attempts.
TypeOK ==
  /\ state \in RunStates
  /\ request \in [Requests -> Rows]
  /\ enabled \in BOOLEAN /\ wake \in BOOLEAN
  /\ pass \in Passes
  /\ poll \in [Requests -> Polls]
  /\ applying \in Requests \cup {NoRequest} /\ lastOne \in BOOLEAN
  /\ accepted \in [Requests -> Nat] /\ late \in Nat /\ crashes \in Nat

\* The provider never gets a request twice, however ambiguous the outcome of a
\* submission was (_prepare_request and execute_queued_enrichment_request).
SubmittedOnce == \A q \in Requests : accepted[q] <= 1

\* What the provider accepted is charged when the request is over, whoever ends
\* it (the webhook, the poll, the deadline, the abort, the cancellation).
AcceptedWorkIsCharged ==
  \A q \in Requests :
    request[q].status \in Over /\ accepted[q] > 0 => request[q].usage = "charged"

\* After a cancellation only the submission already under way is made.
AtMostOneSubmissionAfterCancel == late <= 1

\* The answer of a request is final, whichever actor comes later.
AnswersAreFinal ==
  [][\A q \in Requests : request[q].status \in Over =>
                           request'[q].status = request[q].status]_vars

\* A run is ready only when every automatic request is completed.
ReadyMeansCompleted ==
  state = "ready" => \A q \in Batches : request[q].status = "completed"

\* With fair workers, the enrichment of a run ends.
EnrichmentEnds == <>(state # "enriching")

\* What a recruiter asks for is answered or refused in the end, whether or not
\* the provider delivers results by itself (enrich_request and its polls).
DemandsAreAnswered ==
  \A q \in Demands :
    request[q].status = "queued" ~> request[q].status \in Over \/ Cancelled
=============================================================================
