--------------------------- MODULE PrivacyDeletion ---------------------------
(***************************************************************************)
(* Privacy requests and the deletion they lead to: PrivacyService, the      *)
(* database functions of migration 0010, and the maintenance tasks          *)
(* execute_privacy_deletion, resume_privacy_deletions and                   *)
(* reconcile_expired_snapshots.                                             *)
(*                                                                         *)
(* A deletion first makes the suppression list and the list of snapshots    *)
(* durable, together with a first redaction; maintenance then purges the    *)
(* snapshots one by one and completes the request when none is left.        *)
(***************************************************************************)
EXTENDS People

CONSTANTS
  Asks,       \* privacy requests
  Managers,   \* API processes that execute requests for owners and admins
  Cleaners,   \* maintenance processes
  MaxTroubles, \* bound: purges that fail and processes that die
  NoAsk,      \* no privacy request
  NoRequest   \* no enrichment request

ASSUME DeletionAssumption == MaxTroubles \in Nat /\ NoAsk \notin Asks

VARIABLES
  ask,       \* PrivacyRequest rows
  call,      \* manager -> its open execute_delete
  targets,   \* ask -> PrivacyDeletionSnapshotTarget rows: request -> status
  ordered,   \* asks of which the broker holds an execute_privacy_deletion
  cleaner,   \* maintenance process -> its place
  leased,    \* targets claimed less than an hour ago
  troubles   \* history: purges that failed and processes that died

privacyVars == <<ask, call, targets, ordered, cleaner, leased, troubles>>
deletionVars == <<peopleVars, privacyVars>>

Kinds == {"deletion", "access"}
Closed == {"completed", "rejected"}
NoRequestRow == [row |-> NoRow, kind |-> "none", state |-> "none", digests |-> {}]
NoCall == [at |-> "idle", ask |-> NoAsk, digests |-> {}]
IdleCleaner == [at |-> "idle", ask |-> NoAsk, left |-> {}, item |-> NoRequest, failed |-> FALSE]

-----------------------------------------------------------------------------
(* The request up to its approval.  Each step is one transaction that locks *)
(* the row; an idempotency key that was used gives the same answer again    *)
(* and changes nothing.                                                     *)

\* One request per candidate and kind is open; asking again returns it.
Open(r, kind) == {p \in Asks : ask[p].row = r /\ ask[p].kind = kind
                               /\ ask[p].state \notin Closed}

Submit(p, r, kind) ==
  /\ ask[p].row = NoRow /\ row[r] # "free" /\ Open(r, kind) = {}
  /\ ask' = [ask EXCEPT ![p] = [row |-> r, kind |-> kind, state |-> "verify", digests |-> {}]]
  /\ UNCHANGED <<peopleVars, call, targets, ordered, cleaner, leased, troubles>>

Locked(p) == \E m \in Managers : call[m].at = "collected" /\ call[m].ask = p

Move(p, from, to) ==
  /\ ask[p].state \in from /\ ~Locked(p)
  /\ ask' = [ask EXCEPT ![p].state = to]
  /\ UNCHANGED <<peopleVars, call, targets, ordered, cleaner, leased, troubles>>

Verify(p) == Move(p, {"verify"}, "received")
Approve(p) == Move(p, {"received"}, "approved")

\* Requests that await a fulfilment by hand may still be rejected.
Reject(p) == Move(p, {"verify", "received", "approved", "manual"}, "rejected")
Fulfil(p) == ask[p].kind = "access" /\ Move(p, {"approved"}, "manual")

-----------------------------------------------------------------------------
(* execute_delete.                                                          *)

\* The digests are collected under the lock of the request only.
CollectDigests(m, p) ==
  /\ call[m].at = "idle" /\ ~Locked(p)
  /\ ask[p].kind = "deletion" /\ ask[p].state \in {"approved", "executing"}
  /\ call' = [call EXCEPT ![m] = [at |-> "collected", ask |-> p,
                                  digests |-> DigestsOf(ask[p].row)]]
  /\ UNCHANGED <<peopleVars, ask, targets, ordered, cleaner, leased, troubles>>

\* Behind the gate and the lock of the candidate they are collected again.
AllDigests(m) == call[m].digests \cup DigestsOf(ask[call[m].ask].row)

SnapshotsOf(r) == {q \in Requests : r \in asked[q] /\ reference[q].at # "none"}

NoTargets == [q \in Requests |-> "none"]

Redact(r) ==
  /\ identity' = [k \in Keys |-> IF identity[k].row = r THEN [row |-> NoRow, url |-> NoUrl]
                                 ELSE identity[k]]
  /\ row' = [row EXCEPT ![r] = "redacted"]
  /\ emails' = [emails EXCEPT ![r] = {}]
  /\ evidence' = [evidence EXCEPT ![r] = IF @ = "none" THEN @ ELSE "unscored"]
  /\ card' = [card EXCEPT ![r] = IF @ = "none" THEN @ ELSE "blank"]

\* A slip: the suppression list is written without the exclusive gate.
WithoutGate == TRUE

GateIsFree == \A w \in Workers : ~HoldsGate(w)

\* The exclusive gate waits for every ingestion and payload under way; then the
\* list, the targets and the first redaction are committed together.
PrepareDeletion(m) ==
  LET p == call[m].ask
      r == ask[p].row IN
  /\ call[m].at = "collected" /\ GateIsFree
  /\ suppressed' = suppressed \cup AllDigests(m)
  /\ targets' = [targets EXCEPT ![p] = [q \in Requests |->
       IF q \in SnapshotsOf(r) /\ @[q] = "none" THEN "pending" ELSE @[q]]]
  /\ Redact(r)
  /\ ask' = [ask EXCEPT ![p].state = "executing", ![p].digests = @ \cup AllDigests(m)]
  /\ call' = [call EXCEPT ![m].at = "prepared"]
  /\ UNCHANGED <<asked, object, reference, work, lost, ordered, cleaner, leased, troubles>>

Pending(p) == {q \in Requests : targets[p][q] # "none"}

\* privacy_finalize_deletion: everything is redacted once more.
Finalize(p) ==
  IF ask[p].state = "executing" /\ Pending(p) = {}
  THEN /\ Redact(ask[p].row)
       /\ ask' = [ask EXCEPT ![p].state = "completed"]
  ELSE UNCHANGED <<identity, row, emails, evidence, card, ask>>

\* The second transaction completes what needs no purge; otherwise the task of
\* maintenance is published.
FinishCall(m) ==
  LET p == call[m].ask IN
  /\ call[m].at = "prepared" /\ ~Locked(p)
  /\ Finalize(p)
  /\ ordered' = IF ask'[p].state = "executing" THEN ordered \cup {p} ELSE ordered
  /\ call' = [call EXCEPT ![m] = NoCall]
  /\ UNCHANGED <<suppressed, asked, object, reference, work, lost, targets, cleaner,
                 leased, troubles>>

CallDies(m) ==
  /\ call[m].at # "idle" /\ troubles < MaxTroubles
  /\ call' = [call EXCEPT ![m] = NoCall]
  /\ troubles' = troubles + 1
  /\ UNCHANGED <<peopleVars, ask, targets, ordered, cleaner, leased>>

-----------------------------------------------------------------------------
(* Maintenance.  A lease stands for the hour during which a claim excludes  *)
(* others; the claims of reconcile_expired_snapshots carry no request.      *)

\* A slip: only requests with something to purge are resumed.
DueWithTargets(p) == \E q \in Pending(p) : targets[p][q] # "delayed"

Due(p) == Pending(p) = {} \/ \E q \in Pending(p) : targets[p][q] # "delayed"

\* resume_privacy_deletions, once a day.
Resume(p) ==
  /\ ask[p].state = "executing" /\ Due(p) /\ p \notin ordered
  /\ ordered' = ordered \cup {p}
  /\ UNCHANGED <<peopleVars, ask, call, targets, cleaner, leased, troubles>>

\* A process takes the message; a message of a process that died comes back.
TakeOrder(c, p) ==
  /\ cleaner[c].at = "idle" /\ p \in ordered
  /\ cleaner' = [cleaner EXCEPT ![c] = [IdleCleaner EXCEPT !.at = "claim", !.ask = p]]
  /\ ordered' = ordered \ {p}
  /\ UNCHANGED <<peopleVars, ask, call, targets, leased, troubles>>

\* A slip: a target is claimed once and for all.
ClaimedOnce(p, q) == targets[p][q] = "pending"

Claimable(p, q) ==
  targets[p][q] = "pending" \/ (targets[p][q] = "claimed" /\ <<p, q>> \notin leased)

\* With nothing left to claim the task goes on to finalize.
ClaimTargets(c) ==
  LET p == cleaner[c].ask
      due == {q \in Requests : ask[p].state = "executing" /\ Claimable(p, q)} IN
  /\ cleaner[c].at = "claim"
  /\ targets' = [targets EXCEPT ![p] = [q \in Requests |-> IF q \in due THEN "claimed" ELSE @[q]]]
  /\ leased' = leased \cup ({p} \X due)
  /\ cleaner' = [cleaner EXCEPT ![c].at = IF due = {} THEN "finish" ELSE "purge",
                                ![c].left = due]
  /\ UNCHANGED <<peopleVars, ask, call, ordered, troubles>>

\* reconcile_expired_snapshots claims the references that are due.
ClaimExpired(c) ==
  LET due == {q \in Requests : reference[q].at = "expired"
                               /\ (reference[q].claimed => <<NoAsk, q>> \notin leased)} IN
  /\ cleaner[c].at = "idle" /\ due # {}
  /\ reference' = [q \in Requests |-> IF q \in due THEN [reference[q] EXCEPT !.claimed = TRUE]
                                      ELSE reference[q]]
  /\ leased' = leased \cup ({NoAsk} \X due)
  /\ cleaner' = [cleaner EXCEPT ![c] = [IdleCleaner EXCEPT !.at = "purge", !.left = due]]
  /\ UNCHANGED <<identity, row, emails, suppressed, evidence, card, asked, object, work,
                 lost, ask, call, targets, ordered, troubles>>

\* Every version of the object is removed.
Purge(c, q) ==
  /\ cleaner[c].at = "purge" /\ q \in cleaner[c].left
  /\ object' = [object EXCEPT ![q] = {}]
  /\ lost' = lost \ {q}
  /\ cleaner' = [cleaner EXCEPT ![c].at = "mark", ![c].item = q, ![c].left = @ \ {q}]
  /\ UNCHANGED <<identity, row, emails, suppressed, evidence, card, asked, reference,
                 work, ask, call, targets, ordered, leased, troubles>>

\* The object store fails: the target waits, and the batch goes on.
PurgeFails(c, q) ==
  LET p == cleaner[c].ask IN
  /\ cleaner[c].at = "purge" /\ q \in cleaner[c].left /\ troubles < MaxTroubles
  /\ IF p = NoAsk
     THEN /\ reference' = [reference EXCEPT ![q].claimed = FALSE]
          /\ UNCHANGED targets
     ELSE /\ targets' = [targets EXCEPT ![p][q] = IF @ = "none" THEN @ ELSE "delayed"]
          /\ UNCHANGED reference
  /\ leased' = leased \ {<<p, q>>}
  /\ cleaner' = [cleaner EXCEPT ![c].left = @ \ {q}, ![c].failed = TRUE]
  /\ troubles' = troubles + 1
  /\ UNCHANGED <<identity, row, emails, suppressed, evidence, card, asked, object, work,
                 lost, ask, call, ordered>>

\* A slip: the row goes although the reference was renewed meanwhile.
ClaimedOnly(q) == reference[q].claimed

StillExpired(q) == reference[q].at = "expired" /\ reference[q].claimed

\* The reference goes, and with it every target that names it: a privacy claim
\* takes it whatever happened since, an expired one only if it is still due.
MarkDeleted(c) ==
  LET p == cleaner[c].ask
      q == cleaner[c].item
      gone == IF p = NoAsk THEN StillExpired(q) ELSE targets[p][q] = "claimed" IN
  /\ cleaner[c].at = "mark"
  /\ IF gone
     THEN /\ reference' = [reference EXCEPT ![q] = NoReference]
          /\ targets' = [o \in Asks |-> [targets[o] EXCEPT ![q] = "none"]]
          /\ leased' = {l \in leased : l[2] # q}
          /\ lost' = IF object[q] = {} THEN lost ELSE lost \cup {q}
     ELSE UNCHANGED <<reference, targets, leased, lost>>
  /\ cleaner' = [cleaner EXCEPT ![c].at = "purge", ![c].item = NoRequest]
  /\ UNCHANGED <<identity, row, emails, suppressed, evidence, card, asked, object, work,
                 ask, call, ordered, troubles>>

\* After the batch: reconciliation ends when nothing is due any more; a task
\* with a failure is retried, the others claim again.
EndBatch(c) ==
  LET p == cleaner[c].ask
      retried == p # NoAsk /\ cleaner[c].failed IN
  /\ cleaner[c].at = "purge" /\ cleaner[c].left = {}
  /\ ordered' = IF retried THEN ordered \cup {p} ELSE ordered
  /\ cleaner' = [cleaner EXCEPT ![c] = IF p = NoAsk \/ retried THEN IdleCleaner
                                       ELSE [@ EXCEPT !.at = "claim"]]
  /\ UNCHANGED <<peopleVars, ask, call, targets, leased, troubles>>

\* A request that could not be completed now, and one that was completed
\* before, is tried again.
FinishTask(c) ==
  LET p == cleaner[c].ask IN
  /\ cleaner[c].at = "finish" /\ ~Locked(p)
  /\ Finalize(p)
  /\ ordered' = IF ask' = ask THEN ordered \cup {p} ELSE ordered
  /\ cleaner' = [cleaner EXCEPT ![c] = IdleCleaner]
  /\ UNCHANGED <<suppressed, asked, object, reference, work, lost, call, targets, leased,
                 troubles>>

\* The backoff of a target and the lease of a claim end; a snapshot expires.
BackoffEnds(p, q) ==
  /\ targets[p][q] = "delayed"
  /\ targets' = [targets EXCEPT ![p][q] = "pending"]
  /\ UNCHANGED <<peopleVars, ask, call, ordered, cleaner, leased, troubles>>

LeaseEnds(l) ==
  /\ l \in leased
  /\ leased' = leased \ {l}
  /\ UNCHANGED <<peopleVars, ask, call, targets, ordered, cleaner, troubles>>

SnapshotExpires(q) ==
  /\ reference[q].at = "kept"
  /\ reference' = [reference EXCEPT ![q].at = "expired"]
  /\ UNCHANGED <<identity, row, emails, suppressed, evidence, card, asked, object, work,
                 lost, privacyVars>>

CleanerDies(c) ==
  /\ cleaner[c].at # "idle" /\ troubles < MaxTroubles
  /\ ordered' = IF cleaner[c].ask = NoAsk THEN ordered ELSE ordered \cup {cleaner[c].ask}
  /\ cleaner' = [cleaner EXCEPT ![c] = IdleCleaner]
  /\ troubles' = troubles + 1
  /\ UNCHANGED <<peopleVars, ask, call, targets, leased>>

-----------------------------------------------------------------------------

PrivacyInitBesidesAsk ==
  /\ call = [m \in Managers |-> NoCall]
  /\ targets = [p \in Asks |-> NoTargets]
  /\ ordered = {}
  /\ cleaner = [c \in Cleaners |-> IdleCleaner]
  /\ leased = {}
  /\ troubles = 0

PrivacyInit == ask = [p \in Asks |-> NoRequestRow] /\ PrivacyInitBesidesAsk

DeletionInit == PeopleInit /\ PrivacyInit

PrivacyNext ==
  \/ \E p \in Asks :
       \/ \E r \in Rows, kind \in Kinds : Submit(p, r, kind)
       \/ Verify(p) \/ Approve(p) \/ Reject(p) \/ Fulfil(p)
       \/ Resume(p)
       \/ \E q \in Requests : BackoffEnds(p, q)
  \/ \E m \in Managers :
       \/ \E p \in Asks : CollectDigests(m, p)
       \/ PrepareDeletion(m) \/ FinishCall(m) \/ CallDies(m)
  \/ \E c \in Cleaners :
       \/ \E p \in Asks : TakeOrder(c, p)
       \/ ClaimTargets(c) \/ ClaimExpired(c)
       \/ \E q \in Requests : Purge(c, q) \/ PurgeFails(c, q)
       \/ MarkDeleted(c) \/ EndBatch(c) \/ FinishTask(c) \/ CleanerDies(c)
  \/ \E l \in leased : LeaseEnds(l)
  \/ \E q \in Requests : SnapshotExpires(q)

DeletionNext == (PeopleNext /\ UNCHANGED privacyVars) \/ PrivacyNext

DeletionSpec == DeletionInit /\ [][DeletionNext]_deletionVars

\* The locks are granted in the order of their requests, so that whoever waits
\* for the exclusive gate or for the row of a request is served; the daily job
\* runs, processes end what they began, and time passes.
DeletionFairness ==
  /\ PeopleFairness
  /\ \A m \in Managers : SF_deletionVars(PrepareDeletion(m)) /\ SF_deletionVars(FinishCall(m))
  /\ \A p \in Asks : /\ WF_deletionVars(Resume(p))
                     /\ SF_deletionVars(\E c \in Cleaners : TakeOrder(c, p))
                     /\ \A q \in Requests : WF_deletionVars(BackoffEnds(p, q))
  /\ \A c \in Cleaners :
       /\ WF_deletionVars(ClaimTargets(c) \/ (\E q \in Requests : Purge(c, q)) \/ MarkDeleted(c)
                          \/ EndBatch(c))
       /\ SF_deletionVars(FinishTask(c))
  /\ \A p \in Asks, q \in Requests : WF_deletionVars(LeaseEnds(<<p, q>>))

-----------------------------------------------------------------------------

TypeOK ==
  /\ identity \in [Keys -> [row : Rows \cup {NoRow}, url : Urls \cup {NoUrl}]]
  /\ row \in [Rows -> {"free", "person", "redacted"}]
  /\ emails \in [Rows -> SUBSET Emails]
  /\ suppressed \subseteq Digests
  /\ evidence \in [Rows -> Evidence]
  /\ card \in [Rows -> {"none", "personal", "blank"}]
  /\ asked \in [Requests -> SUBSET Rows]
  /\ object \in [Requests -> SUBSET Keys]
  /\ reference \in [Requests -> [at : {"none", "kept", "expired"}, claimed : BOOLEAN]]
  /\ work \in [Workers -> Works]
  /\ lost \subseteq Requests
  /\ ask \in [Asks -> [row : Rows \cup {NoRow}, kind : Kinds \cup {"none"},
                       state : {"none", "verify", "received", "approved", "manual",
                                "executing"} \cup Closed,
                       digests : SUBSET Digests]]
  /\ call \in [Managers -> [at : {"idle", "collected", "prepared"}, ask : Asks \cup {NoAsk},
                            digests : SUBSET Digests]]
  /\ targets \in [Asks -> [Requests -> {"none", "pending", "claimed", "delayed"}]]
  /\ ordered \subseteq Asks
  /\ cleaner \in [Cleaners -> [at : {"idle", "claim", "purge", "mark", "finish"},
                               ask : Asks \cup {NoAsk}, left : SUBSET Requests,
                               item : Requests \cup {NoRequest}, failed : BOOLEAN]]
  /\ leased \subseteq (Asks \cup {NoAsk}) \X Requests
  /\ troubles \in 0..MaxTroubles

\* A person whose provider id is on the suppression list has no identity, and no
\* identity takes a profile URL that is on it, whatever was being ingested when
\* the list was written.
SuppressedStayOut ==
  /\ [](\A k \in Keys \cap suppressed : identity[k].row = NoRow)
  /\ [][\A k \in Keys : identity'[k].url \notin {identity[k].url, NoUrl}
                          => identity'[k].url \notin suppressed']_deletionVars

\* Two pages that bring the same profile URL at the same time never give it to
\* two candidates (_source_identity under the digest locks).
OneRowPerProfile ==
  \A j, k \in Keys : identity[j].url = identity[k].url /\ identity[j].url # NoUrl
                       => identity[j].row = identity[k].row

\* Every identifier a candidate has at the moment it is redacted is suppressed
\* with it, those included that arrived after the first collection
\* (_prepare_deletion collects twice).
DeletionKnowsAll ==
  [][\A r \in Rows : row[r] = "person" /\ row'[r] = "redacted"
                       => DigestsOf(r) \subseteq suppressed']_deletionVars

Erased(p) == ask[p].kind = "deletion" /\ ask[p].state = "completed"

\* Nothing of a completed deletion's candidate comes back: no identity, no
\* address, no profile, no evidence of a match.
CompletedIsRedacted ==
  \A p \in Asks : Erased(p) =>
    LET r == ask[p].row IN
    /\ KeysOf(r) = {} /\ emails[r] = {}
    /\ row[r] = "redacted" /\ evidence[r] # "personal"

\* No snapshot holds what a provider said of the person of a completed
\* deletion, unless it was put there while no ProviderSnapshot named it.
CompletedErasesSnapshots ==
  \A p \in Asks : Erased(p) =>
    \A q \in Requests : object[q] \cap ask[p].digests # {} => q \in lost

\* A deletion knows every identifier of its person, also one that arrived while
\* it waited, and when it has completed nothing of the person is left in a row
\* or in the object store, whatever was written, purged or lost meanwhile.
ErasureIsComplete == [](CompletedIsRedacted /\ CompletedErasesSnapshots) /\ DeletionKnowsAll

\* Reconciliation never takes a snapshot that a payload renewed between its
\* claim and its deletion; only a privacy deletion removes a snapshot early.
RenewedSnapshotsStay ==
  [][\A q \in Requests : reference[q].at = "kept" /\ reference'[q].at = "none"
                           => \E p \in Asks : targets[p][q] # "none"]_deletionVars

\* The CRM card of a completed deletion shows nothing of the person
\* (materialize_run_matches against privacy_finalize_deletion).
CardsDieWithDeletion ==
  \A p \in Asks : Erased(p) => card[ask[p].row] # "personal"

\* A deletion that began to execute completes, whatever purge fails and
\* whichever process dies on the way.
ExecutingDeletionsComplete ==
  \A p \in Asks : ask[p].state = "executing" ~> ask[p].state = "completed"
=============================================================================
