----------------------------- MODULE Scorecards -----------------------------
(***************************************************************************)
(* The draft and the scorecards of one job: JobService.generate_draft,      *)
(* update_draft, confirm_scorecard and revise_scorecard, which several      *)
(* recruiters and retries call at the same time.                            *)
(*                                                                         *)
(* A draft is a sequence of criteria; the empty one is no draft.  A         *)
(* criterion has a key, a content (label, kind and whether evidence is      *)
(* required), an origin, and whether a recruiter confirmed it.  Suggested   *)
(* industries and uncertainties are inferred items like the others.  The    *)
(* arg of a request is the revision its author saw; the draft it submits is *)
(* chosen where it is read.                                                 *)
(***************************************************************************)
EXTENDS Ledger, Sequences, SequencesExt

CONSTANTS
  Users,        \* recruiters who may work on the job
  Drafts,       \* what a recruiter may submit: sequences of [key, content, confirmed]
  Extractions   \* what the model may extract: sequences of criteria

VARIABLES
  job,           \* revision, draft and extraction status of the row
  scorecards,    \* scorecard_versions; the last one is the current one
  extracted,     \* history: contents extracted as stated in the description
  confirmations  \* history: what recruiters confirmed since the last extraction

jobVars == <<job, scorecards, extracted, confirmations>>

Edits == {"update", "confirm", "revise"}

Changes == {e \in ledger : e.request.op \in Edits \cup {"generate"}}

NewJob == [revision |-> 0, draft |-> <<>>, status |-> "ready"]

CriteriaOf(draft) == {draft[i] : i \in DOMAIN draft}

\* What a criterion is, in a draft that is submitted, extracted or kept.
Criterion == [key : {d.key : d \in UNION {CriteriaOf(e) : e \in Drafts \cup Extractions}},
              content : {d.content : d \in UNION {CriteriaOf(e) : e \in Drafts \cup Extractions}},
              origin : {"inferred", "stated", "entered"}, confirmed : BOOLEAN]

\* A draft whose keys are not unique is rejected, whoever brings it.
ASSUME JobAssumption ==
  /\ MaxEntries \in Nat
  /\ \A extraction \in Extractions : CriteriaOf(extraction) \subseteq Criterion
  /\ \A draft \in Drafts \cup Extractions :
       \A i, j \in DOMAIN draft : draft[i].key = draft[j].key => i = j

BeginJob(h, request, key, seen) ==
  /\ open[h].at = "idle" /\ Cardinality(ledger) < MaxEntries
  /\ open' = [open EXCEPT ![h] = Opened(request, key, seen)]
  /\ UNCHANGED <<ledger, jobVars>>

RowIsFree(h) == \A g \in Busy \ {h} : ~open[g].seen.locked

\* expected_revision is a revision that the recruiter has seen.
JobRequest(op, by, revision) == [op |-> op, by |-> by, on |-> "job", arg |-> revision]

AskChangeOfJob(h, by, op, revision, key) ==
  /\ revision \in 0..job.revision
  /\ BeginJob(h, JobRequest(op, by, revision), key, [locked |-> FALSE, revision |-> job.revision])

\* Edits lock the job first and read it again.
LockJob(h) ==
  /\ open[h].at = "begun" /\ open[h].request.op \in Edits
  /\ RowIsFree(h)
  /\ open' = [open EXCEPT ![h].at = "locked", ![h].seen.locked = TRUE, ![h].seen.revision = job.revision]
  /\ UNCHANGED <<ledger, jobVars>>

TakeJobKey(h) ==
  /\ \/ open[h].at = "locked" /\ open[h].request.op \in Edits
     \/ At(h, "begun", "generate")
  /\ TakeKey(h, "keyed")
  /\ UNCHANGED jobVars

Expected(h) == open[h].seen.revision = open[h].request.arg

-----------------------------------------------------------------------------
(* Provenance *)

Match(i, submitted, old, used) ==
  LET byKey == {j \in DOMAIN old \ used : old[j].key = submitted[i].key}
      byContent == {j \in DOMAIN old \ used : old[j].content = submitted[i].content}
  IN IF byKey # {} THEN byKey ELSE byContent

\* A slip: whoever keeps the key of a criterion keeps its origin.
OriginOfKey(criterion, old) == old.origin

\* An inference stays one; what was stated stays so only as it was stated.
OriginFrom(criterion, old) ==
  IF old.origin = "inferred" \/ old.content = criterion.content THEN old.origin ELSE "entered"

\* A slip: a criterion is confirmed when it is submitted so.
AsSubmitted(criterion, origin) == criterion.confirmed

Confirmation(criterion, origin) == criterion.confirmed /\ origin = "inferred"

\* The criterion that each submitted one continues, each taken once in the order
\* submitted, or 0.
Predecessors(submitted, old) ==
  {f \in [DOMAIN submitted -> DOMAIN old \cup {0}] :
     \A i \in DOMAIN submitted :
       LET matches == Match(i, submitted, old, {f[j] : j \in 1..(i - 1)}) IN
       IF matches = {} THEN f[i] = 0
       ELSE f[i] \in matches /\ \A k \in matches : f[i] <= k}

OriginIn(old, criterion, predecessor) ==
  IF predecessor = 0 THEN "entered" ELSE OriginFrom(criterion, old[predecessor])

\* The draft that is kept of a submitted one.
Normalized(submitted, old) ==
  {[i \in DOMAIN submitted |->
      LET origin == OriginIn(old, submitted[i], f[i]) IN
      [key |-> submitted[i].key, content |-> submitted[i].content, origin |-> origin,
       confirmed |-> Confirmation(submitted[i], origin)]] :
   f \in Predecessors(submitted, old)}

Unconfirmed(extraction) == [i \in DOMAIN extraction |-> [extraction[i] EXCEPT !.confirmed = FALSE]]

Resolved(draft) == \A c \in CriteriaOf(draft) : c.origin = "inferred" => c.confirmed

\* What a recruiter confirms by submitting this draft.
ConfirmedIn(draft) == {<<c.key, c.content>> : c \in {d \in CriteriaOf(draft) : d.confirmed}}

-----------------------------------------------------------------------------
(* Drafts *)

\* The model is asked with the key held and the job unlocked.
Extract(h) ==
  /\ At(h, "keyed", "generate")
  /\ IF Expected(h) THEN Move(h, "extracted") ELSE Close(h)
  /\ UNCHANGED <<ledger, jobVars>>

\* A slip: the revision that was read before the model answered is good enough.
AsReadBefore(h) == Expected(h)

StillExpected(h) == job.revision = open[h].request.arg

\* The job is locked, read and checked again before the answer is written; the
\* empty answer was invalid twice.
WriteExtraction(h, answer) ==
  /\ At(h, "extracted", "generate") /\ RowIsFree(h)
  /\ IF StillExpected(h)
     THEN /\ job' = [revision |-> job.revision + 1, draft |-> Unconfirmed(answer),
                     status |-> IF answer = <<>> THEN "manual_required" ELSE "ready"]
          /\ extracted' = extracted \cup
               {c.content : c \in {d \in CriteriaOf(answer) : d.origin = "stated"}}
          /\ confirmations' = {}
          /\ ledger' = Recorded(h)
     ELSE UNCHANGED <<ledger, job, extracted, confirmations>>
  /\ Close(h)
  /\ UNCHANGED scorecards

\* The draft an edit leaves; a confirmation takes it as it is.
Edited(op, submitted) == IF op = "confirm" THEN {job.draft} ELSE Normalized(submitted, job.draft)

\* An update keeps manual_required; a scorecard is a copy of the draft.
Accept(h, draft) ==
  LET op == open[h].request.op
      confirmed == confirmations \cup (IF op = "confirm" THEN {} ELSE ConfirmedIn(draft))
  IN
  /\ job' = [job EXCEPT !.revision = open[h].seen.revision + 1, !.draft = draft]
  /\ scorecards' = IF op = "update" THEN scorecards
                   ELSE Append(scorecards, [draft |-> draft, status |-> job.status,
                                            confirmed |-> confirmed])
  /\ confirmations' = confirmed
  /\ ledger' = Recorded(h)

Edit(h, submitted) ==
  LET op == open[h].request.op IN
  /\ op = "confirm" <=> submitted = <<>>
  /\ \E draft \in Edited(op, submitted) :
       IF Expected(h) /\ (op # "update" => draft # <<>> /\ Resolved(draft))
       THEN Accept(h, draft)
       ELSE UNCHANGED <<ledger, job, scorecards, confirmations>>
  /\ Close(h)
  /\ UNCHANGED extracted

\* A refusal, a client that leaves, a deadlock that the database resolves.
AbortEdit(h) == open[h].at # "idle" /\ Close(h) /\ UNCHANGED <<ledger, jobVars>>

-----------------------------------------------------------------------------

\* JobService.create.
JobInit == job = NewJob /\ scorecards = <<>> /\ extracted = {} /\ confirmations = {}

JobNext ==
  \E h \in Handlers :
    \/ \E by \in Users, op \in Edits \cup {"generate"}, revision \in 0..MaxEntries, key \in KeyNames :
         AskChangeOfJob(h, by, op, revision, key)
    \/ LockJob(h) \/ TakeJobKey(h) \/ Extract(h)
    \/ \E answer \in Extractions \cup {<<>>} : WriteExtraction(h, answer)
    \/ /\ open[h].at = "keyed" /\ open[h].request.op \in Edits
       /\ \E submitted \in Drafts \cup {<<>>} : Edit(h, submitted)
    \/ AbortEdit(h)

JobSpec == LedgerInit /\ JobInit /\ [][JobNext]_<<ledgerVars, jobVars>>

-----------------------------------------------------------------------------
(* Properties *)

\* The job keeps its type, in a draft no two criteria have the same key, and only
\* an inference is ever confirmed.
JobTypeOK ==
  /\ job.revision \in 0..MaxEntries
  /\ job.status \in {"ready", "manual_required"}
  /\ CriteriaOf(job.draft) \subseteq Criterion
  /\ \A i, j \in DOMAIN job.draft : job.draft[i].key = job.draft[j].key => i = j
  /\ \A c \in CriteriaOf(job.draft) : c.confirmed => c.origin = "inferred"

\* Every change is built on the revision that its author saw: no two changes that
\* were accepted start from the same revision, though the model is asked for
\* minutes without a lock.
EditsBuildOnWhatTheySaw ==
  /\ \A e, f \in Changes : e.request.arg = f.request.arg => e = f
  /\ {e.request.arg : e \in Changes} = 0..(job.revision - 1)

\* A scorecard holds no inference that a recruiter has not confirmed, as it
\* stands there and since it was extracted: editing a criterion, or extracting
\* it again, makes its confirmation void.
InferencesAreConfirmed ==
  \A n \in DOMAIN scorecards : \A c \in CriteriaOf(scorecards[n].draft) :
    c.origin = "inferred" => <<c.key, c.content>> \in scorecards[n].confirmed

\* A criterion passes as stated in the job description only with a content that
\* was extracted so, whatever edits exchanged keys and contents since.
StatedWasStated ==
  \A draft \in {job.draft} \cup {scorecards[n].draft : n \in DOMAIN scorecards} :
    \A c \in CriteriaOf(draft) : c.origin = "stated" => c.content \in extracted

\* What a confirmed scorecard says of itself is true: its inferences were
\* confirmed as they stand there, and what passes as stated was stated.
ScorecardsAreHonest == InferencesAreConfirmed /\ StatedWasStated
=============================================================================
