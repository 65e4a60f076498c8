---------------------------- MODULE Opportunities ----------------------------
(***************************************************************************)
(* The candidates of one job in the CRM: CrmService.transition,             *)
(* materialize_run_matches, capture_acceptance_cohort, acceptance_report    *)
(* and the paged export of the shortlist, which runs, recruiters, retries   *)
(* and reports use at the same time.  Only main matches are modelled: a     *)
(* near match has a card too and takes no part in a cohort.                 *)
(***************************************************************************)
EXTENDS Ledger, Sequences, SequencesExt

CONSTANTS
  Cards,        \* candidates matched for the job, numbered in the order of their ids
  Recruiters,   \* users who may work on the job
  JobRuns,      \* its sourcing runs, in the order they are started
  TopScore,     \* bound: highest score
  CohortSize    \* size of an acceptance cohort (20)

ASSUME CrmAssumption ==
  /\ IsFiniteSet(Cards) /\ Cards \subseteq Nat
  /\ TopScore \in Nat /\ CohortSize \in Nat
  /\ Nothing \notin [score : 0..TopScore, card : Cards]

VARIABLES
  card,      \* job_candidates: stage, score and latest run
  activity,  \* stage changes in activity_events
  jobRun,    \* run -> state, scores, cohort, whether seven days have passed, snapshot
  ready,     \* ready runs in the order of their completed_at
  export     \* the export that is being streamed

crmVars == <<card, activity, jobRun, ready, export>>

Stages == {"New", "Reviewed", "Shortlisted", "Rejected"}

AllowedTransitions ==
  [New |-> {"Reviewed", "Shortlisted", "Rejected"},
   Reviewed |-> {"Shortlisted", "Rejected"},
   Shortlisted |-> {"Reviewed", "Rejected"},
   Rejected |-> {"Reviewed"}]

NoCard == [stage |-> "none", score |-> 0, run |-> 0]

Matched == {c \in Cards : card[c].stage # "none"}

\* The export sees a card at its place only while nobody changes it.
Disturbed(c) == [export EXCEPT !.steady = @ \ {c}]

-----------------------------------------------------------------------------
(* Stages *)

AskTransition(h, by, c, target, key) ==
  /\ open[h].at = "idle" /\ Cardinality(ledger) < MaxEntries
  /\ c \in Matched
  /\ open' = [open EXCEPT ![h] = Opened([op |-> "stage", by |-> by, on |-> c, arg |-> target], key,
                                        [stage |-> card[c].stage])]
  /\ UNCHANGED <<ledger, crmVars>>

TakeCardKey(h) == At(h, "begun", "stage") /\ TakeKey(h, "keyed") /\ UNCHANGED crmVars

\* A slip: the stage that was read before the key was granted.
StageAsRead(h) == open[h].seen.stage

\* The card is locked and read again.
StageLocked(h) == card[open[h].request.on].stage

\* The new stage, its activity and the key are written together.
Transition(h) ==
  LET c == open[h].request.on
      target == open[h].request.arg
      previous == StageLocked(h)
  IN
  /\ At(h, "keyed", "stage")
  /\ IF target \in AllowedTransitions[previous]
     THEN /\ card' = [card EXCEPT ![c].stage = target]
          /\ activity' = [activity EXCEPT ![c] = Append(@, [from |-> previous, to |-> target])]
          /\ ledger' = Recorded(h)
          /\ export' = Disturbed(c)
     ELSE UNCHANGED <<card, activity, ledger, export>>
  /\ Close(h)
  /\ UNCHANGED <<jobRun, ready>>

-----------------------------------------------------------------------------
(* Runs *)

RunsIn(state) == {r \in JobRuns : jobRun[r].state = state}

StartRun(r) ==
  /\ jobRun[r].state = "none" /\ \A q \in JobRuns : q < r => jobRun[q].state \in {"partially_ready", "ready"}
  /\ jobRun' = [jobRun EXCEPT ![r].state = "matching"]
  /\ UNCHANGED <<ledgerVars, card, activity, ready, export>>

\* A match makes the card, or rescores it: its stage stays.
Materialize(r, c, score) ==
  /\ jobRun[r].state = "matching" /\ jobRun[r].scores[c] = 0
  /\ jobRun' = [jobRun EXCEPT ![r].scores[c] = score]
  /\ card' = [card EXCEPT ![c] = [stage |-> IF @.stage = "none" THEN "New" ELSE @.stage,
                                  score |-> score, run |-> r]]
  /\ export' = Disturbed(c)
  /\ UNCHANGED <<ledgerVars, activity, ready>>

EndPartially(r) ==
  /\ jobRun[r].state = "matching"
  /\ jobRun' = [jobRun EXCEPT ![r].state = "partially_ready"]
  /\ UNCHANGED <<ledgerVars, card, activity, ready, export>>

\* Best score first, then the smaller id.
Better(scores, c, d) == scores[c] > scores[d] \/ (scores[c] = scores[d] /\ c < d)

Cohort(r) ==
  LET scores == jobRun[r].scores
      scored == {c \in Cards : scores[c] > 0}
  IN {c \in scored : Cardinality({d \in scored : Better(scores, d, c)}) < CohortSize}

Completable(r) == jobRun[r].state \in {"matching", "partially_ready"}

\* The last request of the run is finalized: it becomes ready, perhaps long
\* after a later run started, and its cohort is captured.
BecomeReady(r) ==
  /\ Completable(r)
  /\ jobRun' = [jobRun EXCEPT ![r].state = "ready", ![r].cohort = Cohort(r)]
  /\ ready' = Append(ready, r)
  /\ UNCHANGED <<ledgerVars, card, activity, export>>

\* A request that a recruiter made for a ready run is finalized later:
\* completed_at is set anew.
OnDemandEnds(r) ==
  /\ jobRun[r].state = "ready"
  /\ \E i \in DOMAIN ready : ready[i] = r /\ ready' = Append(RemoveAt(ready, i), r)
  /\ jobRun' = [jobRun EXCEPT ![r].week = FALSE]
  /\ UNCHANGED <<ledgerVars, card, activity, export>>

WeekPasses(r) ==
  /\ jobRun[r].state = "ready" /\ ~jobRun[r].week
  /\ jobRun' = [jobRun EXCEPT ![r].week = TRUE]
  /\ UNCHANGED <<ledgerVars, card, activity, ready, export>>

-----------------------------------------------------------------------------
(* Acceptance reports *)

NoSnapshot == [accepted |-> 0, new |-> 0, rejected |-> 0, early |-> FALSE, taken |-> FALSE]

Counts(cohort) ==
  LET InStages(stages) == Cardinality({c \in cohort : card[c].stage \in stages})
  IN [accepted |-> InStages({"Reviewed", "Shortlisted"}), new |-> InStages({"New"}), rejected |-> InStages({"Rejected"})]

\* The report is about the ready run completed last; a snapshot is its answer.
AskReport(h, by) ==
  /\ open[h].at = "idle" /\ ready # <<>> /\ ~jobRun[Last(ready)].snapshot.taken
  /\ open' = [open EXCEPT ![h] =
                Opened([op |-> "report", by |-> by, on |-> "job", arg |-> Last(ready)], Nothing,
                       [week |-> jobRun[Last(ready)].week])]
  /\ UNCHANGED <<ledger, crmVars>>

\* A slip: everybody in the cohort, however small, has been decided.
AllDecided(cohort, counts) == counts.new = 0

Decided(cohort, counts) ==
  Cardinality(cohort) = CohortSize /\ counts.accepted + counts.rejected = CohortSize

\* The stages of the cohort are read in one statement, without a lock.
CountStages(h) ==
  LET r == open[h].request.arg
      cohort == jobRun[r].cohort
      counts == Counts(cohort)
      week == open[h].seen.week
  IN
  /\ At(h, "begun", "report")
  /\ IF week \/ Decided(cohort, counts)
     THEN open' = [open EXCEPT ![h].at = "counted",
                     ![h].seen = [accepted |-> counts.accepted, new |-> counts.new,
                                  rejected |-> counts.rejected, early |-> ~week, taken |-> TRUE]]
     ELSE Close(h)
  /\ UNCHANGED <<ledger, crmVars>>

NotTaken(r) == ~jobRun[r].snapshot.taken

\* Behind the lock of the job the first report writes the snapshot.
Finalize(h) ==
  LET r == open[h].request.arg IN
  /\ At(h, "counted", "report")
  /\ jobRun' = IF NotTaken(r) THEN [jobRun EXCEPT ![r].snapshot = open[h].seen] ELSE jobRun
  /\ Close(h)
  /\ UNCHANGED <<ledger, card, activity, ready, export>>

\* A refusal, a client that leaves, a crash.
AbortCard(h) == open[h].at # "idle" /\ Close(h) /\ UNCHANGED <<ledger, crmVars>>

-----------------------------------------------------------------------------
(* Export of the shortlist *)

NoExport == [at |-> "none", cursor |-> Nothing, rows |-> <<>>, steady |-> {}]

Shortlisted == {c \in Cards : card[c].stage = "Shortlisted"}

\* A slip: cards with the score of the cursor were before it.
AfterScore(c, cursor) == card[c].score < cursor.score

After(c, cursor) ==
  card[c].score < cursor.score \/ (card[c].score = cursor.score /\ c > cursor.card)

Rest == {c \in Shortlisted : export.cursor # Nothing => After(c, export.cursor)}

BeginExport ==
  /\ export.at = "none"
  /\ export' = [NoExport EXCEPT !.at = "streaming", !.steady = Shortlisted]
  /\ UNCHANGED <<ledgerVars, card, activity, jobRun, ready>>

\* The session of the stream still holds the row it exported last, and commits do
\* not expire it: when that card is selected again, its score is the one first read.
ScoreHeld(c) ==
  IF export.cursor # Nothing /\ c = export.cursor.card THEN export.cursor.score ELSE card[c].score

\* One card per transaction, highest score first, from the cursor on. A card that
\* is rescored lower behind the cursor and is next is exported again, and again:
\* the cursor takes the score held and stays.
ExportRow ==
  /\ export.at = "streaming"
  /\ \E c \in Rest :
       /\ \A d \in Rest \ {c} : Better([e \in Cards |-> card[e].score], c, d)
       /\ export' = [export EXCEPT !.cursor = [score |-> ScoreHeld(c), card |-> c],
                                   !.rows = Append(@, c)]
  /\ UNCHANGED <<ledgerVars, card, activity, jobRun, ready>>

EndExport ==
  /\ export.at = "streaming" /\ Rest = {}
  /\ export' = [export EXCEPT !.at = "completed"]
  /\ UNCHANGED <<ledgerVars, card, activity, jobRun, ready>>

AbortExport ==
  /\ export.at = "streaming"
  /\ export' = [export EXCEPT !.at = "aborted"]
  /\ UNCHANGED <<ledgerVars, card, activity, jobRun, ready>>

-----------------------------------------------------------------------------

CrmInit ==
  /\ card = [c \in Cards |-> NoCard]
  /\ activity = [c \in Cards |-> <<>>]
  /\ jobRun = [r \in JobRuns |-> [state |-> "none", scores |-> [c \in Cards |-> 0], cohort |-> {},
                                  week |-> FALSE, snapshot |-> NoSnapshot]]
  /\ ready = <<>>
  /\ export = NoExport

StageNext ==
  \E h \in Handlers :
    \/ \E by \in Recruiters, c \in Cards, target \in Stages \ {"New"}, key \in KeyNames :
         AskTransition(h, by, c, target, key)
    \/ TakeCardKey(h) \/ Transition(h)
    \/ AbortCard(h)

RunNext ==
  \E r \in JobRuns :
    \/ StartRun(r) \/ EndPartially(r) \/ BecomeReady(r) \/ OnDemandEnds(r) \/ WeekPasses(r)
    \/ \E c \in Cards, score \in 1..TopScore : Materialize(r, c, score)

ReportNext ==
  \E h \in Handlers :
    \/ \E by \in Recruiters : AskReport(h, by)
    \/ CountStages(h) \/ Finalize(h)

ExportNext == BeginExport \/ ExportRow \/ EndExport \/ AbortExport

CrmNext == StageNext \/ RunNext \/ ReportNext \/ ExportNext

CrmSpec == LedgerInit /\ CrmInit /\ [][CrmNext]_<<ledgerVars, crmVars>>

-----------------------------------------------------------------------------
(* Properties *)

SnapshotType ==
  [accepted : 0..CohortSize, new : 0..CohortSize, rejected : 0..CohortSize, early : BOOLEAN, taken : BOOLEAN]

\* Every variable keeps its type; a run that is completed is listed once.
CrmTypeOK ==
  /\ card \in [Cards -> [stage : Stages \cup {"none"}, score : 0..TopScore, run : JobRuns \cup {0}]]
  /\ jobRun \in [JobRuns -> [state : {"none", "matching", "partially_ready", "ready"},
                             scores : [Cards -> 0..TopScore], cohort : SUBSET Cards,
                             week : BOOLEAN, snapshot : SnapshotType]]
  /\ ToSet(ready) = RunsIn("ready") /\ IsInjective(ready)

\* The activity of a card is a path through the stages that the table allows,
\* from New to where the card is, whoever moves it at the same time.
ActivityIsAPath ==
  \A c \in Matched : LET path == activity[c] IN
    /\ \A i \in DOMAIN path :
         /\ path[i].to \in AllowedTransitions[path[i].from]
         /\ path[i].from = IF i = 1 THEN "New" ELSE path[i - 1].to
    /\ card[c].stage = IF path = <<>> THEN "New" ELSE Last(path).to

\* A request that is retried with its key is applied once.
RetriesApplyOnce ==
  \A c \in Cards : Len(activity[c]) = Cardinality({e \in ledger : e.request.op = "stage" /\ e.request.on = c})

\* The cohort of a run is its best candidates by the scores of that run, also if
\* it became ready after a later run had rescored them.
CohortIsTheBest ==
  \A r \in RunsIn("ready") : LET scores == jobRun[r].scores IN
    /\ \A c \in jobRun[r].cohort : \A d \in Cards \ jobRun[r].cohort : Better(scores, c, d)
    /\ jobRun[r].cohort = {c \in Cards : scores[c] > 0} \/ Cardinality(jobRun[r].cohort) = CohortSize

\* A snapshot never changes, though several reports measure at the same time.
SnapshotsStay ==
  [][\A r \in JobRuns : jobRun[r].snapshot.taken => jobRun'[r].snapshot = jobRun[r].snapshot
    ]_<<ledgerVars, crmVars>>

\* A snapshot taken before seven days have passed counts as many candidates as a
\* cohort has when it is full, and none of them is, or gets back to being, New.
EarlySnapshotsAreComplete ==
  \A r \in JobRuns : LET snapshot == jobRun[r].snapshot IN
    snapshot.taken /\ snapshot.early =>
      /\ snapshot.accepted + snapshot.rejected = CohortSize
      /\ \A c \in jobRun[r].cohort : card[c].stage # "New"

\* An export that completes has every card that stayed on the shortlist unchanged,
\* once: cards that are rescored meanwhile, also those that the cursor holds at an old
\* score, move others neither out of the way of the cursor nor back in front of it.
\* It need not complete: see ExportRow.
ExportMissesNone ==
  export.at = "completed" =>
    \A c \in export.steady : Cardinality({i \in DOMAIN export.rows : export.rows[i] = c}) = 1

\* The activities of a card are its path to the stage it is in, one for each
\* request that was applied.
ActivitiesTellTheStage == ActivityIsAPath /\ RetriesApplyOnce

\* Acceptance is measured on the best candidates of a run, early only when all
\* of a full cohort is decided, and once measured it does not change.
AcceptanceIsSound == [](CohortIsTheBest /\ EarlySnapshotsAreComplete) /\ SnapshotsStay
=============================================================================
