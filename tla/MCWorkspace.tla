----------------------------- MODULE MCWorkspace -----------------------------
(***************************************************************************)
(* What people do in an agency's workspace, on small instances.  `lane`     *)
(* says what moves, from a state the program can be in:                     *)
(*   members     an owner and an invited user: roles, removals, invitations *)
(*   invitations an owner and a user who is not invited yet                 *)
(*   grants      an owner and a recruiter: client grants, roles             *)
(*   scorecards  a new job: drafts, extractions, scorecards                 *)
(*   stages      one matched candidate: stages                              *)
(*   cohorts     two runs of a job: scores, cohorts                         *)
(*   reports     a run with a cohort: stages, reports, snapshots            *)
(*   export      a shortlist: its export, stages and a run that rescores it *)
(*   match       one candidate scored as its profile grows                  *)
(*   plan        the queries of a scorecard                                 *)
(***************************************************************************)
EXTENDS Memberships, Scorecards, Opportunities, Matching, QueryPlanner, TLC

\* What the prepared lanes need.
ASSUME LaneAssumption == {1, 2} \subseteq JobRuns /\ TopScore > 0

VARIABLE lane
vars == <<lane, ledgerVars, membershipVars, jobVars, crmVars, matchVars, asked>>

-----------------------------------------------------------------------------
(* Instances *)

Submitted(key, content, confirmed) == [key |-> key, content |-> content, confirmed |-> confirmed]
MCDrafts ==
  {<<Submitted("a", "x", TRUE)>>,
   <<Submitted("b", "x", TRUE), Submitted("a", "y", FALSE)>>}

Extracted(key, content, origin, confirmed) ==
  [key |-> key, content |-> content, origin |-> origin, confirmed |-> confirmed]
MCExtractions ==
  {<<Extracted("a", "x", "inferred", TRUE), Extracted("b", "y", "stated", FALSE)>>,
   <<Extracted("a", "y", "stated", FALSE)>>}

Wanted(key, kind, topic, wants, required) ==
  [key |-> key, kind |-> kind, topic |-> topic, wants |-> wants, required |-> required]
Catalogue ==
  {Wanted(1, "must_have", "skill", "sql", FALSE), Wanted(20, "must_have", "skill", "java", TRUE),
   Wanted(2, "preference", "skill", "java", FALSE), Wanted(3, "exclusion", "skill", "java", FALSE),
   Wanted(4, "must_have", "eligibility", "us", TRUE),
   Wanted(5, "exclusion", "eligibility", "sponsorship", FALSE)}
Card(keys, seniority, minimum, located, adjacent) ==
  [criteria |-> {c \in Catalogue : c.key \in keys}, titles |-> {1}, seniority |-> seniority,
   minimum |-> minimum, maximum |-> None, located |-> located, adjacent |-> adjacent]
MCScorecard ==
  {Card(keys, {"early_career", "mid_level"}, None, TRUE, TRUE) :
     keys \in {{1}, {1, 20}, {1, 2, 3}, {1, 4}, {1, 2, 4, 20}}}
    \cup {Card({3}, {}, None, FALSE, FALSE), Card({5}, {"senior"}, None, FALSE, FALSE),
          Card({4}, {}, 4, FALSE, TRUE)}
MCLevel == [t \in 0..3 |-> IF t \in {1, 2} THEN 3 - t ELSE 0]

Job(from, to, ends, full, title) == [from |-> from, to |-> to, ends |-> ends, full |-> full, title |-> title]
MCHistories ==
  {{Job(0, 5, "dated", TRUE, 1)},
   {Job(0, 8, "dated", TRUE, 2), Job(2, 4, "dated", TRUE, 1)},
   {Job(0, 3, "dated", TRUE, 1), Job(3, 0, "present", TRUE, 2)},
   {Job(1, 4, "dated", FALSE, 0), Job(2, 0, "blank", FALSE, 3)},
   {Job(6, 6, "dated", TRUE, 1), Job(6, 14, "dated", TRUE, 2)},
   {Job(0, 2, "dated", TRUE, 1), Job(4, 6, "dated", TRUE, 2), Job(5, 8, "dated", TRUE, 2)}}

Spelled(name, spelling) == [name |-> name, spelling |-> spelling]
Distinct(n) == [i \in 1..n |-> Spelled(i, 1)]
MCTitleLists ==
  {Distinct(n) : n \in 1..7}
    \cup {<<Spelled(1, 1), Spelled(2, 1), Spelled(1, 2), Spelled(3, 1), Spelled(2, 2), Spelled(4, 1)>>,
          <<Spelled(2, 1), Spelled(2, 2)>>}
MCIndustryLists ==
  {Distinct(n) : n \in 1..4} \cup {<<Spelled(1, 1), Spelled(2, 1), Spelled(1, 2), Spelled(3, 1)>>}

Symmetric ==
  Permutations(Members) \cup Permutations(Handlers) \cup Permutations(KeyNames)

-----------------------------------------------------------------------------
(* Lanes *)

MemberLanes == {"members", "invitations", "grants"}

\* An invitation awaits its claim, or a recruiter has made it.
Joined ==
  \E owner, m \in Members :
    /\ owner # m
    /\ member = [x \in Members |->
         IF x = owner THEN [role |-> "owner", active |-> TRUE]
         ELSE IF lane = "grants" THEN [role |-> "recruiter", active |-> TRUE]
         ELSE [role |-> "none", active |-> FALSE]]
    /\ invitation = [i \in Invites |->
         IF lane = "members" /\ i = 1 THEN [of |-> m, role |-> "recruiter", state |-> "pending"]
         ELSE NoInvitation]
    /\ allowed = [x \in Members |-> {}] /\ grants = {} /\ barred = {}

\* Run 1 matched these candidates; whoever is past New was moved there.
Staged(cards, stage, scores) ==
  LET by == CHOOSE u \in Recruiters : TRUE
      key == CHOOSE k \in KeyNames : TRUE
      moved == IF stage = "New" THEN {} ELSE cards
  IN /\ card = [c \in Cards |-> IF c \in cards THEN [stage |-> stage, score |-> scores[c], run |-> 1] ELSE NoCard]
     /\ jobRun = [r \in JobRuns |->
          [state |-> IF r = 1 THEN "partially_ready" ELSE "none",
           scores |-> [c \in Cards |-> IF r = 1 /\ c \in cards THEN scores[c] ELSE 0],
           cohort |-> {}, week |-> FALSE, snapshot |-> NoSnapshot]]
     /\ ready = <<>>
     /\ export = NoExport
     /\ activity = [c \in Cards |-> IF c \in moved THEN <<[from |-> "New", to |-> stage]>> ELSE <<>>]
     /\ open = [h \in Handlers |-> Idle]
     /\ ledger = {[key |-> key, request |-> [op |-> "stage", by |-> by, on |-> c, arg |-> stage]] : c \in moved}

AllOnes == [c \in Cards |-> 1]

\* A card can be rescored lower, and then be next, or higher.
LastIsLow == [c \in Cards |-> IF \E d \in Cards : d > c THEN TopScore ELSE 1]

Init ==
  /\ lane \in MemberLanes \cup {"scorecards", "stages", "cohorts", "reports", "export", "match", "plan"}
  /\ IF lane \in MemberLanes THEN Joined ELSE MembershipInit
  /\ JobInit
  /\ CASE lane = "stages" -> Staged({1}, "New", AllOnes)
       [] lane = "reports" -> Staged({1}, "New", AllOnes) \/ Staged({1, 2}, "New", AllOnes)
       [] lane = "export" -> Staged(Cards, "Shortlisted", LastIsLow)
       [] OTHER -> LedgerInit /\ CrmInit
  /\ MatchInit /\ (lane # "match" => scored = CHOOSE s \in Scorecard : TRUE)
  /\ PlanInit /\ (lane # "plan" => asked.titles = Distinct(1) /\ asked.industries = Distinct(1) /\ asked.limit = 8)

Asked(ops) == \A h \in Handlers : open'[h].at # "idle" => open'[h].request.op \in ops

\* Bound: after n completed requests nobody asks for another change.
Completes(n) == Cardinality(ledger') <= n /\ (Cardinality(ledger') = n => Asked({"report"}))

MemberStep ==
  /\ MembershipNext
  /\ Completes(CASE lane = "members" -> 4 [] lane = "invitations" -> 2 [] OTHER -> 3)
  /\ Asked(CASE lane = "members" -> {"role", "remove", "invite", "claim"}
             [] lane = "invitations" -> {"invite", "claim"}
             [] OTHER -> {"grant", "revoke", "role"})
  /\ UNCHANGED <<jobVars, crmVars>>

\* Three changes of a job are enough: an extraction, an edit and a confirmation.
JobStep ==
  /\ JobNext
  /\ Completes(3)
  /\ UNCHANGED <<membershipVars, crmVars>>

\* Bound: an export that repeats a card is followed for two rows more than there are cards.
MaxRows == Cardinality(Cards) + 2

CrmStep ==
  /\ \/ /\ lane \in {"stages", "reports", "export"} /\ StageNext
        /\ lane = "reports" => Completes(2)
        /\ lane = "export" => Cardinality({h \in Handlers : open'[h].at # "idle"}) <= 1
     \/ lane = "cohorts" /\ RunNext
     \/ lane = "reports" /\ (ReportNext \/ BecomeReady(1) \/ OnDemandEnds(1) \/ WeekPasses(1))
     \/ /\ lane = "export"
        /\ ExportNext \/ StartRun(2) \/ \E c \in Cards, score \in 1..TopScore : Materialize(2, c, score)
        /\ Len(export'.rows) <= MaxRows
  /\ UNCHANGED <<membershipVars, jobVars>>

Next ==
  /\ UNCHANGED <<lane, asked>>
  /\ \/ lane \in MemberLanes /\ MemberStep /\ UNCHANGED matchVars
     \/ lane = "scorecards" /\ JobStep /\ UNCHANGED matchVars
     \/ CrmStep /\ UNCHANGED matchVars
     \/ lane = "match" /\ MatchNext /\ UNCHANGED <<ledgerVars, membershipVars, jobVars, crmVars>>

Spec == Init /\ [][Next]_vars

-----------------------------------------------------------------------------
(* Properties *)

\* The rows of the workspace keep their types.
WorkspaceTypeOK == MembershipTypeOK /\ JobTypeOK /\ CrmTypeOK

\* A score loses no point to rounding, only evidence makes a near match,
\* simultaneous jobs count once, and what is unknown is not hidden.
MatchesAreSound ==
  /\ [](lane = "match" => PointsAddUp /\ HardGatesHold /\ YearsCountOnce)
  /\ NotRenormalized

\* Every title is searched in every industry, that of the job first
\* (PlanCoversInOrder).
PlansCoverInOrder == lane = "plan" => PlanCoversInOrder
=============================================================================
