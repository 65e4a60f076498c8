------------------------------ MODULE Matching ------------------------------
(***************************************************************************)
(* The score of one candidate on one scorecard (MatchingEngine.evaluate),   *)
(* and the years of experience that ingestion computes for it, as pure      *)
(* operators; and the profile that grows between two scorings.              *)
(*                                                                         *)
(* Words are compared elsewhere: a skill, an eligibility, a title or an     *)
(* industry stands for all spellings that normalize to it.  Titles and keys *)
(* are numbers in their alphabetical order, dates are numbers of years.     *)
(***************************************************************************)
EXTENDS Naturals, FiniteSets, FiniteSetsExt, Sequences, SequencesExt

CONSTANTS
  Scorecard,     \* confirmed scorecards to score on
  Skills,        \* skills a profile may name
  Eligibilities, \* recognized values of work_eligibility
  Titles,        \* titles, numbered from 1; 0 is none
  Level,         \* title -> its level of seniority, 0 when it says nothing
  Histories,     \* sets of experiences a profile may have
  Today          \* the year in which the scorecard was confirmed

VARIABLES
  scored,   \* the scorecard
  profile   \* the candidate

matchVars == <<scored, profile>>

\* The keys of a scorecard are unique, and those of the engine (10 to 14) are not
\* among them.
ASSUME MatchAssumption ==
  /\ Today \in Nat
  /\ \A card \in Scorecard :
       /\ IsFiniteSet(card.criteria)
       /\ \A c \in card.criteria : c.key \in Nat \ (10..14) /\ c.topic \in {"skill", "eligibility"}
       /\ \A c, d \in card.criteria : c.key = d.key => c = d
  /\ \A history \in Histories :
       IsFiniteSet(history) /\ \A e \in history : e.from \in Nat /\ e.to \in Nat

EmptyProfile ==
  [skills |-> {}, eligibility |-> "none", title |-> 0, industries |-> {}, location |-> "none",
   experiences |-> {}]

\* None when it is not stated.
None == 1000

-----------------------------------------------------------------------------
(* Years of experience *)

\* From the day it started to the day it ended or was last seen.
Interval(e) == [from |-> e.from, to |-> IF e.ends = "dated" THEN e.to ELSE Today]

Intervals(experiences) ==
  {Interval(e) : e \in {x \in experiences : x.full /\ Interval(x).to > x.from}}

Earlier(i, j) == i.from < j.from \/ (i.from = j.from /\ i.to < j.to)

\* SetToSortSeq, whose SortSeq no prover sees into.
Sorted(intervals) ==
  CHOOSE s \in [1..Cardinality(intervals) -> intervals] :
    \A i, j \in DOMAIN s : i < j => Earlier(s[i], s[j])

\* Intervals that overlap or touch become one.
Merged(merged, i) ==
  IF merged = <<>> \/ i.from > Last(merged).to THEN Append(merged, i)
  ELSE Append(Front(merged),
              [from |-> Last(merged).from, to |-> IF i.to > Last(merged).to THEN i.to ELSE Last(merged).to])

YearsExperience(experiences) ==
  IF Intervals(experiences) = {} THEN None
  ELSE LET merged == FoldLeft(Merged, <<>>, Sorted(Intervals(experiences)))
       IN FoldLeft(LAMBDA sum, i : sum + (i.to - i.from), 0, merged)

\* ExperienceInterval of the presets; a bound that is stated replaces them.
InPreset(level, years) ==
  CASE level = "early_career" -> years <= 3
    [] level = "mid_level" -> years >= 3 /\ years < 10
    [] level = "senior" -> years >= 10

WantedYears(card, years) ==
  IF card.minimum # None \/ card.maximum # None
  THEN /\ card.minimum # None => years >= card.minimum
       /\ card.maximum # None => years <= card.maximum
  ELSE \E level \in card.seniority : InPreset(level, years)

-----------------------------------------------------------------------------
(* Evidence: supported, failed or unknown *)

Evidenced(supported) == IF supported THEN "supported" ELSE "failed"

\* An exclusion is supported by its absence.
SkillState(criterion, p) ==
  IF p.skills = {} THEN "unknown"
  ELSE Evidenced((criterion.wants \in p.skills) = (criterion.kind # "exclusion"))

\* Work eligibility is compared as it is, for an exclusion too.
EligibilityState(criterion, p) ==
  IF p.eligibility \notin Eligibilities THEN "unknown" ELSE Evidenced(p.eligibility = criterion.wants)

CriterionState(criterion, p) ==
  IF criterion.topic = "eligibility" THEN EligibilityState(criterion, p) ELSE SkillState(criterion, p)

RoleState(card, p) ==
  LET titles == {t \in {p.title} \cup {e.title : e \in p.experiences} : t # 0}
  IN IF titles = {} THEN "unknown" ELSE Evidenced(titles \cap card.titles # {})

ScopeState(card, p) ==
  LET years == YearsExperience(p.experiences)
  IN IF years = None THEN "unknown" ELSE Evidenced(WantedYears(card, years))

LocationState(card, p) == IF p.location = "none" THEN "unknown" ELSE Evidenced(p.location = "wanted")

\* Exact counts 20, an adjacent industry that the recruiter approved 12.
IndustryPoints(card, p) ==
  CASE "exact" \in p.industries -> 20
    [] OTHER -> IF "adjacent" \in p.industries /\ card.adjacent THEN 12 ELSE 0

RecencyState(p) ==
  LET ended == {e.to : e \in {x \in p.experiences : x.ends = "dated"}}
  IN CASE \E e \in p.experiences : e.ends = "present" -> "supported"
       [] OTHER -> IF ended = {} THEN "unknown" ELSE Evidenced(\E to \in ended : to + 3 >= Today)

\* The first and the last title by start, those of one day by title.
TrajectoryState(p) ==
  LET ranked == {e \in p.experiences : Level[e.title] > 0}
      Before(d, e) == d.from < e.from \/ (d.from = e.from /\ d.title < e.title)
      first == CHOOSE e \in ranked : \A d \in ranked : ~Before(d, e)
      last == CHOOSE e \in ranked : \A d \in ranked : ~Before(e, d)
  IN IF Cardinality(ranked) < 2 THEN "unknown" ELSE Evidenced(Level[last.title] >= Level[first.title])

-----------------------------------------------------------------------------
(* Points *)

Atom(key, state) == [key |-> key, state |-> state]
RoleKey == 10
YearsKey == 11
LocationKey == 12
RecencyKey == 13
TrajectoryKey == 14

CriterionAtoms(card, p, topic) ==
  {Atom(c.key, CriterionState(c, p)) : c \in {x \in card.criteria : x.kind # "exclusion" /\ x.topic = topic}}

RoleAtoms(card, p) == {Atom(RoleKey, RoleState(card, p))} \cup CriterionAtoms(card, p, "skill")

HasScope(card) == card.seniority # {} \/ card.minimum # None \/ card.maximum # None

ScopeAtoms(card, p) == IF HasScope(card) THEN {Atom(YearsKey, ScopeState(card, p))} ELSE {}

\* When nothing is asked for, an unknown atom takes the ten points.
LocationAtoms(card, p) ==
  LET atoms == (IF card.located THEN {Atom(LocationKey, LocationState(card, p))} ELSE {})
               \cup CriterionAtoms(card, p, "eligibility")
  IN IF atoms = {} THEN {Atom(LocationKey, "unknown")} ELSE atoms

RecencyAtoms(p) == {Atom(RecencyKey, RecencyState(p)), Atom(TrajectoryKey, TrajectoryState(p))}

\* A slip: what does not divide evenly is lost.
Quotient(atom, atoms, weight) == weight \div Cardinality(atoms)

\* The remainder goes to the first ones by key.
MaxPoints(atom, atoms, weight) ==
  weight \div Cardinality(atoms)
    + IF Cardinality({a \in atoms : a.key < atom.key}) < weight % Cardinality(atoms) THEN 1 ELSE 0

Allocated(atoms, weight) ==
  {[key |-> a.key, state |-> a.state, max |-> MaxPoints(a, atoms, weight),
    points |-> IF a.state = "supported" THEN MaxPoints(a, atoms, weight) ELSE 0] : a \in atoms}

\* Every evaluated criterion with its points, but industry and exclusions.
Evaluation(card, p) ==
  Allocated(RoleAtoms(card, p), 35) \cup Allocated(ScopeAtoms(card, p), 25)
    \cup Allocated(LocationAtoms(card, p), 10) \cup Allocated(RecencyAtoms(p), 10)

Total(card, p) == MapThenSumSet(LAMBDA a : a.points, Evaluation(card, p)) + IndustryPoints(card, p)

\* A must-have that failed, one whose evidence is mandatory and missing, or an
\* exclusion that applies.
Classification(card, p) ==
  IF \E c \in card.criteria : LET state == CriterionState(c, p) IN
       \/ c.kind = "must_have" /\ (state = "failed" \/ (c.required /\ state = "unknown"))
       \/ c.kind = "exclusion" /\ state = "failed"
  THEN "near_match" ELSE "main"

-----------------------------------------------------------------------------
(* The profile grows: an ingestion brings a field that was not known.  (No     *)
(* ingestion brings the work eligibility yet; the engine expects it.)          *)

Learn(p) == profile' = p /\ UNCHANGED scored

MatchInit == scored \in Scorecard /\ profile = EmptyProfile

MatchNext ==
  \/ profile.skills = {} /\ \E known \in (SUBSET Skills) \ {{}} : Learn([profile EXCEPT !.skills = known])
  \/ /\ profile.eligibility = "none"
     /\ \E e \in Eligibilities \cup {"unrecognized"} : Learn([profile EXCEPT !.eligibility = e])
  \/ profile.title = 0 /\ \E t \in Titles : Learn([profile EXCEPT !.title = t])
  \/ profile.location = "none" /\ \E l \in {"wanted", "other"} : Learn([profile EXCEPT !.location = l])
  \/ profile.industries = {} /\ \E i \in {"exact", "adjacent", "other"} : Learn([profile EXCEPT !.industries = {i}])
  \/ profile.experiences = {} /\ \E history \in Histories : Learn([profile EXCEPT !.experiences = history])

-----------------------------------------------------------------------------
(* Properties *)

\* The points that can be had are 100, or 75 when neither seniority nor years are
\* asked for: no rounding loses one, and the score stays below them.
PointsAddUp ==
  LET best == MapThenSumSet(LAMBDA a : a.max, Evaluation(scored, profile)) + 20 IN
  /\ best = IF HasScope(scored) THEN 100 ELSE 75
  /\ Total(scored, profile) <= best

\* Missing information is not hidden: learning one thing leaves the points of
\* everything else, and what each criterion can earn, as they were.
NotRenormalized ==
  [][profile' # profile =>
       \A a \in Evaluation(scored, profile) : \A b \in Evaluation(scored', profile') :
         a.key = b.key => a.max = b.max /\ (a.state = b.state => a.points = b.points)]_matchVars

\* Only evidence against a candidate, or evidence that the scorecard insists on,
\* makes a near match: a must-have that is merely unknown does not, a skill that
\* is excluded and found does.  (An exclusion about work eligibility is left out:
\* the code evaluates it as a requirement.)
HardGatesHold ==
  LET p == profile
      Known(c) == IF c.topic = "skill" THEN p.skills # {} ELSE p.eligibility \in Eligibilities
      Found(c) == IF c.topic = "skill" THEN c.wants \in p.skills ELSE c.wants = p.eligibility
      reasons == {c \in scored.criteria :
                    \/ c.kind = "must_have" /\ (IF Known(c) THEN ~Found(c) ELSE c.required)
                    \/ c.kind = "exclusion" /\ c.topic = "skill" /\ Found(c)}
  IN (\A c \in scored.criteria : c.kind = "exclusion" => c.topic = "skill")
       => (Classification(scored, p) = "near_match" <=> reasons # {})

\* Jobs held at the same time count once: the years are the number of years in
\* which there was a job.
YearsCountOnce ==
  LET worked == UNION {e.from..(Interval(e).to - 1) : e \in {x \in profile.experiences : x.full}}
  IN YearsExperience(profile.experiences) = IF worked = {} THEN None ELSE Cardinality(worked)
=============================================================================
