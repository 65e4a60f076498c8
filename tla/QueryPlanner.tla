---------------------------- MODULE QueryPlanner ----------------------------
(***************************************************************************)
(* The searches that plan_run compiles from a scorecard                     *)
(* (QueryPlanner.compile): what RunPipeline takes as its pages.  Titles and *)
(* industries are [name, spelling]: spellings of a name differ in case and  *)
(* spaces.  Seniorities, locations and keywords are those of the scorecard  *)
(* in every query.                                                         *)
(***************************************************************************)
EXTENDS Naturals, FiniteSets, Sequences, SequencesExt

CONSTANTS
  TitleLists,      \* sequences of target titles, none of them blank
  IndustryLists,   \* the industry of the scorecard, then the adjacent ones
  QueryLimits      \* values of max_queries

VARIABLE asked     \* what is compiled

\* A scorecard has a title and an industry, a planner makes a query.
ASSUME PlanAssumption ==
  /\ \A values \in TitleLists \cup IndustryLists :
       Len(values) \in Nat \ {0} /\ DOMAIN values = 1..Len(values)
  /\ QueryLimits \subseteq Nat \ {0}

Names(values) == {values[i].name : i \in DOMAIN values}

\* The first spelling of every name, in order.
StableUnique(values) ==
  FoldLeft(LAMBDA unique, v : IF v.name \in Names(unique) THEN unique ELSE Append(unique, v), <<>>, values)

\* A slip: titles that do not fill a group are left out.
FullGroups(titles) == [i \in 1..(Len(titles) \div 3) |-> SubSeq(titles, 3 * i - 2, 3 * i)]

\* Three titles at a time.
Groups(titles) ==
  [i \in 1..((Len(titles) + 2) \div 3) |->
     SubSeq(titles, 3 * i - 2, IF 3 * i < Len(titles) THEN 3 * i ELSE Len(titles))]

\* Industry after industry, until the limit, which is at most eight.
Compile(titles, industries, limit) ==
  LET unique == StableUnique(industries)
      groups == Groups(StableUnique(titles))
      all == FlattenSeq([i \in DOMAIN unique |->
               [j \in DOMAIN groups |-> [industry |-> unique[i].name, titles |-> Names(groups[j])]]])
      most == IF limit < 8 THEN limit ELSE 8
  IN SubSeq(all, 1, IF Len(all) < most THEN Len(all) ELSE most)

PlanInit == asked \in [titles : TitleLists, industries : IndustryLists, limit : QueryLimits]

-----------------------------------------------------------------------------
(* Properties *)

\* Every title is searched in every industry by exactly one query.  Where the
\* limit leaves one out, the title is searched in no later industry either: the
\* industry of the job goes first.
PlanCoversInOrder ==
  LET plan == Compile(asked.titles, asked.industries, asked.limit)
      Query(i, t) == {n \in DOMAIN plan : plan[n].industry = i /\ t \in plan[n].titles}
      Place(names, x) == CHOOSE n \in DOMAIN names : names[n].name = x
                           /\ \A m \in 1..(n - 1) : names[m].name # x
      full == Len(plan) = asked.limit \/ Len(plan) = 8
  IN /\ Len(plan) \in 1..8 /\ Len(plan) <= asked.limit
     /\ \A i \in Names(asked.industries), t \in Names(asked.titles) :
          /\ Cardinality(Query(i, t)) \in (IF full THEN {0, 1} ELSE {1})
          /\ Query(i, t) = {} =>
               \A j \in Names(asked.industries) : \A n \in Query(j, t) :
                 Place(asked.industries, j) < Place(asked.industries, i)
=============================================================================
