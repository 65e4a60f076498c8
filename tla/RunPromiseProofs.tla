-------------------------- MODULE RunPromiseProofs --------------------------
(***************************************************************************)
(* What the source lock of a run buys: one worker at a time searches for    *)
(* it, so the ids recorded stay within the limit and a cancelled run is     *)
(* searched for at most once more.  And the refinement: RunPipeline, with   *)
(* its broker, crashes and replays, keeps the promise of RunLifecycle.      *)
(***************************************************************************)
EXTENDS RunPipelineProofs

-----------------------------------------------------------------------------
(* The source lock *)

\* Where a worker that will still record a page is, and one that will search.
WillRecord == {"reserve", "search", "record"}
WillSearch == {"reserve", "search"}

SourceLockExclusive ==
  \A v, w \in Workers :
    pc[v] \in SourceLocked /\ pc[w] \in SourceLocked /\ job[v].run = job[w].run
      => v = w

\* The steps of source_run that take a worker to, or keep it in, the section
\* under the lock.
HoldsSource(w) ==
  \/ OpenSource(w) \/ CheckPage(w) \/ ReservePage(w) \/ ReserveExhausted(w)
  \/ SearchAnswers(w) \/ PageDiscarded(w) \/ RecordPage(w)

\* Such a step keeps the message and moves no other worker.
LEMMA SourceStepMoves ==
  ASSUME TypeOK, NEW w \in Workers, HoldsSource(w)
  PROVE  /\ job' = job
         /\ \A v \in Workers \ {w} : pc'[v] = pc[v]
         /\ pc'[w] \in SourceLocked
         /\ pc'[w] = "reserve" => CheckPage(w) /\ ~ Full(job[w].run)
                                  /\ ~ Cancelled(job[w].run)
         /\ pc'[w] = "search" => ReservePage(w)
         /\ pc'[w] = "record" => SearchAnswers(w)
         /\ OpenSource(w) \/ pc[w] \in SourceLocked
<1>1. CASE OpenSource(w) \/ CheckPage(w)
  BY <1>1 DEF OpenSource, CheckPage, Goto, At, TypeOK, BrokerType, SourceLocked
<1>2. CASE ReservePage(w) \/ ReserveExhausted(w) \/ SearchAnswers(w)
  BY <1>2 DEF ReservePage, ReserveExhausted, SearchAnswers, Goto, At, TypeOK, BrokerType,
     SourceLocked
<1>3. CASE PageDiscarded(w) \/ RecordPage(w)
  BY <1>3 DEF PageDiscarded, RecordPage, Goto, At, TypeOK, BrokerType, SourceLocked
<1> QED
  BY <1>1, <1>2, <1>3 DEF HoldsSource

\* No other step brings a worker under the lock.
LEMMA IntoSource ==
  ASSUME TypeOK, [Next]_vars, NEW v \in Workers, pc'[v] \in SourceLocked, ~ HoldsSource(v)
  PROVE  pc'[v] = pc[v] /\ job'[v] = job[v]
<1>1. CASE UNCHANGED vars
  BY <1>1 DEF vars
<1>2. CASE World
  BY <1>2 DEF World, PublishPlan, Cancel, QueueOnDemand, SettleRequest, Crash,
     DatabaseFailure, Redeliver, GiveBack, Drop, Release, TypeOK, BrokerType, SourceLocked
<1>3. ASSUME NEW w \in Workers, Work(w)
      PROVE  pc'[v] = pc[v] /\ job'[v] = job[v]
  <2>1. CASE Take(w)
    BY <2>1 DEF Take, TypeOK, BrokerType, Messages, Tasks, SourceLocked
  <2>2. CASE Acknowledge(w) \/ Reject(w)
    BY <2>2 DEF Acknowledge, Reject, Drop, Release, TypeOK, BrokerType, SourceLocked
  <2>3. CASE PlanTask(w)
    BY <2>3 DEF PlanTask, PlanSkipped, Plan, SendSource, AfterReplay, Goto, SendThen,
                TypeOK, BrokerType, SourceLocked
  <2>4. CASE SourceTask(w)
    <3>1. CASE HoldsSource(w)
      BY <3>1, SourceStepMoves
    <3>2. CASE ~ HoldsSource(w)
      BY <2>4, <3>2 DEF SourceTask, HoldsSource, CheckProvider, SourceSkipped, SearchFails,
         DisableProvider, FinishSource, SendMatch, Goto, SendThen, GiveBack, Release,
         TypeOK, BrokerType, SourceLocked
    <3> QED
      BY <3>1, <3>2
  <2>5. CASE MatchTask(w)
    BY <2>5 DEF MatchTask, MatchSkipped, MatchOutdated, ScoreBatch, MatchCompletes,
                SendEnrich, Goto, SendThen, TypeOK, BrokerType, SourceLocked
  <2>6. CASE EnrichTask(w)
    BY <2>6 DEF EnrichTask, BeginEnrich, SelectTop, FinishEmpty, PrepareNothing,
                PrepareRequest, PrepareExhausted, PrepareAmbiguous, SubmitWithdrawn,
                Submit, SendRetry, Finalize, FailActive, MarkProviderDisabled, Goto,
                SendThen, TypeOK, BrokerType, SourceLocked
  <2> QED
    BY <1>3, <2>1, <2>2, <2>3, <2>4, <2>5, <2>6 DEF Work
<1> QED
  BY <1>1, <1>2, <1>3 DEF Next

\* Under the lock a worker keeps its message, and it enters by OpenSource only.
LEMMA UnderSourceLock ==
  ASSUME TypeOK, [Next]_vars, NEW v \in Workers, pc'[v] \in SourceLocked
  PROVE  /\ job'[v] = job[v]
         /\ OpenSource(v) \/ pc[v] \in SourceLocked
BY IntoSource, SourceStepMoves

\* At most one worker holds the sourcing lock of a run: every step.
LEMMA LockStep ==
  ASSUME TypeOK, SourceLockExclusive, [Next]_vars
  PROVE  SourceLockExclusive'
<1> SUFFICES ASSUME NEW v \in Workers, NEW w \in Workers, v # w,
                    pc'[v] \in SourceLocked, pc'[w] \in SourceLocked,
                    job'[v].run = job'[w].run
             PROVE  FALSE
  BY DEF SourceLockExclusive
<1>1. job[v].run = job[w].run
  BY UnderSourceLock
<1>2. ASSUME NEW a \in Workers, NEW b \in Workers, a # b, OpenSource(a),
             pc'[b] \in SourceLocked, job[a].run = job[b].run
      PROVE  FALSE
  <2>1. pc[b] \in SourceLocked
    BY <1>2, SourceStepMoves DEF HoldsSource
  <2> QED
    BY <1>2, <2>1 DEF OpenSource, HeldByOther
<1>3. pc[v] \in SourceLocked /\ pc[w] \in SourceLocked
  BY <1>1, <1>2, UnderSourceLock
<1> QED
  BY <1>1, <1>3 DEF SourceLockExclusive

-----------------------------------------------------------------------------
(* The limit on candidates *)

\* A worker that will record a page knows there is room for one.
RoomLeft == \A w \in Workers : pc[w] \in WillRecord =>
              Cardinality(seen[job[w].run]) < MaxCandidates

LimitInv == RoomLeft /\ SeenWithinLimit

\* The ids and the candidates of a run are finitely many.
LEMMA SeenFinite ==
  ASSUME TypeOK, NEW r \in Runs
  PROVE  /\ IsFiniteSet(seen[r]) /\ Cardinality(seen[r]) \in Nat
         /\ IsFiniteSet(Found(r)) /\ Cardinality(Found(r)) \in Nat
         /\ Found(r) \subseteq Candidates
         /\ Cardinality(Found(r)) <= Cardinality(seen[r])
<1> DEFINE f == [p \in seen[r] |-> CandidateOf[p]]
<1>1. seen[r] \subseteq People
  BY DEF TypeOK, RunType
<1>2. IsFiniteSet(seen[r])
  BY <1>1, CatalogAssumption, FS_Subset
<1>3. f \in Surjection(seen[r], Found(r))
  BY DEF Surjection, Found
<1>4. IsFiniteSet(Found(r)) /\ Cardinality(Found(r)) <= Cardinality(seen[r])
  BY <1>2, <1>3, FS_Surjection
<1>5. Found(r) \subseteq Candidates
  BY <1>1, CatalogAssumption DEF Found
<1> QED
  BY <1>2, <1>4, <1>5, FS_CardinalityType

\* A page never brings a run past the limit when there was room for one.
LEMMA IngestedFits ==
  ASSUME TypeOK, NEW r \in Runs, Cardinality(seen[r]) < MaxCandidates, NEW n \in Nat
  PROVE  Ingested(r, n) <= MaxCandidates - Cardinality(seen[r]) /\ Ingested(r, n) \in Int
BY SeenFinite, LimitAssumption DEF Ingested

\* Recording a page adds people of it, for the run of the worker alone.
LEMMA RecordPageAdds ==
  ASSUME TypeOK, LimitInv, NEW w \in Workers, RecordPage(w)
  PROVE  /\ job[w].run \in Runs
         /\ \A r \in Runs \ {job[w].run} : seen'[r] = seen[r]
         /\ seen[job[w].run] \subseteq seen'[job[w].run]
         /\ Cardinality(seen'[job[w].run]) <= MaxCandidates
<1> DEFINE r == job[w].run
<1>1. r \in Runs /\ pc[w] = "record"
  BY JobOfBusy DEF RecordPage, At
<1>2. PICK page \in Pages : \E kept \in SUBSET NewPeople(r, page) :
        /\ Cardinality(kept) = Ingested(r, Cardinality(NewPeople(r, page)))
        /\ seen' = [seen EXCEPT ![r] = @ \cup Usable(kept)]
  BY DEF RecordPage
<1>3. PICK kept \in SUBSET NewPeople(r, page) :
        /\ Cardinality(kept) = Ingested(r, Cardinality(NewPeople(r, page)))
        /\ seen' = [seen EXCEPT ![r] = @ \cup Usable(kept)]
  BY <1>2
<1>4. NewPeople(r, page) \subseteq People
  BY <1>3, CatalogAssumption DEF NewPeople
<1>5. IsFiniteSet(NewPeople(r, page)) /\ IsFiniteSet(kept)
  BY <1>3, <1>4, CatalogAssumption, FS_Subset
<1>6. Cardinality(NewPeople(r, page)) \in Nat /\ Cardinality(kept) \in Nat
  BY <1>5, FS_CardinalityType
<1>7. Cardinality(seen[r]) < MaxCandidates
  BY <1>1 DEF LimitInv, RoomLeft, WillRecord
<1>8. Cardinality(kept) <= MaxCandidates - Cardinality(seen[r])
  BY <1>1, <1>3, <1>6, <1>7, IngestedFits
<1>9. IsFiniteSet(Usable(kept)) /\ Cardinality(Usable(kept)) \in Nat
      /\ Cardinality(Usable(kept)) <= Cardinality(kept)
  BY <1>5, FS_Subset, FS_CardinalityType DEF Usable
<1>10. /\ Cardinality(seen[r] \cup Usable(kept)) \in Nat
      /\ Cardinality(seen[r] \cup Usable(kept))
           <= Cardinality(seen[r]) + Cardinality(Usable(kept))
  <2>1. IsFiniteSet(seen[r]) /\ Cardinality(seen[r]) \in Nat
    BY <1>1, SeenFinite
  <2>2. /\ Cardinality(seen[r] \cup Usable(kept)) =
             Cardinality(seen[r]) + Cardinality(Usable(kept))
               - Cardinality(seen[r] \cap Usable(kept))
        /\ IsFiniteSet(seen[r] \cup Usable(kept))
    BY <1>9, <2>1, FS_Union
  <2>3. Cardinality(seen[r] \cap Usable(kept)) \in Nat
    BY <2>1, FS_Intersection, FS_CardinalityType
  <2> QED
    BY <1>9, <2>1, <2>2, <2>3, FS_CardinalityType
<1>11. seen'[r] = seen[r] \cup Usable(kept)
  BY <1>1, <1>3 DEF TypeOK, RunType
<1>12. Cardinality(seen'[r]) <= MaxCandidates
  <2>1. Cardinality(seen[r]) \in Nat /\ MaxCandidates \in Nat
    BY <1>1, SeenFinite, LimitAssumption
  <2> QED
    BY <1>6, <1>8, <1>9, <1>10, <1>11, <2>1
<1>13. \A q \in Runs \ {r} : seen'[q] = seen[q]
  BY <1>1, <1>3 DEF TypeOK, RunType
<1> QED
  BY <1>1, <1>11, <1>12, <1>13

\* The ids of a run change in RecordPage only.
LEMMA OnlyRecordAdds ==
  ASSUME [Next]_vars, NEW r \in Runs, \A w \in Workers : ~ RecordPage(w)
  PROVE  seen' = seen
<1>1. ASSUME NEW w \in Workers, ScoreBatch(w) PROVE seen' = seen
  BY <1>1 DEF ScoreBatch
<1> QED
  BY <1>1, OnlyRecordAndScore

\* A page is recorded under the lock, and cut to what the limit leaves room for.
LEMMA LimitStep ==
  ASSUME TypeOK, TypeOK', SourceLockExclusive, LimitInv, [Next]_vars
  PROVE  LimitInv'
<1>1. ASSUME NEW r \in Runs PROVE Cardinality(seen'[r]) <= MaxCandidates
  <2>1. CASE \E w \in Workers : RecordPage(w)
    BY <2>1, RecordPageAdds DEF LimitInv, SeenWithinLimit
  <2>2. CASE \A w \in Workers : ~ RecordPage(w)
    BY <2>2, OnlyRecordAdds DEF LimitInv, SeenWithinLimit
  <2> QED
    BY <2>1, <2>2
<1>2. ASSUME NEW w \in Workers, pc'[w] \in WillRecord
      PROVE  Cardinality(seen'[job'[w].run]) < MaxCandidates
  <2> DEFINE r == job[w].run
  <2>1. pc'[w] \in SourceLocked
    BY <1>2 DEF WillRecord, SourceLocked
  <2>2. job'[w] = job[w] /\ pc[w] # "idle"
    BY <2>1, UnderSourceLock DEF OpenSource, At, SourceLocked
  <2>3. r \in Runs
    BY <2>2, JobOfBusy
  <2>4. pc[w] \in WillRecord \/ CheckPage(w)
    <3>1. CASE HoldsSource(w)
      BY <1>2, <3>1, SourceStepMoves DEF WillRecord, ReservePage, SearchAnswers, At
    <3>2. CASE ~ HoldsSource(w)
      BY <1>2, <2>1, <3>2, IntoSource
    <3> QED
      BY <3>1, <3>2
  <2>5. CASE CheckPage(w)
    <3>1. seen' = seen /\ ~ Full(r)
      BY <1>2, <2>5, SourceStepMoves
      DEF CheckPage, Goto, At, TypeOK, BrokerType, WillRecord, records
    <3> QED
      BY <2>2, <2>3, <3>1, SeenFinite, LimitAssumption DEF Full
  <2>6. CASE pc[w] \in WillRecord /\ ~ CheckPage(w)
    <3>1. \A v \in Workers : RecordPage(v) => job[v].run # r
      <4> SUFFICES ASSUME NEW v \in Workers, RecordPage(v), job[v].run = r PROVE FALSE
        OBVIOUS
      <4>1. pc[v] = "record" /\ pc'[v] = "page"
        BY DEF RecordPage, At, Goto, TypeOK, BrokerType
      <4>2. pc[w] \in SourceLocked /\ pc[v] \in SourceLocked
        BY <2>6, <4>1 DEF WillRecord, SourceLocked
      <4>3. v = w
        BY <4>2 DEF SourceLockExclusive
      <4> QED
        BY <1>2, <4>1, <4>3 DEF WillRecord
    <3>2. seen'[r] = seen[r]
      <4>1. ASSUME NEW v \in Workers, RecordPage(v) PROVE seen'[r] = seen[r]
        BY <2>3, <3>1, <4>1, RecordPageAdds
      <4> QED
        BY <2>3, <4>1, OnlyRecordAdds
    <3> QED
      BY <2>2, <2>6, <3>2 DEF LimitInv, RoomLeft
  <2> QED
    BY <2>4, <2>5, <2>6
<1> QED
  BY <1>1, <1>2 DEF LimitInv, RoomLeft, SeenWithinLimit

\* Pages are searched for one worker at a time, whatever is delivered twice.
LEMMA LockInvariant == Spec => []SourceLockExclusive
<1>1. Init => SourceLockExclusive
  BY DEF Init, SourceLockExclusive, SourceLocked
<1> QED
  BY <1>1, LockStep, TypeCorrect, PTL DEF Spec

\* No run ever sees more than max_candidates people.
LEMMA LimitInvariant == Spec => []LimitInv
<1>1. Init => LimitInv
  <2> SUFFICES ASSUME Init PROVE LimitInv
    OBVIOUS
  <2>1. Cardinality({}) = 0
    BY FS_EmptySet
  <2> QED
    BY <2>1, LimitAssumption DEF Init, LimitInv, RoomLeft, WillRecord, SeenWithinLimit
<1>2. TypeOK /\ TypeOK' /\ SourceLockExclusive /\ LimitInv /\ [Next]_vars => LimitInv'
  BY LimitStep
<1> QED
  BY <1>1, <1>2, LockInvariant, TypeCorrect, PTL DEF Spec

\* A run never records more provider ids than the limit, however many workers
\* hold a message of it and wherever they crash.
THEOREM LimitKept == Spec => []SeenWithinLimit
<1>1. LimitInv => SeenWithinLimit
  BY DEF LimitInv
<1> QED
  BY <1>1, LimitInvariant, PTL

-----------------------------------------------------------------------------
(* Searches of a cancelled run *)

\* The one late search was made by the worker that held the lock; nobody else
\* is about to make another.
Lateness ==
  \A r \in Runs :
    \/ late[r] = 0
    \/ /\ late[r] = 1
       /\ Cancelled(r)
       /\ \A w \in Workers : pc[w] \in WillSearch => job[w].run # r

Searches(w) == SearchAnswers(w) \/ SearchFails(w)

\* Only a search is counted.
LEMMA OnlySearchCounts ==
  ASSUME TypeOK, [Next]_vars, \A w \in Workers : ~ Searches(w)
  PROVE  late' = late
<1>1. CASE UNCHANGED vars
  BY <1>1 DEF vars, provider
<1>2. CASE World
  BY <1>2 DEF World, PublishPlan, Cancel, QueueOnDemand, SettleRequest, Crash,
     DatabaseFailure, Redeliver, provider
<1>3. ASSUME NEW w \in Workers, Work(w)
      PROVE  late' = late
  <2>1. CASE Take(w) \/ Acknowledge(w) \/ Reject(w)
    BY <2>1 DEF Take, Acknowledge, Reject, provider
  <2>2. CASE PlanTask(w)
    BY <2>2 DEF PlanTask, PlanSkipped, Plan, SendSource, provider
  <2>3. CASE SourceTask(w)
    BY <2>3 DEF SourceTask, Searches, OpenSource, CheckProvider, SourceSkipped, CheckPage,
       ReservePage, ReserveExhausted, DisableProvider, PageDiscarded, RecordPage,
       FinishSource, SendMatch, provider
  <2>4. CASE MatchTask(w)
    BY <2>4 DEF MatchTask, MatchSkipped, MatchOutdated, ScoreBatch, MatchCompletes,
       SendEnrich, provider
  <2>5. CASE EnrichTask(w)
    BY <2>5 DEF EnrichTask, BeginEnrich, SelectTop, FinishEmpty, PrepareNothing,
       PrepareRequest, PrepareExhausted, PrepareAmbiguous, SubmitWithdrawn, Submit,
       SendRetry, Finalize, FailActive, MarkProviderDisabled, provider
  <2> QED
    BY <1>3, <2>1, <2>2, <2>3, <2>4, <2>5 DEF Work
<1> QED
  BY <1>1, <1>2, <1>3 DEF Next

\* A worker comes to search for a run that is not cancelled, or was about to.
LEMMA IntoSearch ==
  ASSUME TypeOK, [Next]_vars, NEW w \in Workers, pc'[w] \in WillSearch
  PROVE  /\ job'[w] = job[w] /\ job[w].run \in Runs
         /\ ~ Searches(w)
         /\ \/ pc[w] \in WillSearch
            \/ CheckPage(w) /\ ~ Cancelled(job[w].run)
<1>1. pc'[w] \in SourceLocked
  BY DEF WillSearch, SourceLocked
<1>2. job'[w] = job[w] /\ pc[w] # "idle"
  BY <1>1, UnderSourceLock DEF OpenSource, At, SourceLocked
<1>3. ~ Searches(w)
  BY DEF Searches, SearchAnswers, SearchFails, Goto, GiveBack, Release, At, WillSearch,
     TypeOK, BrokerType
<1>4. CASE HoldsSource(w)
  BY <1>2, <1>3, <1>4, SourceStepMoves, JobOfBusy DEF WillSearch, ReservePage, At
<1>5. CASE ~ HoldsSource(w)
  BY <1>1, <1>2, <1>3, <1>5, IntoSource, JobOfBusy
<1> QED
  BY <1>4, <1>5

\* After the one late search nobody is about to make another: every step.
LEMMA LatenessStep ==
  ASSUME TypeOK, SourceLockExclusive, Lateness, [Next]_vars
  PROVE  Lateness'
<1>1. ASSUME NEW r \in Runs, late'[r] = late[r], late[r] # 0
      PROVE  /\ late'[r] = 1 /\ Cancelled(r)'
             /\ \A w \in Workers : pc'[w] \in WillSearch => job'[w].run # r
  <2>1. late[r] = 1 /\ Cancelled(r)
    BY <1>1 DEF Lateness
  <2>2. Cancelled(r)'
    BY <2>1, CancelledStays
  <2>3. ASSUME NEW w \in Workers, pc'[w] \in WillSearch PROVE job'[w].run # r
    BY <1>1, <2>1, <2>3, IntoSearch DEF Lateness, CheckPage
  <2> QED
    BY <1>1, <2>1, <2>2, <2>3
<1>2. ASSUME NEW w \in Workers, Searches(w), NEW r \in Runs, job[w].run = r
      PROVE  Lateness'
  <2>1. pc[w] = "search"
    BY <1>2 DEF Searches, SearchAnswers, SearchFails, At
  <2>2. late[r] = 0
    BY <1>2, <2>1 DEF Lateness, WillSearch
  <2>3. /\ late' = late \/ (Cancelled(r) /\ late' = [late EXCEPT ![r] = @ + 1])
        /\ state' = state
    BY <1>2 DEF Searches, SearchAnswers, SearchFails, CallProvider
  <2>4. ASSUME NEW v \in Workers, pc'[v] \in WillSearch, Cancelled(r)
        PROVE  job'[v].run # r
    <3>1. v # w
      BY <1>2, <2>4, IntoSearch
    <3>2. pc[v] \in SourceLocked
      BY <2>4, IntoSearch, UnderSourceLock DEF WillSearch, SourceLocked, CheckPage, At
    <3>3. job[v].run # r
      BY <1>2, <2>1, <3>1, <3>2 DEF SourceLockExclusive, SourceLocked
    <3> QED
      BY <2>4, <3>3, IntoSearch
  <2>5. CASE late' = late
    BY <1>1, <2>5 DEF Lateness
  <2>6. CASE Cancelled(r) /\ late' = [late EXCEPT ![r] = @ + 1]
    <3>1. late'[r] = 1 /\ \A q \in Runs \ {r} : late'[q] = late[q]
      BY <2>1, <2>2, <2>6 DEF TypeOK, ProviderType
    <3>2. Cancelled(r)'
      BY <2>1, <2>6, CancelledStays
    <3> QED
      BY <1>1, <2>4, <2>6, <3>1, <3>2 DEF Lateness
  <2> QED
    BY <2>3, <2>5, <2>6
<1>3. CASE \A w \in Workers : ~ Searches(w)
  BY <1>1, <1>3, OnlySearchCounts DEF Lateness
<1>4. ASSUME NEW w \in Workers, Searches(w) PROVE job[w].run \in Runs
  BY <1>4, JobOfBusy DEF Searches, SearchAnswers, SearchFails, At
<1> QED
  BY <1>2, <1>3, <1>4

\* A cancelled run is searched for at most once more, by the worker that had
\* checked it before the cancellation.
THEOREM OneLateSearch == Spec => []AtMostOneSearchAfterCancel
<1>1. Init => Lateness
  BY DEF Init, Lateness
<1>2. Lateness => AtMostOneSearchAfterCancel
  BY DEF Lateness, AtMostOneSearchAfterCancel
<1> QED
  BY <1>1, <1>2, LatenessStep, LockInvariant, TypeCorrect, PTL DEF Spec

-----------------------------------------------------------------------------
(* The refinement: what every step of the pipeline is to the recruiter. A    *)
(* step that ends a stage is a move; a page and a batch add results; all     *)
(* others, of the broker, the locks, the checkpoints and the requests, are   *)
(* stutters.                                                                 *)

\* Only candidates of the run are scored.
ScoredAreFound == \A r \in Runs : scored[r] \subseteq Found(r)

\* A state that transition_run may leave for another, or the same one.
Moves(current, target) ==
  \/ target = current
  \/ CanMove(current, target) /\ target \notin {"matching", "enriching"}

\* The specification of the promise counts as this one does.
LEMMA LifeCounts ==
  ASSUME NEW S
  PROVE  Life!Cardinality(S) = Cardinality(S)
BY DEF Cardinality, Life!Cardinality

\* A step that only moves the state of one run.
LEMMA MoveRefines ==
  ASSUME TypeOK, NEW r \in Runs, NEW target \in RunStates, Moves(state[r], target),
         state' = [state EXCEPT ![r] = target], UNCHANGED <<seen, scored>>
  PROVE  [Life!Next]_(Life!vars)
<1>1. UNCHANGED [q \in Runs |-> Found(q)]
  BY DEF Found
<1>2. CASE target = state[r]
  <2>1. state' = state
    BY <1>2 DEF TypeOK, RunType
  <2> QED
    BY <1>1, <2>1 DEF Life!vars
<1>3. CASE CanMove(state[r], target) /\ target \notin {"matching", "enriching"}
  <2>1. Life!CanMove(state[r], target) /\ target \in Life!RunStates \ {"matching", "enriching"}
    BY <1>3 DEF CanMove, AllowedTransitions, Life!CanMove, Life!AllowedTransitions,
       Life!RunStates, RunStates
  <2>2. Life!MoveTo(r, target)
    BY <1>1, <2>1 DEF Life!MoveTo
  <2> QED
    BY <2>1, <2>2 DEF Life!Next, Life!OtherMove
<1> QED
  BY <1>2, <1>3 DEF Moves

\* A step that changes nothing of what the recruiter sees.
LEMMA StutterRefines ==
  ASSUME UNCHANGED <<state, seen, scored>>
  PROVE  [Life!Next]_(Life!vars)
BY DEF Life!vars, Found

\* A recorded page: the run is neither queued nor cancelled, and stays within
\* the limit.
LEMMA RecordRefines ==
  ASSUME TypeOK, TypeOK', CheckpointInv, LimitInv, NEW w \in Workers, RecordPage(w)
  PROVE  [Life!Next]_(Life!vars) /\ \A r \in Runs : Found(r) \subseteq Found(r)'
<1> DEFINE f == [q \in Runs |-> Found(q)]
<1>1. PICK r \in Runs : r = job[w].run
  BY RecordPageAdds
<1>2. \A q \in Runs \ {r} : seen'[q] = seen[q]
  BY <1>1, RecordPageAdds
<1>3. seen[r] \subseteq seen'[r] /\ Cardinality(seen'[r]) <= MaxCandidates
  BY <1>1, RecordPageAdds
<1>4. f' = [f EXCEPT ![r] = Found(r)']
  BY <1>2 DEF Found
<1>5. Found(r) \subseteq Found(r)'
  BY <1>3 DEF Found
<1>6. Found(r)' \in SUBSET Candidates /\ Cardinality(Found(r)') <= MaxCandidates
  <2>1. Found(r)' \subseteq Candidates
    BY CatalogAssumption DEF Found, TypeOK, RunType
  <2>2. /\ Cardinality(seen'[r]) \in Nat /\ Cardinality(Found(r)') \in Nat
        /\ Cardinality(Found(r)') <= Cardinality(seen'[r])
    <3> DEFINE g == [p \in seen'[r] |-> CandidateOf[p]]
    <3>1. IsFiniteSet(seen'[r])
      BY CatalogAssumption, FS_Subset DEF TypeOK, RunType
    <3>2. g \in Surjection(seen'[r], Found(r)')
      BY DEF Surjection, Found
    <3> QED
      BY <3>1, <3>2, FS_Surjection, FS_CardinalityType
  <2> QED
    BY <1>3, <2>1, <2>2, LimitAssumption
<1>7. state[r] \notin {"queued", "cancelled"}
  BY <1>1 DEF RecordPage, At, Cancelled, CheckpointInv, QueuedAwaitsPlan
<1>8. UNCHANGED <<state, scored>>
  BY DEF RecordPage
<1>9. Life!Collect(r)
  <2>1. PICK more \in SUBSET Candidates : more = Found(r)'
    BY <1>6
  <2>2. /\ [q \in Runs |-> Found(q)][r] \subseteq more
        /\ Life!Cardinality(more) <= MaxCandidates
        /\ [q \in Runs |-> Found(q)]' = [[q \in Runs |-> Found(q)] EXCEPT ![r] = more]
    BY <1>4, <1>5, <1>6, <2>1, LifeCounts
  <2>3. \E set \in SUBSET Candidates :
          /\ [q \in Runs |-> Found(q)][r] \subseteq set
          /\ Life!Cardinality(set) <= MaxCandidates
          /\ [q \in Runs |-> Found(q)]' = [[q \in Runs |-> Found(q)] EXCEPT ![r] = set]
    BY <2>2
  <2> QED
    BY <1>7, <1>8, <2>3 DEF Life!Collect
<1> QED
  BY <1>2, <1>5, <1>9 DEF Life!Next, Found

\* A scored batch.
LEMMA ScoreRefines ==
  ASSUME TypeOK, ScoredAreFound, NEW w \in Workers, ScoreBatch(w)
  PROVE  [Life!Next]_(Life!vars) /\ ScoredAreFound'
<1>1. PICK r \in Runs : r = job[w].run
  BY JobOfBusy DEF ScoreBatch, At
<1>2. PICK batch \in SUBSET Unmatched(r) : scored' = [scored EXCEPT ![r] = @ \cup batch]
  BY <1>1 DEF ScoreBatch
<1>3. scored[r] \cup batch \in SUBSET Found(r)
  BY <1>2 DEF Unmatched, ScoredAreFound
<1>4. state[r] \in {"matching", "partially_ready"}
  BY <1>1 DEF ScoreBatch, Matchable
<1>5. UNCHANGED <<state, seen>> /\ UNCHANGED [q \in Runs |-> Found(q)]
  BY DEF ScoreBatch, Found
<1>6. [q \in Runs |-> Found(q)][r] = Found(r)
  OBVIOUS
<1>7. Life!Score(r)
  BY <1>2, <1>3, <1>4, <1>5, <1>6 DEF Life!Score
<1>8. ScoredAreFound'
  BY <1>2, <1>3, <1>5 DEF ScoredAreFound, Found, TypeOK, RunType
<1> QED
  BY <1>7, <1>8 DEF Life!Next

\* The ranked list is handed to enrichment, scored in full.
LEMMA RankRefines ==
  ASSUME TypeOK, ScoredAreFound, NEW w \in Workers, MatchCompletes(w)
  PROVE  [Life!Next]_(Life!vars)
<1>1. PICK r \in Runs : r = job[w].run
  BY JobOfBusy DEF MatchCompletes, At
<1>2. scored[r] = Found(r)
  BY <1>1 DEF MatchCompletes, AllMatched, Unmatched, ScoredAreFound
<1>3. state[r] \in {"matching", "partially_ready"}
  BY <1>1 DEF MatchCompletes, Matchable
<1>4. Life!CanMove(state[r], "enriching")
  BY <1>3 DEF Life!CanMove, Life!AllowedTransitions
<1>5. /\ state' = [state EXCEPT ![r] = "enriching"]
      /\ UNCHANGED <<seen, scored>> /\ UNCHANGED [q \in Runs |-> Found(q)]
  BY <1>1 DEF MatchCompletes, Complete, Found
<1>6. Life!Rank(r)
  BY <1>2, <1>4, <1>5 DEF Life!Rank, Life!MoveTo
<1> QED
  BY <1>6 DEF Life!Next

\* The end of the search: with something to rank, or another move, or nothing.
LEMMA FinishRefines ==
  ASSUME TypeOK, CheckpointInv, NEW w \in Workers, FinishSource(w)
  PROVE  [Life!Next]_(Life!vars)
<1>1. PICK r \in Runs : r = job[w].run
  BY JobOfBusy DEF FinishSource, FinishSteps
<1> DEFINE target == FinishTarget(w)
<1>2. /\ state' = [state EXCEPT ![r] = target]
      /\ UNCHANGED <<seen, scored>> /\ UNCHANGED [q \in Runs |-> Found(q)]
  BY <1>1 DEF FinishSource, Complete, Found
<1>3. target \in {"cancelled", "partially_ready", "failed", "matching"}
  BY DEF FinishTarget
<1>4. target = state[r] \/ CanMove(state[r], target)
  BY <1>1 DEF FinishSource, FinishRefused, FinishTarget, Cancelled
<1>5. CASE target = "matching" /\ target # state[r]
  <2>1. Found(r) # {} /\ [q \in Runs |-> Found(q)][r] = Found(r)
    BY <1>1, <1>5 DEF FinishTarget
  <2>2. Life!CanMove(state[r], "matching")
    BY <1>4, <1>5 DEF CanMove, Life!CanMove, AllowedTransitions, Life!AllowedTransitions
  <2>3. Life!SearchSucceeds(r)
    BY <1>2, <1>5, <2>1, <2>2 DEF Life!SearchSucceeds, Life!MoveTo
  <2> QED
    BY <2>3 DEF Life!Next
<1>6. CASE target # "matching" \/ target = state[r]
  <2>1. Moves(state[r], target) /\ target \in RunStates
    BY <1>3, <1>4, <1>6 DEF Moves, RunStates
  <2> HIDE DEF target
  <2> QED
    BY <1>2, <2>1, MoveRefines
<1> QED
  BY <1>5, <1>6

\* The moves that the enrichment of a run and an exhausted budget make.
LEMMA SomeMoves ==
  ASSUME NEW current \in RunStates
  PROVE  /\ Moves(current, BudgetExhausted(current))
         /\ BudgetExhausted(current) \in RunStates
         /\ current = "enriching" => /\ Moves(current, "ready")
                                     /\ Moves(current, "partially_ready")
         /\ current \in {"matching", "partially_ready"} => Moves(current, "failed")
         /\ current = "queued" => Moves(current, "sourcing") /\ Moves(current, "failed")
         /\ current \notin TerminalStates => Moves(current, "cancelled")
BY DEF Moves, CanMove, AllowedTransitions, RunStates, BudgetExhausted, TerminalStates

\* Finalizing a run is one of the moves the state machine allows.
LEMMA FinalizedMoves ==
  ASSUME TypeOK, NEW r \in Runs, NEW now
  PROVE  Moves(state[r], Finalized(r, now)) /\ Finalized(r, now) \in RunStates
BY DEF Finalized, Moves, CanMove, AllowedTransitions, RunStates, TypeOK, RunType

\* The planning task moves the run as promised, or not at all ...
LEMMA PlanRefines ==
  ASSUME TypeOK, NEW w \in Workers, PlanTask(w)
  PROVE  [Life!Next]_(Life!vars)
<1>1. CASE PlanSkipped(w) \/ SendSource(w)
  BY <1>1, StutterRefines DEF PlanSkipped, SendSource, Complete, records
<1>2. CASE Plan(w)
  <2>1. PICK r \in Runs : r = job[w].run
    BY <1>2, JobOfBusy DEF Plan, At
  <2>2. \E target \in {"sourcing", "failed"} : state' = [state EXCEPT ![r] = target]
    BY <1>2, <2>1 DEF Plan
  <2>3. UNCHANGED <<seen, scored>> /\ state[r] = "queued"
    BY <1>2, <2>1 DEF Plan, Complete
  <2> QED
    BY <2>2, <2>3, SomeMoves, MoveRefines DEF RunStates
<1> QED
  BY <1>1, <1>2 DEF PlanTask

\* ... so does the sourcing task, ...
LEMMA SourceRefines ==
  ASSUME TypeOK, CheckpointInv, NEW w \in Workers, SourceTask(w), ~ RecordPage(w)
  PROVE  [Life!Next]_(Life!vars)
<1>1. CASE \/ CheckProvider(w) \/ SourceSkipped(w) \/ OpenSource(w) \/ CheckPage(w)
           \/ ReservePage(w) \/ SearchAnswers(w) \/ SearchFails(w) \/ DisableProvider(w)
           \/ PageDiscarded(w) \/ SendMatch(w)
  BY <1>1, StutterRefines
  DEF CheckProvider, SourceSkipped, OpenSource, CheckPage, ReservePage, SearchAnswers,
      SearchFails, DisableProvider, PageDiscarded, SendMatch, Complete, records
<1>2. CASE ReserveExhausted(w)
  <2>1. PICK r \in Runs : r = job[w].run
    BY <1>2, JobOfBusy DEF ReserveExhausted, At
  <2>2. /\ state' = [state EXCEPT ![r] = BudgetExhausted(state[r])]
        /\ UNCHANGED <<seen, scored>>
    BY <1>2, <2>1 DEF ReserveExhausted, records
  <2>3. state[r] \in RunStates
    BY DEF TypeOK, RunType
  <2> QED
    BY <2>2, <2>3, SomeMoves, MoveRefines
<1> QED
  BY <1>1, <1>2, FinishRefines DEF SourceTask

\* ... the matching task, ...
LEMMA MatchRefines ==
  ASSUME TypeOK, ScoredAreFound, NEW w \in Workers, MatchTask(w)
  PROVE  [Life!Next]_(Life!vars)
<1>1. CASE MatchSkipped(w) \/ SendEnrich(w)
  BY <1>1, StutterRefines DEF MatchSkipped, SendEnrich, Complete, records
<1>2. CASE MatchOutdated(w)
  <2>1. PICK r \in Runs : r = job[w].run
    BY <1>2, JobOfBusy DEF MatchOutdated, At
  <2>2. /\ state' = [state EXCEPT ![r] = "failed"] /\ UNCHANGED <<seen, scored>>
        /\ state[r] \in {"matching", "partially_ready"}
    BY <1>2, <2>1 DEF MatchOutdated, Matchable, Complete
  <2> QED
    BY <2>2, SomeMoves, MoveRefines DEF RunStates
<1> QED
  BY <1>1, <1>2, ScoreRefines, RankRefines DEF MatchTask

\* ... the enrichment task, ...
LEMMA EnrichRefines ==
  ASSUME TypeOK, NEW w \in Workers, EnrichTask(w)
  PROVE  [Life!Next]_(Life!vars)
<1>1. PICK r \in Runs : r = job[w].run
  BY JobOfBusy DEF EnrichTask, BeginEnrich, SelectTop, FinishEmpty, PrepareNothing,
     PrepareRequest, PrepareExhausted, PrepareAmbiguous, SubmitWithdrawn, Submit,
     SendRetry, Finalize, FailActive, MarkProviderDisabled, At
<1>2. state[r] \in RunStates
  BY DEF TypeOK, RunType
<1>3. CASE \/ BeginEnrich(w) \/ SelectTop(w) \/ PrepareNothing(w) \/ PrepareRequest(w)
           \/ PrepareAmbiguous(w) \/ SubmitWithdrawn(w) \/ Submit(w) \/ SendRetry(w)
           \/ FailActive(w)
  <2>1. UNCHANGED <<state, records>>
    BY <1>3 DEF BeginEnrich, SelectTop, PrepareNothing, PrepareRequest, PrepareAmbiguous,
       SubmitWithdrawn, Submit, SendRetry, FailActive
  <2> QED
    BY <2>1, StutterRefines DEF records
<1>4. CASE FinishEmpty(w)
  <2>1. PICK target : target = IF state[r] = "enriching" THEN "ready" ELSE state[r]
    OBVIOUS
  <2>2. state' = [state EXCEPT ![r] = target] /\ UNCHANGED <<seen, scored>>
    BY <1>1, <1>4, <2>1 DEF FinishEmpty, records
  <2>3. Moves(state[r], target) /\ target \in RunStates
    BY <1>2, <2>1, SomeMoves DEF Moves, RunStates
  <2> QED
    BY <2>2, <2>3, MoveRefines
<1>5. CASE PrepareExhausted(w)
  <2>1. /\ state' = [state EXCEPT ![r] = BudgetExhausted(state[r])]
        /\ UNCHANGED <<seen, scored>>
    BY <1>1, <1>5 DEF PrepareExhausted, records
  <2> QED
    BY <1>2, <2>1, SomeMoves, MoveRefines
<1>6. CASE Finalize(w)
  <2>1. /\ state' = [state EXCEPT ![r] = Finalized(r, requests[r])]
        /\ UNCHANGED <<seen, scored>>
    BY <1>1, <1>6 DEF Finalize, records
  <2> QED
    BY <2>1, FinalizedMoves, MoveRefines
<1>7. CASE MarkProviderDisabled(w)
  <2>1. PICK target : target = IF state[r] = "enriching" THEN "partially_ready" ELSE state[r]
    OBVIOUS
  <2>2. state' = [state EXCEPT ![r] = target] /\ UNCHANGED <<seen, scored>>
    BY <1>1, <1>7, <2>1 DEF MarkProviderDisabled, records
  <2>3. Moves(state[r], target) /\ target \in RunStates
    BY <1>2, <2>1, SomeMoves DEF Moves, RunStates
  <2> QED
    BY <2>2, <2>3, MoveRefines
<1> QED
  BY <1>3, <1>4, <1>5, <1>6, <1>7 DEF EnrichTask

\* ... and whatever happens around the tasks.
LEMMA WorldRefines ==
  ASSUME TypeOK, World
  PROVE  [Life!Next]_(Life!vars)
<1>1. ASSUME NEW r \in Runs, PublishPlan(r) \/ QueueOnDemand(r)
      PROVE  [Life!Next]_(Life!vars)
  BY <1>1, StutterRefines DEF PublishPlan, QueueOnDemand, records
<1>2. ASSUME NEW r \in Runs, Cancel(r)
      PROVE  [Life!Next]_(Life!vars)
  <2>1. /\ state' = [state EXCEPT ![r] = "cancelled"] /\ UNCHANGED <<seen, scored>>
        /\ state[r] \in RunStates \ TerminalStates
    BY <1>2 DEF Cancel, records, TypeOK, RunType
  <2> QED
    BY <2>1, SomeMoves, MoveRefines DEF RunStates
<1>3. ASSUME NEW r \in Runs, NEW kind \in Kinds, SettleRequest(r, kind)
      PROVE  [Life!Next]_(Life!vars)
  <2>1. PICK now : state' = [state EXCEPT ![r] = Finalized(r, now)]
    BY <1>3 DEF SettleRequest
  <2>2. UNCHANGED <<seen, scored>>
    BY <1>3 DEF SettleRequest, records
  <2> QED
    BY <2>1, <2>2, FinalizedMoves, MoveRefines
<1>4. ASSUME NEW w \in Workers, Crash(w) \/ DatabaseFailure(w) \/ Redeliver(w)
      PROVE  [Life!Next]_(Life!vars)
  BY <1>4, StutterRefines DEF Crash, DatabaseFailure, Redeliver, records
<1> QED
  BY <1>1, <1>2, <1>3, <1>4 DEF World

\* Every step of the pipeline is a step of the promise, or none at all.
LEMMA StepRefines ==
  ASSUME TypeOK, TypeOK', CheckpointInv, LimitInv, ScoredAreFound, [Next]_vars
  PROVE  [Life!Next]_(Life!vars)
<1>1. CASE UNCHANGED vars
  BY <1>1, StutterRefines DEF vars, records
<1>2. ASSUME NEW w \in Workers, Work(w)
      PROVE  [Life!Next]_(Life!vars)
  <2>1. CASE Take(w) \/ Acknowledge(w) \/ Reject(w)
    BY <2>1, StutterRefines DEF Take, Acknowledge, Reject, records
  <2>2. CASE SourceTask(w)
    <3>1. CASE RecordPage(w)
      BY <3>1, RecordRefines
    <3>2. CASE ~ RecordPage(w)
      BY <2>2, <3>2, SourceRefines
    <3> QED
      BY <3>1, <3>2
  <2> QED
    BY <1>2, <2>1, <2>2, PlanRefines, MatchRefines, EnrichRefines DEF Work
<1> QED
  BY <1>1, <1>2, WorldRefines DEF Next

\* Only people a page has brought are scored: every step.
LEMMA ScoredStep ==
  ASSUME TypeOK, TypeOK', CheckpointInv, LimitInv, ScoredAreFound, [Next]_vars
  PROVE  ScoredAreFound'
<1>1. ASSUME NEW w \in Workers, RecordPage(w) PROVE ScoredAreFound'
  <2>1. scored' = scored
    BY <1>1 DEF RecordPage
  <2> QED
    BY <1>1, <2>1, RecordRefines DEF ScoredAreFound
<1>2. CASE \A w \in Workers : ~ RecordPage(w) /\ ~ ScoreBatch(w)
  BY <1>2, OnlyRecordAndScore DEF ScoredAreFound, Found
<1> QED
  BY <1>1, <1>2, ScoreRefines

\* Only people a page has brought are scored.
LEMMA ScoredInvariant == Spec => []ScoredAreFound
<1>1. Init => ScoredAreFound
  BY DEF Init, ScoredAreFound
<1> QED
  BY <1>1, ScoredStep, CheckpointInvariant, LimitInvariant, TypeCorrect, PTL DEF Spec

\* The pipeline implements RunLifecycle: whatever workers and broker do, a run
\* moves along the allowed transitions, results are only added, a run is handed
\* to enrichment when everything found is scored, and a cancelled run is final.
THEOREM PromiseKept == Spec => KeepsRunPromise
<1>1. Init => Life!Init
  <2> SUFFICES ASSUME Init PROVE Life!Init
    OBVIOUS
  <2>1. [r \in Runs |-> Found(r)] = [r \in Runs |-> {}]
    BY DEF Init, Found
  <2> QED
    BY <2>1 DEF Init, Life!Init
<1>2. /\ TypeOK /\ TypeOK' /\ CheckpointInv /\ LimitInv /\ ScoredAreFound
      /\ [Next]_vars
      => [Life!Next]_(Life!vars)
  BY StepRefines
<1> QED
  BY <1>1, <1>2, CheckpointInvariant, LimitInvariant, ScoredInvariant, TypeCorrect, PTL
  DEF Spec, KeepsRunPromise, Life!Spec

-----------------------------------------------------------------------------
(* Who moves: what a step does to one worker, one message, one checkpoint    *)

\* A worker moves by its own step, by dying or by a failure of the database.
LEMMA OthersStay ==
  ASSUME TypeOK, NEW w \in Workers, ~ Work(w), ~ Crash(w), ~ DatabaseFailure(w), [Next]_vars
  PROVE  pc'[w] = pc[w] /\ job'[w] = job[w]
<1>1. CASE UNCHANGED vars
  BY <1>1 DEF vars, records, provider, environment, TypeOK, BrokerType, RunType
<1>2. CASE World
  BY <1>2 DEF World, PublishPlan, Cancel, QueueOnDemand, SettleRequest, Crash,
       DatabaseFailure, Redeliver, GiveBack, Drop, Release, Put, Again, Message, Busy,
       TypeOK, BrokerType, RunType, records, provider
<1>3. ASSUME NEW v \in Workers, v # w, Work(v)
      PROVE  pc'[w] = pc[w] /\ job'[w] = job[w]
  <2>1. CASE Take(v)
    BY <1>3, <2>1 DEF Take, Messages, Tasks, TypeOK, BrokerType, RunType, records, provider
  <2>2. CASE Acknowledge(v) \/ Reject(v)
    BY <1>3, <2>2 DEF Acknowledge, Reject, Drop, Release, TypeOK, BrokerType, RunType, records,
       provider
  <2>3. CASE PlanTask(v)
    BY <1>3, <2>3 DEF PlanTask, PlanSkipped, Plan, SendSource, AfterReplay, Complete, Goto,
       SendThen, Put, Message, At, TypeOK, BrokerType, RunType, records, provider
  <2>4. CASE SourceTask(v)
    BY <1>3, <2>4 DEF SourceTask, CheckProvider, SourceSkipped, OpenSource, CheckPage,
       ReservePage, ReserveExhausted, SearchAnswers, SearchFails, DisableProvider,
       PageDiscarded, RecordPage, FinishSource, SendMatch, Complete, Goto, SendThen,
       GiveBack, Again, Release, Put, Message, At, FinishSteps, TypeOK, BrokerType,
       RunType, records, provider
  <2>5. CASE MatchTask(v)
    BY <1>3, <2>5 DEF MatchTask, MatchSkipped, MatchOutdated, ScoreBatch, MatchCompletes,
       SendEnrich, Matchable, Complete, Goto, SendThen, Put, Message, At, TypeOK,
       BrokerType, RunType, records, provider
  <2>6. CASE EnrichTask(v)
    BY <1>3, <2>6 DEF EnrichTask, BeginEnrich, SelectTop, FinishEmpty, PrepareNothing,
       PrepareRequest, PrepareExhausted, PrepareAmbiguous, SubmitWithdrawn, Submit,
       SendRetry, Finalize, FailActive, MarkProviderDisabled, Goto, SendThen, Put,
       Message, At, TypeOK, BrokerType, RunType, records, provider
  <2> QED
    BY <1>3, <2>1, <2>2, <2>3, <2>4, <2>5, <2>6 DEF Work
<1> QED
  BY <1>1, <1>2, <1>3 DEF Next

\* A busy worker keeps its message, or has just taken it from the broker.
LEMMA JobOrigin ==
  ASSUME TypeOK, [Next]_vars, NEW w \in Workers, pc'[w] # "idle"
  PROVE  \/ pc[w] # "idle" /\ job'[w] = job[w]
         \/ Take(w) /\ job'[w] \in Messages /\ queue[job'[w]] > 0 /\ pc'[w] = job'[w].task
<1>1. CASE Take(w)
  BY <1>1 DEF Take, TypeOK, BrokerType
<1>2. CASE Crash(w) \/ DatabaseFailure(w) \/ Acknowledge(w) \/ Reject(w)
  BY <1>2 DEF Crash, DatabaseFailure, Acknowledge, Reject, GiveBack, Drop, Release, TypeOK,
     BrokerType
<1>3. CASE PlanTask(w)
  BY <1>3 DEF PlanTask, PlanSkipped, Plan, SendSource, Goto, SendThen, At
<1>4. CASE SourceTask(w)
  BY <1>4 DEF SourceTask, CheckProvider, SourceSkipped, OpenSource, CheckPage, ReservePage,
     ReserveExhausted, SearchAnswers, SearchFails, DisableProvider, PageDiscarded,
     RecordPage, FinishSource, SendMatch, Goto, SendThen, GiveBack, Release, At,
     FinishSteps, TypeOK, BrokerType
<1>5. CASE MatchTask(w)
  BY <1>5 DEF MatchTask, MatchSkipped, MatchOutdated, ScoreBatch, MatchCompletes,
     SendEnrich, Goto, SendThen, At
<1>6. CASE EnrichTask(w)
  BY <1>6 DEF EnrichTask, BeginEnrich, SelectTop, FinishEmpty, PrepareNothing,
     PrepareRequest, PrepareExhausted, PrepareAmbiguous, SubmitWithdrawn, Submit,
     SendRetry, Finalize, FailActive, MarkProviderDisabled, Goto, SendThen, At
<1> QED
  BY <1>1, <1>2, <1>3, <1>4, <1>5, <1>6, OthersStay DEF Work

\* The message a step of a task publishes.
Sends(w, m) ==
  \/ SendSource(w) /\ m = Message("source", job[w].run)
  \/ SendMatch(w) /\ MatchEligible(job[w].run) /\ m = Message("match", job[w].run)
  \/ SendEnrich(w) /\ m = Message("enrich", job[w].run)
  \/ SendRetry(w) /\ m = Message("enrich", job[w].run)

\* A message was there before, or was just published, given back or repeated;
\* it is a retry when its worker met a failure.
LEMMA MessageOrigin ==
  ASSUME TypeOK, [Next]_vars, NEW m \in Messages, queue'[m] > 0
  PROVE  \/ queue[m] > 0
         \/ \E r \in Runs : m = Message("plan", r)
         \/ \E w \in Workers :
              /\ pc[w] # "idle"
              /\ \/ m = job[w]
                 \/ m = Again(job[w]) /\ (DatabaseFailure(w) \/ SearchFails(w))
         \/ \E w \in Workers : Sends(w, m)
<1>1. CASE UNCHANGED vars
  BY <1>1 DEF vars
<1>2. CASE World
  <2>1. CASE \E r \in Runs : PublishPlan(r)
    BY <2>1 DEF PublishPlan, Put, TypeOK, BrokerType
  <2>2. CASE \E r \in Runs : Cancel(r) \/ QueueOnDemand(r) \/ \E k \in Kinds : SettleRequest(r, k)
    BY <2>2 DEF Cancel, QueueOnDemand, SettleRequest
  <2>3. CASE \E w \in Workers : Crash(w) \/ Redeliver(w)
    BY <2>3 DEF Crash, Redeliver, GiveBack, Put, Busy, TypeOK, BrokerType
  <2>4. CASE \E w \in Workers : DatabaseFailure(w)
    BY <2>4 DEF DatabaseFailure, GiveBack, Drop, Put, TypeOK, BrokerType
  <2> QED
    BY <1>2, <2>1, <2>2, <2>3, <2>4 DEF World
<1>3. ASSUME NEW w \in Workers, Work(w)
      PROVE  \/ queue[m] > 0
             \/ pc[w] # "idle" /\ m = Again(job[w]) /\ SearchFails(w)
             \/ Sends(w, m)
  <2>1. CASE Take(w) \/ Acknowledge(w) \/ Reject(w)
    BY <2>1 DEF Take, Acknowledge, Reject, Drop, TypeOK, BrokerType
  <2>2. CASE PlanTask(w)
    BY <2>2 DEF PlanTask, PlanSkipped, Plan, SendSource, Goto, SendThen, Put, Sends,
       TypeOK, BrokerType
  <2>3. CASE SourceTask(w)
    BY <2>3 DEF SourceTask, CheckProvider, SourceSkipped, OpenSource, CheckPage,
       ReservePage, ReserveExhausted, SearchAnswers, SearchFails, DisableProvider,
       PageDiscarded, RecordPage, FinishSource, SendMatch, Goto, SendThen, GiveBack, At,
       Put, Sends, TypeOK, BrokerType
  <2>4. CASE MatchTask(w)
    BY <2>4 DEF MatchTask, MatchSkipped, MatchOutdated, ScoreBatch, MatchCompletes,
       SendEnrich, Goto, SendThen, Put, Sends, TypeOK, BrokerType
  <2>5. CASE EnrichTask(w)
    BY <2>5 DEF EnrichTask, BeginEnrich, SelectTop, FinishEmpty, PrepareNothing,
       PrepareRequest, PrepareExhausted, PrepareAmbiguous, SubmitWithdrawn, Submit,
       SendRetry, Finalize, FailActive, MarkProviderDisabled, Goto, SendThen, Put, Sends,
       TypeOK, BrokerType
  <2> QED
    BY <1>3, <2>1, <2>2, <2>3, <2>4, <2>5 DEF Work
<1> QED
  BY <1>1, <1>2, <1>3 DEF Next

\* A stage once completed stays completed.
LEMMA CheckpointsStay ==
  ASSUME TypeOK, [Next]_vars, NEW r \in Runs
  PROVE  checkpoints[r] \subseteq checkpoints'[r]
<1>1. CASE UNCHANGED vars
  BY <1>1 DEF vars, records
<1>2. CASE World
  BY <1>2 DEF World, PublishPlan, Cancel, QueueOnDemand, SettleRequest, Crash,
     DatabaseFailure, Redeliver, records
<1>3. ASSUME NEW w \in Workers, Work(w)
      PROVE  checkpoints[r] \subseteq checkpoints'[r]
  <2>1. CASE Take(w) \/ Acknowledge(w) \/ Reject(w)
    BY <2>1 DEF Take, Acknowledge, Reject, records
  <2>2. CASE PlanTask(w)
    BY <2>2 DEF PlanTask, PlanSkipped, Plan, SendSource, Complete, records, TypeOK, RunType
  <2>3. CASE SourceTask(w)
    BY <2>3 DEF SourceTask, CheckProvider, SourceSkipped, OpenSource, CheckPage,
       ReservePage, ReserveExhausted, SearchAnswers, SearchFails, DisableProvider,
       PageDiscarded, RecordPage, FinishSource, SendMatch, Complete, records, TypeOK,
       RunType
  <2>4. CASE MatchTask(w)
    BY <2>4 DEF MatchTask, MatchSkipped, MatchOutdated, ScoreBatch, MatchCompletes,
       SendEnrich, Complete, records, TypeOK, RunType
  <2>5. CASE EnrichTask(w)
    BY <2>5 DEF EnrichTask, BeginEnrich, SelectTop, FinishEmpty, PrepareNothing,
       PrepareRequest, PrepareExhausted, PrepareAmbiguous, SubmitWithdrawn, Submit,
       SendRetry, Finalize, FailActive, MarkProviderDisabled, records
  <2> QED
    BY <1>3, <2>1, <2>2, <2>3, <2>4, <2>5 DEF Work
<1> QED
  BY <1>1, <1>2, <1>3 DEF Next

-----------------------------------------------------------------------------
(* Results and lost work. Both hold while the provider only answers: a       *)
(* failed search ends a run without the lock, and a disabled connector       *)
(* without a word to the next stage.                                         *)

ProviderAnswers == ProviderErrors = {} /\ "auth" \notin EnrichOutcomes

\* The places reached only by a refused search or a disabled connector.
GivingUp == {"disable", "giveup", "giveup_off", "refused", "fail_active",
             "finalize_off", "mark_off"}

ConnectorOn == enabled /\ \A w \in Workers : pc[w] \notin GivingUp

\* The task a worker's place belongs to.
PlanPlaces == {"plan", "plan_sent"}
SourcePlaces == SourceLocked \cup {"source", "lock", "source_done"}
MatchPlaces == {"match", "match_done"}
EnrichPlaces == EnrichLocked \cup {"enrich"}

PlacesFitTasks ==
  \A w \in Workers :
    /\ pc[w] \in PlanPlaces => job[w].task = "plan"
    /\ pc[w] \in SourcePlaces => job[w].task = "source"
    /\ pc[w] \in MatchPlaces => job[w].task = "match"
    /\ pc[w] \in EnrichPlaces => job[w].task = "enrich"

\* Nothing is enriched before the match stage is done.
EnrichAfterMatch ==
  /\ \A m \in Messages : m.task = "enrich" /\ queue[m] > 0 => "match" \in checkpoints[m.run]
  /\ \A w \in Workers : pc[w] # "idle" /\ (job[w].task = "enrich" \/ pc[w] = "match_done")
                          => "match" \in checkpoints[job[w].run]

\* The source lock is held for a run that is being searched for.
SearchedWhileSourcing ==
  \A w \in Workers : pc[w] \in SourceLocked \ {"finish_budget"} =>
    state[job[w].run] \in {"sourcing", "cancelled"}

StageInv == /\ ConnectorOn /\ PlacesFitTasks
            /\ EnrichAfterMatch /\ SearchedWhileSourcing

\* The connector stays on, and nobody gives up.
LEMMA ConnectorStep ==
  ASSUME ProviderAnswers, TypeOK, ConnectorOn, [Next]_vars
  PROVE  ConnectorOn'
<1>1. enabled'
  <2>1. CASE UNCHANGED vars
    BY <2>1 DEF vars, provider, ConnectorOn
  <2>2. CASE World
    BY <2>2 DEF World, PublishPlan, Cancel, QueueOnDemand, SettleRequest, Crash,
       DatabaseFailure, Redeliver, provider, ConnectorOn
  <2>3. ASSUME NEW w \in Workers, Work(w)
        PROVE  enabled'
    <3>1. CASE Take(w) \/ Acknowledge(w) \/ Reject(w) \/ PlanTask(w)
      BY <3>1 DEF Take, Acknowledge, Reject, PlanTask, PlanSkipped, Plan, SendSource,
         provider, ConnectorOn
    <3>2. CASE SourceTask(w)
      BY <3>2 DEF SourceTask, CheckProvider, SourceSkipped, OpenSource, CheckPage,
         ReservePage, ReserveExhausted, SearchAnswers, SearchFails, CallProvider,
         DisableProvider, PageDiscarded, RecordPage, FinishSource, SendMatch, At, provider,
         ConnectorOn, GivingUp
    <3>3. CASE MatchTask(w)
      BY <3>3 DEF MatchTask, MatchSkipped, MatchOutdated, ScoreBatch, MatchCompletes,
         SendEnrich, provider, ConnectorOn
    <3>4. CASE EnrichTask(w)
      BY <3>4 DEF EnrichTask, BeginEnrich, SelectTop, FinishEmpty, PrepareNothing,
         PrepareRequest, PrepareExhausted, PrepareAmbiguous, SubmitWithdrawn, Submit,
         SendRetry, Finalize, FailActive, MarkProviderDisabled, provider, ConnectorOn
    <3> QED
      BY <2>3, <3>1, <3>2, <3>3, <3>4 DEF Work
  <2> QED
    BY <2>1, <2>2, <2>3 DEF Next
<1>2. ASSUME NEW w \in Workers PROVE pc'[w] \notin GivingUp
  <2>1. CASE Take(w) \/ Acknowledge(w) \/ Reject(w) \/ Crash(w) \/ DatabaseFailure(w)
    BY <2>1 DEF Take, Acknowledge, Reject, Crash, DatabaseFailure, GiveBack, Drop, Release,
       Messages, Tasks, GivingUp, TypeOK, BrokerType
  <2>2. CASE PlanTask(w) \/ MatchTask(w)
    BY <2>2 DEF PlanTask, PlanSkipped, Plan, SendSource, AfterReplay, MatchTask,
       MatchSkipped, MatchOutdated, ScoreBatch, MatchCompletes, SendEnrich, Goto, SendThen,
       At, GivingUp, TypeOK, BrokerType
  <2>3. CASE SourceTask(w)
    BY <2>3 DEF SourceTask, CheckProvider, SourceSkipped, OpenSource, CheckPage,
       ReservePage, ReserveExhausted, SearchAnswers, SearchFails, DisableProvider,
       PageDiscarded, RecordPage, FinishSource, SendMatch, Goto, SendThen, At,
       ProviderAnswers, ConnectorOn, GivingUp, TypeOK, BrokerType
  <2>4. CASE Submit(w)
    <3>1. PICK outcome \in EnrichOutcomes :
            Goto(w, CASE outcome \in {"deferred", "rate_limited"} -> "defer"
                      [] outcome = "auth" -> "refused"
                      [] OTHER -> "finalize")
      BY <2>4 DEF Submit
    <3>2. outcome # "auth"
      BY DEF ProviderAnswers
    <3> QED
      BY <3>1, <3>2 DEF Goto, GivingUp, TypeOK, BrokerType
  <2>5. CASE EnrichTask(w) /\ ~ Submit(w)
    BY <2>5 DEF EnrichTask, BeginEnrich, SelectTop, FinishEmpty, PrepareNothing,
       PrepareRequest, PrepareExhausted, PrepareAmbiguous, SubmitWithdrawn, SendRetry,
       Finalize, FailActive, MarkProviderDisabled, Goto, SendThen, At, ConnectorOn,
       GivingUp, TypeOK, BrokerType
  <2>6. CASE pc'[w] = pc[w]
    BY <2>6 DEF ConnectorOn
  <2> QED
    BY <2>1, <2>2, <2>3, <2>4, <2>5, <2>6, OthersStay DEF Work
<1> QED
  BY <1>1, <1>2 DEF ConnectorOn

\* A worker is where its message sent it.
LEMMA PlacesStep ==
  ASSUME TypeOK, ConnectorOn, PlacesFitTasks, [Next]_vars
  PROVE  PlacesFitTasks'
<1> USE DEF PlanPlaces, SourcePlaces, MatchPlaces, EnrichPlaces, SourceLocked, EnrichLocked
<1> DEFINE Fits(place, task) == /\ place \in PlanPlaces => task = "plan"
                                /\ place \in SourcePlaces => task = "source"
                                /\ place \in MatchPlaces => task = "match"
                                /\ place \in EnrichPlaces => task = "enrich"
<1>1. SUFFICES ASSUME NEW w \in Workers, pc'[w] # "idle" PROVE Fits(pc'[w], job'[w].task)
  BY DEF PlacesFitTasks
<1>2. CASE Take(w)
  <2>1. pc'[w] = job'[w].task /\ pc'[w] \in Tasks
    BY <1>2 DEF Take, Messages, TypeOK, BrokerType
  <2> QED
    BY <2>1 DEF Tasks
<1>3. CASE ~ Take(w)
  <2>1. job'[w] = job[w] /\ Fits(pc[w], job[w].task)
    BY <1>1, <1>3, JobOrigin DEF PlacesFitTasks
  <2>2. CASE PlanTask(w)
    BY <2>1, <2>2 DEF PlanTask, PlanSkipped, Plan, SendSource, AfterReplay, Goto, SendThen,
       At, TypeOK, BrokerType
  <2>3. CASE SourceTask(w)
    BY <2>1, <2>3 DEF SourceTask, CheckProvider, SourceSkipped, OpenSource, CheckPage,
       ReservePage, ReserveExhausted, SearchAnswers, SearchFails, DisableProvider,
       PageDiscarded, RecordPage, FinishSource, FinishSteps, SendMatch, Goto, SendThen,
       GiveBack, Release, At, ConnectorOn, GivingUp, TypeOK, BrokerType
  <2>4. CASE MatchTask(w)
    BY <2>1, <2>4 DEF MatchTask, MatchSkipped, MatchOutdated, ScoreBatch, MatchCompletes,
       SendEnrich, Goto, SendThen, At, TypeOK, BrokerType
  <2>5. CASE Submit(w)
    <3>1. PICK outcome \in EnrichOutcomes :
            Goto(w, CASE outcome \in {"deferred", "rate_limited"} -> "defer"
                      [] outcome = "auth" -> "refused"
                      [] OTHER -> "finalize")
      BY <2>5 DEF Submit
    <3>2. pc'[w] \in {"defer", "refused", "finalize"} /\ pc[w] = "submit"
      BY <2>5, <3>1 DEF Submit, At, Goto, TypeOK, BrokerType
    <3> QED
      BY <2>1, <3>2
  <2>6. CASE EnrichTask(w) /\ ~ Submit(w)
    BY <2>1, <2>6 DEF EnrichTask, BeginEnrich, SelectTop, FinishEmpty, PrepareNothing,
       PrepareRequest, PrepareExhausted, PrepareAmbiguous, SubmitWithdrawn, SendRetry,
       Finalize, FailActive, MarkProviderDisabled, Goto, SendThen, At, TypeOK, BrokerType
  <2>7. CASE Acknowledge(w) \/ Reject(w) \/ Crash(w) \/ DatabaseFailure(w)
    BY <1>1, <2>7 DEF Acknowledge, Reject, Crash, DatabaseFailure, GiveBack, Drop, Release,
       TypeOK, BrokerType
  <2>8. CASE pc'[w] = pc[w]
    BY <2>1, <2>8
  <2> QED
    BY <1>3, <2>2, <2>3, <2>4, <2>5, <2>6, <2>7, <2>8, OthersStay DEF Work
<1> QED
  BY <1>2, <1>3

\* The message that starts enrichment follows the checkpoint of the match stage.
LEMMA EnrichAfterStep ==
  ASSUME TypeOK, PlacesFitTasks, EnrichAfterMatch, [Next]_vars
  PROVE  EnrichAfterMatch'
<1>1. ASSUME NEW w \in Workers, pc[w] # "idle",
             job[w].task = "enrich" \/ pc[w] = "match_done"
      PROVE  "match" \in checkpoints'[job[w].run]
  BY <1>1, JobOfBusy, CheckpointsStay DEF EnrichAfterMatch
<1>2. ASSUME NEW m \in Messages, m.task = "enrich", queue[m] > 0
      PROVE  "match" \in checkpoints'[m.run]
  BY <1>2, CheckpointsStay DEF EnrichAfterMatch, Messages
<1>3. ASSUME NEW m \in Messages, m.task = "enrich", queue'[m] > 0
      PROVE  "match" \in checkpoints'[m.run]
  <2>1. CASE queue[m] > 0
    BY <1>2, <1>3, <2>1
  <2>2. ASSUME NEW w \in Workers, pc[w] # "idle", m = job[w] \/ m = Again(job[w])
        PROVE  "match" \in checkpoints'[m.run]
    <3>1. job[w] \in Messages
      BY <2>2, JobOfBusy
    <3>2. m.run = job[w].run /\ job[w].task = "enrich"
      BY <1>3, <2>2, <3>1 DEF Again, Messages
    <3> QED
      BY <1>1, <2>2, <3>2
  <2>3. ASSUME NEW w \in Workers, Sends(w, m)
        PROVE  "match" \in checkpoints'[m.run]
    <3>1. m.run = job[w].run
      BY <2>3 DEF Sends, Message
    <3>2. pc[w] = "match_done" \/ (pc[w] = "defer" /\ job[w].task = "enrich")
      BY <1>3, <2>3 DEF Sends, Message, SendEnrich, SendRetry, At, PlacesFitTasks,
         EnrichPlaces, EnrichLocked
    <3> QED
      BY <1>1, <3>1, <3>2
  <2>4. ASSUME NEW r \in Runs, m = Message("plan", r) PROVE FALSE
    BY <1>3, <2>4 DEF Message
  <2> QED
    BY <1>3, <2>1, <2>2, <2>3, <2>4, MessageOrigin
<1>4. ASSUME NEW w \in Workers, pc'[w] # "idle", job'[w].task = "enrich"
      PROVE  "match" \in checkpoints'[job'[w].run]
  BY <1>1, <1>2, <1>4, JobOrigin
<1>5. ASSUME NEW w \in Workers, pc'[w] = "match_done"
      PROVE  "match" \in checkpoints'[job'[w].run]
  <2>1. CASE MatchTask(w)
    <3>1. job[w].run \in Runs /\ job'[w] = job[w]
      BY <1>5, <2>1, JobOfBusy, JobOrigin DEF MatchTask, MatchSkipped, MatchOutdated,
         ScoreBatch, MatchCompletes, SendEnrich, Goto, SendThen, At
    <3> QED
      BY <1>5, <2>1, <3>1 DEF MatchTask, MatchSkipped, MatchOutdated, ScoreBatch,
         MatchCompletes, SendEnrich, Goto, SendThen, At, Complete, TypeOK, RunType,
         BrokerType
  <2>2. CASE pc'[w] = pc[w] /\ job'[w] = job[w]
    BY <1>1, <1>5, <2>2
  <2>3. CASE PlanTask(w) \/ SourceTask(w)
    BY <1>5, <2>3 DEF PlanTask, PlanSkipped, Plan, SendSource, AfterReplay, SourceTask,
       CheckProvider, SourceSkipped, OpenSource, CheckPage,
       ReservePage, ReserveExhausted, SearchAnswers, SearchFails, DisableProvider,
       PageDiscarded, RecordPage, FinishSource, FinishSteps, SendMatch, Goto, SendThen,
       GiveBack, Release, At, TypeOK, BrokerType
  <2>4. CASE EnrichTask(w)
    BY <1>5, <2>4 DEF EnrichTask, BeginEnrich, SelectTop, FinishEmpty, PrepareNothing,
       PrepareRequest, PrepareExhausted, PrepareAmbiguous, SubmitWithdrawn, SendRetry,
       Submit, Finalize, FailActive, MarkProviderDisabled, Goto, SendThen, At, TypeOK,
       BrokerType
  <2>5. CASE Take(w) \/ Acknowledge(w) \/ Reject(w) \/ Crash(w) \/ DatabaseFailure(w)
    BY <1>5, <2>5 DEF Take, Acknowledge, Reject, Crash, DatabaseFailure, GiveBack, Drop,
       Release, Messages, Tasks, TypeOK, BrokerType
  <2> QED
    BY <2>1, <2>2, <2>3, <2>4, <2>5, OthersStay DEF Work
<1> QED
  BY <1>3, <1>4, <1>5 DEF EnrichAfterMatch

\* A worker at an enrichment place works for a run whose match stage is done.
LEMMA EnrichedIsMatched ==
  ASSUME TypeOK, PlacesFitTasks, EnrichAfterMatch, NEW w \in Workers, EnrichTask(w)
  PROVE  job[w].run \in Runs /\ "match" \in checkpoints[job[w].run]
<1>1. pc[w] \in EnrichPlaces
  BY DEF EnrichTask, BeginEnrich, SelectTop, FinishEmpty, PrepareNothing, PrepareRequest,
     PrepareExhausted, PrepareAmbiguous, SubmitWithdrawn, Submit, SendRetry, Finalize,
     FailActive, MarkProviderDisabled, At, EnrichPlaces, EnrichLocked
<1> QED
  BY <1>1, JobOfBusy DEF EnrichPlaces, EnrichLocked, PlacesFitTasks, EnrichAfterMatch

\* Only the worker that holds the source lock ends the search of a run.
LEMMA LeavesSourcing ==
  ASSUME TypeOK, CheckpointInv, ConnectorOn, PlacesFitTasks, EnrichAfterMatch, [Next]_vars,
         NEW r \in Runs, state[r] = "sourcing", state'[r] \notin {"sourcing", "cancelled"}
  PROVE  \E w \in Workers : /\ job[w].run = r /\ pc[w] \in SourceLocked
                            /\ ReserveExhausted(w) \/ FinishSource(w)
<1>1. CASE UNCHANGED vars
  BY <1>1 DEF vars
<1>2. CASE World
  BY <1>2 DEF World, PublishPlan, Cancel, QueueOnDemand, SettleRequest, Crash,
     DatabaseFailure, Redeliver, Finalized, TypeOK, RunType
<1>3. ASSUME NEW w \in Workers, Work(w)
      PROVE  /\ job[w].run = r /\ pc[w] \in SourceLocked
             /\ ReserveExhausted(w) \/ FinishSource(w)
  <2>1. CASE Take(w) \/ Acknowledge(w) \/ Reject(w)
    BY <2>1 DEF Take, Acknowledge, Reject
  <2>2. CASE PlanTask(w)
    BY <2>2 DEF PlanTask, PlanSkipped, Plan, SendSource, TypeOK, RunType
  <2>3. CASE SourceTask(w)
    BY <2>3 DEF SourceTask, CheckProvider, SourceSkipped, OpenSource, CheckPage,
       ReservePage, ReserveExhausted, SearchAnswers, SearchFails, DisableProvider,
       PageDiscarded, RecordPage, FinishSource, SendMatch, At, FinishSteps, SourceLocked,
       ConnectorOn, GivingUp, TypeOK, RunType
  <2>4. CASE MatchTask(w)
    BY <2>4 DEF MatchTask, MatchSkipped, MatchOutdated, ScoreBatch, MatchCompletes,
       SendEnrich, Matchable, TypeOK, RunType
  <2>5. CASE EnrichTask(w)
    <3>1. job[w].run # r
      BY <2>5, EnrichedIsMatched DEF CheckpointInv, CheckpointsFollowState
    <3> QED
      BY <2>5, <3>1 DEF EnrichTask, BeginEnrich, SelectTop, FinishEmpty, PrepareNothing,
         PrepareRequest, PrepareExhausted, PrepareAmbiguous, SubmitWithdrawn, Submit,
         SendRetry, Finalize, FailActive, MarkProviderDisabled, TypeOK, RunType
  <2> QED
    BY <1>3, <2>1, <2>2, <2>3, <2>4, <2>5 DEF Work
<1> QED
  BY <1>1, <1>2, <1>3 DEF Next

\* The run a worker searches for stays "sourcing" until that worker ends it, or
\* somebody cancels it.
LEMMA SearchedStep ==
  ASSUME TypeOK, TypeOK', CheckpointInv, SourceLockExclusive, StageInv, [Next]_vars
  PROVE  SearchedWhileSourcing'
<1> SUFFICES ASSUME NEW w \in Workers, pc'[w] \in SourceLocked \ {"finish_budget"}
             PROVE  state'[job'[w].run] \in {"sourcing", "cancelled"}
  BY DEF SearchedWhileSourcing
<1>1. job'[w] = job[w] /\ (OpenSource(w) \/ pc[w] \in SourceLocked)
  BY UnderSourceLock
<1>2. PICK r \in Runs : r = job[w].run
  BY <1>1, JobOfBusy DEF OpenSource, At, SourceLocked
<1>3. OpenSource(w) \/ pc[w] \in SourceLocked \ {"finish_budget"}
  <2>1. CASE HoldsSource(w)
    BY <1>1, <2>1 DEF HoldsSource, CheckPage, ReservePage, ReserveExhausted, SearchAnswers,
       PageDiscarded, RecordPage, At
  <2>2. CASE ~ HoldsSource(w)
    BY <1>1, <2>2, IntoSource
  <2> QED
    BY <2>1, <2>2
<1>4. state[r] \in {"sourcing", "cancelled"}
  BY <1>2, <1>3 DEF OpenSource, StageInv, SearchedWhileSourcing
<1>5. CASE state[r] = "cancelled"
  BY <1>1, <1>2, <1>5, CancelledStays DEF Cancelled
<1>6. CASE state[r] = "sourcing" /\ state'[r] \notin {"sourcing", "cancelled"}
  <2>1. PICK v \in Workers : /\ job[v].run = r /\ pc[v] \in SourceLocked
                             /\ ReserveExhausted(v) \/ FinishSource(v)
    BY <1>6, LeavesSourcing DEF StageInv
  <2>2. pc'[v] \in {"finish_budget", "source_done", "ack"} /\ pc[v] # "lock"
    BY <2>1 DEF ReserveExhausted, FinishSource, FinishSteps, Goto, At, SourceLocked, TypeOK,
       BrokerType
  <2>3. pc[w] \in SourceLocked
    BY <1>1, <1>2, <2>1, <2>2 DEF OpenSource, HeldByOther, At
  <2>4. v = w
    BY <1>2, <2>1, <2>3 DEF SourceLockExclusive
  <2> QED
    BY <2>2, <2>4 DEF SourceLocked
<1> QED
  BY <1>1, <1>2, <1>4, <1>5, <1>6

\* The places of the workers fit the state of the run: every step.
LEMMA StageStep ==
  ASSUME ProviderAnswers, TypeOK, TypeOK', CheckpointInv, SourceLockExclusive, StageInv,
         [Next]_vars
  PROVE  StageInv'
BY ConnectorStep, PlacesStep, EnrichAfterStep, SearchedStep DEF StageInv

\* The places of the workers fit the state of the run.
LEMMA StageInvariant ==
  ASSUME ProviderAnswers
  PROVE  Spec => []StageInv
<1>1. Init => StageInv
  BY DEF Init, StageInv, ConnectorOn, PlacesFitTasks, EnrichAfterMatch,
     SearchedWhileSourcing, GivingUp, PlanPlaces, SourcePlaces, MatchPlaces, EnrichPlaces,
     SourceLocked, EnrichLocked
<1>2. TypeOK /\ TypeOK' /\ CheckpointInv /\ SourceLockExclusive /\ StageInv /\ [Next]_vars
      => StageInv'
  BY StageStep
<1> QED
  BY <1>1, <1>2, TypeCorrect, CheckpointInvariant, LockInvariant, PTL DEF Spec

-----------------------------------------------------------------------------
(* What a ready run shows. Recruiters' single requests are left out: one of  *)
(* them completes a run that was never ranked.                               *)

EnrichLockExclusive ==
  \A v, w \in Workers :
    pc[v] \in EnrichLocked /\ pc[w] \in EnrichLocked /\ job[v].run = job[w].run
      => v = w

\* The request of a run, and the worker that submits it, tell the same story.
RequestsFit ==
  /\ \A r \in Runs : /\ requests[r].auto # "none" => "match" \in checkpoints[r]
                     /\ requests[r].demand = "none"
                     /\ requests[r].auto = "cancelled" => Cancelled(r)
  /\ \A w \in Workers :
       /\ pc[w] = "submit" => requests[job[w].run].auto = "submitting"
       /\ pc[w] = "empty" => Selected(job[w].run) = {}
       /\ pc[w] = "finalize" => \/ requests[job[w].run].auto # "none"
                                \/ Cancelled(job[w].run)

\* A completed match stage scored everything, unless the run is over.
MatchedInFull ==
  \A r \in Runs : "match" \in checkpoints[r] =>
    state[r] \in {"failed", "cancelled"} \/ Found(r) \subseteq scored[r]

ReadyIsMatched == \A r \in Runs : state[r] = "ready" => "match" \in checkpoints[r]

ResultsInv == /\ EnrichLockExclusive /\ RequestsFit /\ MatchedInFull
              /\ ReadyIsMatched /\ ReadyMeansEnriched

\* What the invariants proved so far add up to.
PipelineInv == /\ TypeOK /\ CheckpointInv /\ SourceLockExclusive /\ LimitInv
               /\ ScoredAreFound /\ StageInv

\* transition_run is the only way from one state to another.
LEMMA StatesMove ==
  ASSUME PipelineInv, TypeOK', [Next]_vars, NEW r \in Runs
  PROVE  state'[r] = state[r] \/ CanMove(state[r], state'[r])
<1>1. [Life!Next]_(Life!vars)
  BY StepRefines DEF PipelineInv
<1>2. ASSUME NEW q \in Runs, NEW target, Life!MoveTo(q, target)
      PROVE  state'[r] = state[r] \/ CanMove(state[r], state'[r])
  BY <1>2 DEF Life!MoveTo, Life!CanMove, CanMove, Life!AllowedTransitions,
     AllowedTransitions, PipelineInv, TypeOK, RunType
<1>3. CASE UNCHANGED Life!vars
  BY <1>3 DEF Life!vars
<1>4. CASE Life!Next
  <2>1. ASSUME NEW q \in Runs, Life!Collect(q) \/ Life!Score(q)
        PROVE  state'[r] = state[r]
    BY <2>1 DEF Life!Collect, Life!Score
  <2> QED
    BY <1>2, <1>4, <2>1 DEF Life!Next, Life!SearchSucceeds, Life!Rank, Life!OtherMove
<1> QED
  BY <1>1, <1>3, <1>4

\* Which worker is under the enrichment lock, and since when.
LEMMA UnderEnrichLock ==
  ASSUME TypeOK, ConnectorOn, [Next]_vars, NEW v \in Workers, pc'[v] \in EnrichLocked
  PROVE  /\ job'[v] = job[v]
         /\ BeginEnrich(v) \/ pc[v] \in EnrichLocked
         /\ BeginEnrich(v) => ~ HeldByOther(v, EnrichLocked)
<1>1. job'[v] = job[v]
  BY JobOrigin DEF EnrichLocked, Messages, Tasks
<1>2. BeginEnrich(v) \/ pc[v] \in EnrichLocked
  <2>1. CASE Take(v) \/ Acknowledge(v) \/ Reject(v) \/ Crash(v) \/ DatabaseFailure(v)
    BY <2>1 DEF Take, Acknowledge, Reject, Crash, DatabaseFailure, GiveBack, Drop, Release,
       Messages, Tasks, EnrichLocked, TypeOK, BrokerType
  <2>2. CASE PlanTask(v) \/ MatchTask(v)
    BY <2>2 DEF PlanTask, PlanSkipped, Plan, SendSource, AfterReplay, MatchTask,
       MatchSkipped, MatchOutdated, ScoreBatch, MatchCompletes, SendEnrich, Goto, SendThen,
       At, EnrichLocked, TypeOK, BrokerType
  <2>3. CASE SourceTask(v)
    BY <2>3 DEF SourceTask, CheckProvider, SourceSkipped, OpenSource, CheckPage,
       ReservePage, ReserveExhausted, SearchAnswers, SearchFails, DisableProvider,
       PageDiscarded, RecordPage, FinishSource, SendMatch, Goto, SendThen, At, GiveBack,
       Release, ConnectorOn, GivingUp, EnrichLocked, TypeOK, BrokerType
  <2>4. CASE EnrichTask(v)
    BY <2>4 DEF EnrichTask, BeginEnrich, SelectTop, FinishEmpty, PrepareNothing,
       PrepareRequest, PrepareExhausted, PrepareAmbiguous, SubmitWithdrawn, Submit,
       SendRetry, Finalize, FailActive, MarkProviderDisabled, At, EnrichLocked
  <2>5. CASE pc'[v] = pc[v]
    BY <2>5
  <2> QED
    BY <2>1, <2>2, <2>3, <2>4, <2>5, OthersStay DEF Work
<1>3. BeginEnrich(v) => ~ HeldByOther(v, EnrichLocked)
  BY DEF BeginEnrich, Goto, At, EnrichLocked, TypeOK, BrokerType
<1> QED
  BY <1>1, <1>2, <1>3

\* At most one worker holds the enrichment lock of a run: every step.
LEMMA EnrichLockStep ==
  ASSUME TypeOK, ConnectorOn, EnrichLockExclusive, [Next]_vars
  PROVE  EnrichLockExclusive'
<1> SUFFICES ASSUME NEW v \in Workers, NEW w \in Workers, v # w,
                    pc'[v] \in EnrichLocked, pc'[w] \in EnrichLocked,
                    job'[v].run = job'[w].run
             PROVE  FALSE
  BY DEF EnrichLockExclusive
<1>1. job[v].run = job[w].run
  BY UnderEnrichLock
<1>2. ASSUME NEW a \in Workers, NEW b \in Workers, a # b, BeginEnrich(a),
             pc'[a] \in EnrichLocked, pc'[b] \in EnrichLocked, job[a].run = job[b].run
      PROVE  FALSE
  <2>1. pc[b] \in EnrichLocked
    BY <1>2, UnderEnrichLock DEF BeginEnrich, Goto, At, EnrichLocked, TypeOK, BrokerType
  <2> QED
    BY <1>2, <2>1, UnderEnrichLock DEF HeldByOther
<1>3. pc[v] \in EnrichLocked /\ pc[w] \in EnrichLocked
  BY <1>1, <1>2, UnderEnrichLock
<1> QED
  BY <1>1, <1>3 DEF EnrichLockExclusive

\* The steps that write the request of a run.
Submits(w) ==
  \/ PrepareRequest(w) \/ PrepareExhausted(w) \/ PrepareAmbiguous(w)
  \/ SubmitWithdrawn(w) \/ Submit(w)

\* Requests change under the lock, or by the answer to a submitted one.
LEMMA RequestsChange ==
  ASSUME ~ OnDemand, TypeOK, ConnectorOn, RequestsFit, [Next]_vars, NEW r \in Runs
  PROVE  \/ requests'[r] = requests[r]
         \/ SettleRequest(r, "auto")
         \/ \E w \in Workers : job[w].run = r /\ Submits(w)
<1>1. CASE UNCHANGED vars
  BY <1>1 DEF vars
<1>2. CASE World
  <2>1. ASSUME NEW q \in Runs, NEW kind \in Kinds, SettleRequest(q, kind)
        PROVE  requests'[r] = requests[r] \/ SettleRequest(r, "auto")
    BY <2>1 DEF SettleRequest, RequestsFit, Kinds, TypeOK, RunType
  <2> QED
    BY <1>2, <2>1 DEF World, PublishPlan, Cancel, QueueOnDemand, Crash, DatabaseFailure,
       Redeliver
<1>3. ASSUME NEW w \in Workers, Work(w)
      PROVE  requests'[r] = requests[r] \/ (job[w].run = r /\ Submits(w))
  <2>1. CASE Take(w) \/ Acknowledge(w) \/ Reject(w) \/ PlanTask(w)
    BY <2>1 DEF Take, Acknowledge, Reject, PlanTask, PlanSkipped, Plan, SendSource
  <2>2. CASE SourceTask(w)
    BY <2>2 DEF SourceTask, CheckProvider, SourceSkipped, OpenSource, CheckPage,
       ReservePage, ReserveExhausted, SearchAnswers, SearchFails, DisableProvider,
       PageDiscarded, RecordPage, FinishSource, SendMatch
  <2>3. CASE MatchTask(w)
    BY <2>3 DEF MatchTask, MatchSkipped, MatchOutdated, ScoreBatch, MatchCompletes,
       SendEnrich
  <2>4. CASE Submits(w)
    BY <2>4 DEF Submits, PrepareRequest, PrepareExhausted, PrepareAmbiguous,
       SubmitWithdrawn, Submit, SetRequest, TypeOK, RunType
  <2>5. CASE EnrichTask(w) /\ ~ Submits(w)
    BY <2>5 DEF EnrichTask, Submits, BeginEnrich, SelectTop, FinishEmpty, PrepareNothing,
       SendRetry, Finalize, FailActive, MarkProviderDisabled, ConnectorOn, GivingUp, At
  <2> QED
    BY <1>3, <2>1, <2>2, <2>3, <2>4, <2>5 DEF Work
<1> QED
  BY <1>1, <1>2, <1>3 DEF Next

\* What a submitting step writes.
LEMMA SubmitsWrite ==
  ASSUME TypeOK, NEW w \in Workers, Submits(w)
  PROVE  /\ pc[w] \in {"prepare", "submit"} /\ pc'[w] # pc[w] /\ job'[w] = job[w]
         /\ requests'[job[w].run].demand = requests[job[w].run].demand
         /\ requests'[job[w].run].auto # "none"
         /\ requests'[job[w].run].auto = "cancelled" => Cancelled(job[w].run)
         /\ pc[w] = "prepare" => requests[job[w].run].auto \in {"none", "queued", "submitting"}
         /\ pc'[w] = "submit" => requests'[job[w].run].auto = "submitting"
<1>1. job[w].run \in Runs
  BY JobOfBusy DEF Submits, PrepareRequest, PrepareExhausted, PrepareAmbiguous,
     SubmitWithdrawn, Submit, At
<1>2. CASE PrepareRequest(w) \/ PrepareExhausted(w) \/ PrepareAmbiguous(w)
  BY <1>1, <1>2 DEF PrepareRequest, PrepareExhausted, PrepareAmbiguous, SetRequest, Goto,
     At, Kinds, TypeOK, RunType, BrokerType
<1>3. CASE SubmitWithdrawn(w)
  BY <1>1, <1>3 DEF SubmitWithdrawn, SetRequest, Goto, At, Kinds, TypeOK, RunType,
     BrokerType
<1>4. CASE Submit(w)
  <2>1. PICK outcome \in EnrichOutcomes :
          /\ SetRequest(job[w].run, "auto",
                        CASE outcome = "deferred" -> "submitting"
                          [] outcome = "rate_limited" -> "queued"
                          [] outcome = "auth" -> "failed"
                          [] OTHER -> outcome)
          /\ Goto(w, CASE outcome \in {"deferred", "rate_limited"} -> "defer"
                       [] outcome = "auth" -> "refused"
                       [] OTHER -> "finalize")
    BY <1>4 DEF Submit
  <2>2. pc'[w] \in {"defer", "refused", "finalize"} /\ pc[w] = "submit" /\ job'[w] = job[w]
    BY <1>4, <2>1 DEF Submit, At, Goto, TypeOK, BrokerType
  <2>3. \E status \in {"submitting", "queued", "failed", "pending", "completed"} :
          SetRequest(job[w].run, "auto", status)
    BY <2>1, EnvironmentAssumption
  <2> QED
    BY <1>1, <2>2, <2>3 DEF SetRequest, Kinds, TypeOK, RunType
<1> QED
  BY <1>2, <1>3, <1>4 DEF Submits

\* A request keeps being one, and the answer of a settled one is final.
LEMMA RequestsStay ==
  ASSUME ~ OnDemand, PipelineInv, RequestsFit, [Next]_vars, NEW r \in Runs
  PROVE  /\ requests[r].auto # "none" => requests'[r].auto # "none"
         /\ requests[r].auto = "completed" => requests'[r].auto = "completed"
         /\ requests'[r].demand = "none"
         /\ requests'[r].auto = "cancelled" => Cancelled(r)
         /\ requests'[r].auto # "none" => "match" \in checkpoints[r]
<1>1. CASE requests'[r] = requests[r]
  BY <1>1 DEF RequestsFit
<1>2. CASE SettleRequest(r, "auto")
  <2>1. requests[r].auto = "pending"
    BY <1>2 DEF SettleRequest
  <2>2. PICK outcome \in {"completed", "failed"} :
          requests' = [requests EXCEPT ![r] = [requests[r] EXCEPT !["auto"] = outcome]]
    BY <1>2 DEF SettleRequest
  <2>3. requests'[r].auto = outcome /\ requests'[r].demand = requests[r].demand
    BY <2>2 DEF PipelineInv, TypeOK, RunType, Kinds
  <2> QED
    BY <2>1, <2>3 DEF RequestsFit
<1>3. ASSUME NEW w \in Workers, job[w].run = r, Submits(w)
      PROVE  /\ requests'[r].auto # "none" /\ requests[r].auto # "completed"
             /\ requests'[r].demand = "none"
             /\ requests'[r].auto = "cancelled" => Cancelled(r)
             /\ "match" \in checkpoints[r]
  <2>1. pc[w] = "submit" => requests[r].auto = "submitting"
    BY <1>3 DEF RequestsFit
  <2>2. "match" \in checkpoints[r]
    BY <1>3, EnrichedIsMatched DEF Submits, EnrichTask, PipelineInv, StageInv
  <2> QED
    BY <1>3, <2>1, <2>2, SubmitsWrite DEF PipelineInv, RequestsFit
<1> QED
  BY <1>1, <1>2, <1>3, RequestsChange DEF PipelineInv, StageInv

\* Candidates of a matched run are not added, and its scores are all there.
LEMMA MatchedIsFrozen ==
  ASSUME PipelineInv, [Next]_vars, NEW r \in Runs, "match" \in checkpoints[r]
  PROVE  Found(r)' = Found(r) /\ scored'[r] = scored[r]
<1>1. state[r] \notin {"queued", "sourcing", "matching"}
  BY DEF PipelineInv, CheckpointInv, CheckpointsFollowState
<1>2. ASSUME NEW w \in Workers, RecordPage(w) PROVE seen'[r] = seen[r] /\ scored' = scored
  <2>1. job[w].run # r
    BY <1>1, <1>2 DEF RecordPage, At, Cancelled, PipelineInv, StageInv,
       SearchedWhileSourcing, SourceLocked
  <2> QED
    BY <1>2, <2>1, RecordPageAdds DEF PipelineInv, RecordPage
<1>3. ASSUME NEW w \in Workers, ScoreBatch(w) PROVE scored'[r] = scored[r] /\ seen' = seen
  <2>1. job[w].run # r
    BY <1>3 DEF ScoreBatch, Matchable
  <2> QED
    BY <1>3, <2>1 DEF ScoreBatch, PipelineInv, TypeOK, RunType
<1>4. seen'[r] = seen[r] /\ scored'[r] = scored[r]
  BY <1>2, <1>3, OnlyRecordAndScore
<1> QED
  BY <1>4 DEF Found

\* The places where a worker decides on the request of its run.
LEMMA IntoDecision ==
  ASSUME PipelineInv, [Next]_vars, NEW w \in Workers,
         pc'[w] \in {"submit", "empty", "finalize"}
  PROVE  /\ job'[w] = job[w] /\ job[w].run \in Runs
         /\ \/ pc'[w] = pc[w]
            \/ pc'[w] = "empty" /\ SelectTop(w) /\ Selected(job[w].run) = {}
            \/ pc'[w] = "finalize" /\ PrepareNothing(w)
            \/ pc'[w] # "empty" /\ Submits(w)
<1> USE DEF PipelineInv, StageInv
<1>1. pc'[w] \in EnrichLocked
  BY DEF EnrichLocked
<1>2. job'[w] = job[w] /\ pc[w] # "idle"
  BY <1>1, UnderEnrichLock DEF BeginEnrich, At, EnrichLocked
<1>3. CASE pc'[w] # pc[w]
  <2>1. ~ (Take(w) \/ Acknowledge(w) \/ Reject(w) \/ Crash(w) \/ DatabaseFailure(w))
    BY <1>2 DEF Take, Acknowledge, Reject, Crash, DatabaseFailure, GiveBack, Drop, Release,
       At, TypeOK, BrokerType
  <2>2. ~ (PlanTask(w) \/ SourceTask(w) \/ MatchTask(w))
    <3>1. pc[w] \in EnrichPlaces
      BY <1>1, UnderEnrichLock DEF BeginEnrich, At, EnrichPlaces
    <3> QED
      BY <3>1 DEF PlanTask, PlanSkipped, Plan, SendSource, MatchTask, MatchSkipped,
         MatchOutdated, ScoreBatch, MatchCompletes, SendEnrich, SourceTask, CheckProvider,
         SourceSkipped, OpenSource, CheckPage, ReservePage, ReserveExhausted,
         SearchAnswers, SearchFails, DisableProvider, PageDiscarded, RecordPage,
         FinishSource, FinishSteps, SendMatch, At, EnrichPlaces, EnrichLocked
  <2>3. EnrichTask(w)
    BY <1>3, <2>1, <2>2, OthersStay DEF Work
  <2>4. CASE Submits(w)
    BY <1>2, <2>4, JobOfBusy DEF Submits, PrepareRequest, PrepareExhausted,
       PrepareAmbiguous, SubmitWithdrawn, Goto, At, Submit, TypeOK, BrokerType
  <2>5. CASE ~ Submits(w)
    BY <1>2, <1>3, <2>3, <2>5, JobOfBusy DEF EnrichTask, Submits, BeginEnrich, SelectTop,
       FinishEmpty, PrepareNothing, SendRetry, Finalize, FailActive, MarkProviderDisabled,
       Goto, SendThen, At, TypeOK, BrokerType
  <2> QED
    BY <2>4, <2>5
<1> QED
  BY <1>2, <1>3, JobOfBusy

\* Enrichment requests fit the state of the run: every step.
LEMMA RequestsStep ==
  ASSUME ~ OnDemand, PipelineInv, EnrichLockExclusive, RequestsFit, [Next]_vars
  PROVE  RequestsFit'
<1> USE DEF PipelineInv, StageInv
<1>1. ASSUME NEW r \in Runs
      PROVE  /\ requests'[r].auto # "none" => "match" \in checkpoints'[r]
             /\ requests'[r].demand = "none"
             /\ requests'[r].auto = "cancelled" => Cancelled(r)'
  BY <1>1, RequestsStay, CheckpointsStay, CancelledStays
<1>2. ASSUME NEW w \in Workers, pc'[w] = "submit"
      PROVE  requests'[job'[w].run].auto = "submitting"
  <2>1. CASE Submits(w)
    BY <1>2, <2>1, SubmitsWrite
  <2>2. CASE pc[w] = "submit"
    <3>1. requests[job[w].run].auto = "submitting" /\ job[w].run \in Runs
      BY <2>2, JobOfBusy DEF RequestsFit
    <3>2. \A v \in Workers : Submits(v) /\ job[v].run = job[w].run => v = w
      BY <2>2, SubmitsWrite DEF EnrichLockExclusive, EnrichLocked
    <3>3. ~ Submits(w)
      BY <1>2, <2>2, SubmitsWrite
    <3>4. ~ SettleRequest(job[w].run, "auto")
      BY <3>1 DEF SettleRequest
    <3> QED
      BY <1>2, <3>1, <3>2, <3>3, <3>4, RequestsChange, IntoDecision
  <2> QED
    BY <1>2, <2>1, <2>2, IntoDecision
<1>3. ASSUME NEW w \in Workers, pc'[w] = "empty"
      PROVE  Selected(job[w].run)' = {}
  <2> DEFINE r == job[w].run
  <2>1. job'[w] = job[w] /\ r \in Runs
    BY <1>3, IntoDecision
  <2>2. scored[r] \cap Main = {}
    BY <1>3, IntoDecision DEF RequestsFit, Selected
  <2>3. "match" \in checkpoints[r]
    <3>1. pc[w] \in EnrichPlaces
      BY <1>3, UnderEnrichLock DEF BeginEnrich, At, EnrichPlaces, EnrichLocked
    <3> QED
      BY <3>1 DEF EnrichPlaces, EnrichLocked, EnrichAfterMatch, PlacesFitTasks
  <2>4. scored'[r] = scored[r]
    BY <2>1, <2>3, MatchedIsFrozen
  <2> QED
    BY <2>1, <2>2, <2>4 DEF Selected
<1>4. ASSUME NEW w \in Workers, pc'[w] = "finalize"
      PROVE  requests'[job'[w].run].auto # "none" \/ Cancelled(job[w].run)'
  <2>1. PICK r \in Runs : r = job[w].run /\ job'[w].run = r
    BY <1>4, IntoDecision
  <2>2. CASE Submits(w)
    BY <2>1, <2>2, SubmitsWrite
  <2>3. CASE ~ Submits(w)
    <3>1. requests[r].auto # "none" \/ Cancelled(r)
      BY <1>4, <2>1, <2>3, IntoDecision DEF RequestsFit, PrepareNothing
    <3>2. requests'[r].auto # "none" \/ Cancelled(r)'
      BY <3>1, RequestsStay, CancelledStays
    <3> QED
      BY <2>1, <3>2 DEF Cancelled
  <2> QED
    BY <2>2, <2>3
<1> QED
  BY <1>1, <1>2, <1>3, <1>4 DEF RequestsFit

\* The stage "match" is completed with everything scored, or at the end of a run.
LEMMA MatchedStep ==
  ASSUME PipelineInv, TypeOK', MatchedInFull, [Next]_vars
  PROVE  MatchedInFull'
<1> USE DEF PipelineInv
<1> SUFFICES ASSUME NEW r \in Runs, "match" \in checkpoints'[r]
             PROVE  state'[r] \in {"failed", "cancelled"} \/ Found(r)' \subseteq scored'[r]
  BY DEF MatchedInFull
<1>1. CASE "match" \in checkpoints[r]
  <2>1. state[r] \in {"failed", "cancelled"} => state'[r] = state[r]
    BY StatesMove DEF CanMove, AllowedTransitions
  <2> QED
    BY <1>1, <2>1, MatchedIsFrozen DEF MatchedInFull
<1>2. CASE "match" \notin checkpoints[r]
  <2>1. PICK w \in Workers : MatchSkipped(w) \/ MatchOutdated(w) \/ MatchCompletes(w)
    <3>1. CASE UNCHANGED vars
      BY <1>2, <3>1 DEF vars, records
    <3>2. CASE World
      BY <1>2, <3>2 DEF World, PublishPlan, Cancel, QueueOnDemand, SettleRequest, Crash,
         DatabaseFailure, Redeliver, records
    <3>3. ASSUME NEW w \in Workers, Work(w)
          PROVE  MatchSkipped(w) \/ MatchOutdated(w) \/ MatchCompletes(w)
      <4>1. CASE Take(w) \/ Acknowledge(w) \/ Reject(w) \/ PlanTask(w)
        BY <1>2, <4>1 DEF Take, Acknowledge, Reject, PlanTask, PlanSkipped, Plan,
           SendSource, Complete, records, TypeOK, RunType
      <4>2. CASE SourceTask(w)
        BY <1>2, <4>2 DEF SourceTask, CheckProvider, SourceSkipped, OpenSource, CheckPage,
           ReservePage, ReserveExhausted, SearchAnswers, SearchFails, DisableProvider,
           PageDiscarded, RecordPage, FinishSource, SendMatch, Complete, records, TypeOK,
           RunType
      <4>3. CASE MatchTask(w)
        BY <1>2, <4>3 DEF MatchTask, ScoreBatch, SendEnrich, records
      <4>4. CASE EnrichTask(w)
        BY <1>2, <4>4 DEF EnrichTask, BeginEnrich, SelectTop, FinishEmpty, PrepareNothing,
           PrepareRequest, PrepareExhausted, PrepareAmbiguous, SubmitWithdrawn, Submit,
           SendRetry, Finalize, FailActive, MarkProviderDisabled, records
      <4> QED
        BY <3>3, <4>1, <4>2, <4>3, <4>4 DEF Work
    <3> QED
      BY <3>1, <3>2, <3>3 DEF Next
  <2>2. job[w].run = r
    BY <1>2, <2>1 DEF MatchSkipped, MatchOutdated, MatchCompletes, Complete, TypeOK, RunType
  <2>3. CASE MatchSkipped(w)
    BY <1>2, <2>2, <2>3 DEF MatchSkipped, Cancelled
  <2>4. CASE MatchOutdated(w)
    BY <2>2, <2>4 DEF MatchOutdated, TypeOK, RunType
  <2>5. CASE MatchCompletes(w)
    BY <2>2, <2>5 DEF MatchCompletes, AllMatched, Unmatched, Complete, Found
  <2> QED
    BY <2>1, <2>3, <2>4, <2>5
<1> QED
  BY <1>1, <1>2

\* Only the end of an enrichment makes a run ready.
LEMMA BecomesReady ==
  ASSUME PipelineInv, [Next]_vars, NEW r \in Runs, state[r] # "ready", state'[r] = "ready"
  PROVE  /\ state[r] \in {"enriching", "partially_ready"}
         /\ \/ \E kind \in Kinds : SettleRequest(r, kind)
            \/ \E w \in Workers : /\ job[w].run = r
                                  /\ \/ FinishEmpty(w) /\ state[r] = "enriching"
                                     \/ Finalize(w)
<1> USE DEF PipelineInv
<1>1. CASE UNCHANGED vars
  BY <1>1 DEF vars
<1>2. CASE World
  <2>1. ASSUME NEW q \in Runs, NEW kind \in Kinds, SettleRequest(q, kind)
        PROVE  q = r /\ state[r] \in {"enriching", "partially_ready"}
    <3>1. PICK now : state' = [state EXCEPT ![q] = Finalized(q, now)]
      BY <2>1 DEF SettleRequest
    <3>2. q = r /\ Finalized(q, now) # state[q]
      BY <3>1 DEF TypeOK, RunType
    <3> QED
      BY <3>2 DEF Finalized
  <2> QED
    BY <1>2, <2>1 DEF World, PublishPlan, Cancel, QueueOnDemand, Crash, DatabaseFailure,
       Redeliver, TypeOK, RunType
<1>3. ASSUME NEW w \in Workers, Work(w)
      PROVE  /\ state[r] \in {"enriching", "partially_ready"}
             /\ job[w].run = r
             /\ (FinishEmpty(w) /\ state[r] = "enriching") \/ Finalize(w)
  <2>1. CASE Take(w) \/ Acknowledge(w) \/ Reject(w) \/ PlanTask(w)
    BY <2>1 DEF Take, Acknowledge, Reject, PlanTask, PlanSkipped, Plan, SendSource, TypeOK,
       RunType
  <2>2. CASE SourceTask(w)
    BY <2>2 DEF SourceTask, CheckProvider, SourceSkipped, OpenSource, CheckPage,
       ReservePage, ReserveExhausted, SearchAnswers, SearchFails, DisableProvider,
       PageDiscarded, RecordPage, FinishSource, FinishTarget, BudgetExhausted, SendMatch,
       TypeOK, RunType
  <2>3. CASE MatchTask(w)
    BY <2>3 DEF MatchTask, MatchSkipped, MatchOutdated, ScoreBatch, MatchCompletes,
       SendEnrich, TypeOK, RunType
  <2>4. CASE EnrichTask(w)
    BY <2>4 DEF EnrichTask, BeginEnrich, SelectTop, FinishEmpty, PrepareNothing,
       PrepareRequest, PrepareExhausted, PrepareAmbiguous, SubmitWithdrawn, Submit,
       SendRetry, Finalize, FailActive, MarkProviderDisabled, Finalized, BudgetExhausted,
       TypeOK, RunType
  <2> QED
    BY <1>3, <2>1, <2>2, <2>3, <2>4 DEF Work
<1> QED
  BY <1>1, <1>2, <1>3 DEF Next

\* A ready run has been matched: every step.
LEMMA ReadyMatchedStep ==
  ASSUME ~ OnDemand, PipelineInv, TypeOK', RequestsFit, ReadyIsMatched, [Next]_vars
  PROVE  ReadyIsMatched'
<1> USE DEF PipelineInv
<1> SUFFICES ASSUME NEW r \in Runs, state'[r] = "ready"
             PROVE  "match" \in checkpoints[r]
  BY CheckpointsStay DEF ReadyIsMatched
<1>1. CASE state[r] = "ready"
  BY <1>1 DEF ReadyIsMatched
<1>2. ASSUME NEW w \in Workers, FinishEmpty(w) \/ Finalize(w), job[w].run = r
      PROVE  "match" \in checkpoints[r]
  BY <1>2, EnrichedIsMatched DEF EnrichTask, StageInv
<1>3. ASSUME NEW kind \in Kinds, SettleRequest(r, kind)
      PROVE  "match" \in checkpoints[r]
  BY <1>3 DEF SettleRequest, RequestsFit, Kinds
<1> QED
  BY <1>1, <1>2, <1>3, BecomesReady

\* A run is ready only with everything it wanted enriched: every step.
LEMMA ReadyStep ==
  ASSUME ~ OnDemand, PipelineInv, TypeOK', ResultsInv, [Next]_vars
  PROVE  ReadyMeansEnriched'
<1> USE DEF PipelineInv, StageInv, ResultsInv
<1> SUFFICES ASSUME NEW r \in Runs, state'[r] = "ready"
             PROVE  requests'[r].auto = "completed" \/ Found(r)' \cap Main = {}
  BY DEF ReadyMeansEnriched
<1>1. CASE state[r] = "ready"
  <2>1. "match" \in checkpoints[r]
    BY <1>1 DEF ReadyIsMatched
  <2> QED
    BY <1>1, <2>1, MatchedIsFrozen, RequestsStay DEF ReadyMeansEnriched
<1>2. ASSUME NEW w \in Workers, FinishEmpty(w), job[w].run = r, state[r] = "enriching"
      PROVE  Found(r)' \cap Main = {}
  <2>1. "match" \in checkpoints[r]
    BY <1>2, EnrichedIsMatched DEF EnrichTask
  <2>2. Found(r) \subseteq scored[r]
    BY <1>2, <2>1 DEF MatchedInFull
  <2>3. Selected(r) = {}
    BY <1>2 DEF FinishEmpty, At, RequestsFit
  <2> QED
    BY <2>1, <2>2, <2>3, MatchedIsFrozen DEF Selected
<1>3. ASSUME NEW w \in Workers, Finalize(w), job[w].run = r, state[r] # "ready"
      PROVE  requests'[r].auto = "completed"
  <2>1. pc[w] = "finalize"
    BY <1>3 DEF Finalize, ConnectorOn, GivingUp
  <2>2. requests[r].auto \notin Open \cup {"failed"} /\ ~ Cancelled(r)
    BY <1>3 DEF Finalize, Finalized, Kinds, Cancelled, TypeOK, RunType
  <2>3. requests[r].auto \in Statuses
    BY DEF TypeOK, RunType, Kinds
  <2>4. requests[r].auto = "completed"
    BY <1>3, <2>1, <2>2, <2>3 DEF RequestsFit, Statuses
  <2> QED
    BY <2>4, RequestsStay
<1>4. ASSUME NEW kind \in Kinds, SettleRequest(r, kind), state[r] # "ready"
      PROVE  requests'[r].auto = "completed"
  <2>1. kind = "auto"
    BY <1>4 DEF SettleRequest, RequestsFit, Kinds
  <2>2. PICK outcome \in {"completed", "failed"} :
          /\ requests' = [requests EXCEPT ![r] = [requests[r] EXCEPT !["auto"] = outcome]]
          /\ state' = [state EXCEPT ![r] = Finalized(r, [requests[r] EXCEPT !["auto"] = outcome])]
    BY <1>4, <2>1 DEF SettleRequest
  <2>3. requests[r] \in [Kinds -> Statuses]
    BY DEF TypeOK, RunType
  <2>4. outcome # "failed"
    BY <1>4, <2>2, <2>3 DEF Finalized, Kinds, TypeOK, RunType
  <2> QED
    BY <2>2, <2>3, <2>4 DEF Kinds, TypeOK, RunType
<1> QED
  BY <1>1, <1>2, <1>3, <1>4, BecomesReady

\* While the provider answers and recruiters ask for no single enrichment, a
\* ranked run is scored in full and the shortlist of a ready run was enriched.
THEOREM ResultsFit ==
  ASSUME ProviderAnswers, ~ OnDemand
  PROVE  Spec => []ResultsMatchState
<1>1. Init => ResultsInv
  BY DEF Init, ResultsInv, EnrichLockExclusive, EnrichLocked, RequestsFit, MatchedInFull,
     ReadyIsMatched, ReadyMeansEnriched, Kinds
<1>2. PipelineInv /\ TypeOK' /\ ResultsInv /\ [Next]_vars => ResultsInv'
  BY EnrichLockStep, RequestsStep, MatchedStep, ReadyMatchedStep, ReadyStep
  DEF ResultsInv, PipelineInv, StageInv
<1>3. PipelineInv /\ ResultsInv => ResultsMatchState
  BY DEF PipelineInv, ResultsInv, ResultsMatchState, RankedRunsAreFullyScored,
     MatchedInFull, ReadyIsMatched, CheckpointInv, CheckpointsFollowState
<1>4. /\ TypeOK /\ CheckpointInv /\ SourceLockExclusive /\ LimitInv /\ ScoredAreFound
      /\ StageInv
      => PipelineInv
  BY DEF PipelineInv
<1>5. Spec => []StageInv
  BY StageInvariant
<1> QED
  BY <1>1, <1>2, <1>3, <1>4, <1>5, TypeCorrect, CheckpointInvariant, LockInvariant,
     LimitInvariant, ScoredInvariant, PTL DEF Spec

-----------------------------------------------------------------------------
(* Lost work: as long as the search budget lasts and a message outlives the  *)
(* failures of the database, what the next stage of a run needs is waiting   *)
(* or being worked on.                                                       *)

BudgetLasts == reserved < SearchCap

\* A message was retried at most once per failure of the database.
TriesFitFailures ==
  /\ \A m \in Messages : queue[m] > 0 => m.tries <= failures
  /\ \A w \in Workers : pc[w] # "idle" => job[w].tries <= failures

\* A run left half ready was ranked: no search ended for lack of budget.
HalfReadyIsMatched ==
  /\ \A w \in Workers : pc[w] # "finish_budget"
  /\ \A r \in Runs : state[r] = "partially_ready" => "match" \in checkpoints[r]

MatchingHasFound == \A r \in Runs : state[r] = "matching" => Found(r) # {}

\* A message of one of the tasks waits for the run, or a worker is in a place.
Pending(r, tasks, places) ==
  \/ \E m \in Messages : m.run = r /\ m.task \in tasks /\ queue[m] > 0
  \/ \E w \in Workers : job[w].run = r /\ pc[w] \in places

PlanTasks == {"plan"}
SearchTasks == {"plan", "source"}
RankTasks == {"source", "match"}
SearchPlaces == PlanPlaces \cup {"source", "lock"} \cup SourceLocked
RankPlaces == {"source", "lock", "source_done", "match"}

NextStageInHand ==
  \A r \in Runs :
    /\ state[r] = "queued" /\ published[r] > 0 => Pending(r, PlanTasks, PlanTasks)
    /\ state[r] = "sourcing" => Pending(r, SearchTasks, SearchPlaces)
    /\ state[r] = "matching" => Pending(r, RankTasks, RankPlaces)

DurableInv == /\ TriesFitFailures /\ HalfReadyIsMatched /\ MatchingHasFound
              /\ NextStageInHand

\* A try is spent by a failure only: every step.
LEMMA TriesStep ==
  ASSUME TypeOK, TypeOK', TriesFitFailures, ProviderAnswers, [Next]_vars
  PROVE  TriesFitFailures'
<1>1. failures' \in Nat /\ failures \in Nat /\ failures <= failures'
  <2>1. failures' = failures \/ failures' = failures + 1
    <3>1. CASE UNCHANGED vars
      BY <3>1 DEF vars, environment
    <3>2. CASE World
      BY <3>2 DEF World, PublishPlan, Cancel, QueueOnDemand, SettleRequest, Crash,
         DatabaseFailure, Redeliver, environment
    <3>3. ASSUME NEW w \in Workers, Work(w)
          PROVE  failures' = failures
      BY <3>3 DEF Work, Take, Acknowledge, Reject, PlanTask, PlanSkipped, Plan, SendSource,
         SourceTask, CheckProvider, SourceSkipped, OpenSource, CheckPage, ReservePage,
         ReserveExhausted, SearchAnswers, SearchFails, DisableProvider, PageDiscarded,
         RecordPage, FinishSource, SendMatch, MatchTask, MatchSkipped, MatchOutdated,
         ScoreBatch, MatchCompletes, SendEnrich, EnrichTask, BeginEnrich, SelectTop,
         FinishEmpty, PrepareNothing, PrepareRequest, PrepareExhausted, PrepareAmbiguous,
         SubmitWithdrawn, Submit, SendRetry, Finalize, FailActive, MarkProviderDisabled,
         environment
    <3> QED
      BY <3>1, <3>2, <3>3 DEF Next
  <2> QED
    BY <2>1 DEF TypeOK, EnvironmentType
<1>2. ASSUME NEW m \in Messages, queue'[m] > 0, ~ queue[m] > 0
      PROVE  m.tries <= failures'
  <2>1. CASE \E w \in Workers : DatabaseFailure(w)
    <3>1. PICK w \in Workers : DatabaseFailure(w)
      BY <2>1
    <3>2. job[w] \in Messages /\ job[w].tries <= failures /\ failures' = failures + 1
      BY <3>1, JobOfBusy DEF DatabaseFailure, TriesFitFailures
    <3>3. m = Again(job[w])
      BY <1>2, <3>1, <3>2 DEF DatabaseFailure, GiveBack, Drop, Put, TypeOK, BrokerType
    <3> QED
      BY <1>1, <3>2, <3>3 DEF Again, Messages
  <2>2. ASSUME NEW w \in Workers, pc[w] # "idle", m = job[w]
        PROVE  m.tries <= failures'
    <3>1. job[w].tries \in Nat /\ job[w].tries <= failures
      BY <2>2, JobOfBusy, LimitAssumption DEF TriesFitFailures
    <3> QED
      BY <1>1, <2>2, <3>1
  <2>3. ASSUME m.tries = 0
        PROVE  m.tries <= failures'
    BY <1>1, <2>3
  <2>4. \A w \in Workers : ~ SearchFails(w)
    BY DEF SearchFails, ProviderAnswers
  <2> QED
    BY <1>2, <2>1, <2>2, <2>3, <2>4, MessageOrigin DEF Sends, Message
<1>3. ASSUME NEW m \in Messages, queue[m] > 0 PROVE m.tries <= failures'
  <2>1. m.tries \in Nat
    BY LimitAssumption DEF Messages
  <2> QED
    BY <1>1, <1>3, <2>1 DEF TriesFitFailures
<1>4. ASSUME NEW w \in Workers, pc'[w] # "idle" PROVE job'[w].tries <= failures'
  <2>1. CASE pc[w] # "idle" /\ job'[w] = job[w]
    <3>1. job[w].tries \in Nat /\ job[w].tries <= failures
      BY <2>1, JobOfBusy, LimitAssumption DEF TriesFitFailures
    <3> QED
      BY <1>1, <2>1, <3>1
  <2> QED
    BY <1>3, <1>4, <2>1, JobOrigin
<1> QED
  BY <1>2, <1>3, <1>4 DEF TriesFitFailures

\* Nobody meets the end of the budget, so a run left half ready was ranked.
LEMMA HalfReadyStep ==
  ASSUME PipelineInv, BudgetLasts, HalfReadyIsMatched, [Next]_vars
  PROVE  HalfReadyIsMatched'
<1> USE DEF PipelineInv, StageInv
<1>1. ASSUME NEW w \in Workers, pc'[w] = "finish_budget" PROVE FALSE
  <2>1. pc'[w] \in SourceLocked
    BY <1>1 DEF SourceLocked
  <2>2. CASE HoldsSource(w)
    <3>1. ~ ReserveExhausted(w)
      BY DEF ReserveExhausted, BudgetLasts, TypeOK, ProviderType
    <3>2. CASE OpenSource(w) \/ ReservePage(w) \/ SearchAnswers(w) \/ PageDiscarded(w)
      BY <1>1, <3>2 DEF OpenSource, ReservePage, SearchAnswers, PageDiscarded, Goto, TypeOK,
         BrokerType
    <3>3. CASE CheckPage(w)
      BY <1>1, <3>3 DEF CheckPage, Goto, TypeOK, BrokerType
    <3>4. CASE RecordPage(w)
      BY <1>1, <3>4 DEF RecordPage, Goto, TypeOK, BrokerType
    <3> QED
      BY <2>2, <3>1, <3>2, <3>3, <3>4 DEF HoldsSource
  <2>3. CASE ~ HoldsSource(w)
    BY <1>1, <2>1, <2>3, IntoSource DEF HalfReadyIsMatched
  <2> QED
    BY <2>2, <2>3
<1>2. ASSUME NEW r \in Runs, state'[r] = "partially_ready", state[r] # "partially_ready"
      PROVE  "match" \in checkpoints[r]
  <2>1. CASE UNCHANGED vars
    BY <1>2, <2>1 DEF vars
  <2>2. CASE World
    <3>1. ASSUME NEW q \in Runs, NEW kind \in Kinds, SettleRequest(q, kind)
          PROVE  q = r /\ state[r] = "enriching"
      <4>1. PICK now : state' = [state EXCEPT ![q] = Finalized(q, now)]
        BY <3>1 DEF SettleRequest
      <4>2. q = r /\ Finalized(q, now) # state[q]
        BY <1>2, <4>1 DEF TypeOK, RunType
      <4> QED
        BY <1>2, <4>2 DEF Finalized
    <3>2. state[r] = "enriching"
      BY <1>2, <2>2, <3>1 DEF World, PublishPlan, Cancel, QueueOnDemand, Crash,
         DatabaseFailure, Redeliver, TypeOK, RunType
    <3> QED
      BY <3>2 DEF CheckpointInv, CheckpointsFollowState
  <2>3. ASSUME NEW w \in Workers, Work(w)
        PROVE  "match" \in checkpoints[r]
    <3>1. CASE Take(w) \/ Acknowledge(w) \/ Reject(w) \/ PlanTask(w)
      BY <1>2, <3>1 DEF Take, Acknowledge, Reject, PlanTask, PlanSkipped, Plan, SendSource,
         TypeOK, RunType
    <3>2. CASE SourceTask(w)
      <4>1. ~ ReserveExhausted(w)
        BY DEF ReserveExhausted, BudgetLasts, TypeOK, ProviderType
      <4>2. CASE FinishSource(w)
        <5>1. pc[w] = "finish"
          BY <4>2 DEF FinishSource, FinishSteps, HalfReadyIsMatched, ConnectorOn, GivingUp
        <5> QED
          BY <1>2, <4>2, <5>1 DEF FinishSource, FinishTarget, TypeOK, RunType
      <4> QED
        BY <1>2, <3>2, <4>1, <4>2 DEF SourceTask, CheckProvider, SourceSkipped, OpenSource,
           CheckPage, ReservePage, SearchAnswers, SearchFails, DisableProvider,
           PageDiscarded, RecordPage, SendMatch
    <3>3. CASE MatchTask(w)
      BY <1>2, <3>3 DEF MatchTask, MatchSkipped, MatchOutdated, ScoreBatch, MatchCompletes,
         SendEnrich, TypeOK, RunType
    <3>4. CASE EnrichTask(w)
      <4>1. job[w].run = r
        BY <1>2, <3>4 DEF EnrichTask, BeginEnrich, SelectTop, FinishEmpty, PrepareNothing,
           PrepareRequest, PrepareExhausted, PrepareAmbiguous, SubmitWithdrawn, Submit,
           SendRetry, Finalize, FailActive, MarkProviderDisabled, TypeOK, RunType
      <4> QED
        BY <3>4, <4>1, EnrichedIsMatched
    <3> QED
      BY <2>3, <3>1, <3>2, <3>3, <3>4 DEF Work
  <2> QED
    BY <2>1, <2>2, <2>3 DEF Next
<1>3. ASSUME NEW r \in Runs, state'[r] = "partially_ready"
      PROVE  "match" \in checkpoints'[r]
  BY <1>2, <1>3, CheckpointsStay DEF HalfReadyIsMatched
<1> QED
  BY <1>1, <1>3 DEF HalfReadyIsMatched

\* How a run comes to be sourced, and matched.
LEMMA NextStageBegins ==
  ASSUME PipelineInv, HalfReadyIsMatched, [Next]_vars, NEW r \in Runs,
         state'[r] \in {"sourcing", "matching"}, state'[r] # state[r]
  PROVE  \E w \in Workers :
           /\ job[w].run = r /\ job'[w] = job[w]
           /\ \/ state'[r] = "sourcing" /\ pc'[w] = "plan_sent"
              \/ state'[r] = "matching" /\ pc'[w] = "source_done" /\ Found(r) # {}
                   /\ seen' = seen
<1> USE DEF PipelineInv, StageInv
<1>1. CASE UNCHANGED vars
  BY <1>1 DEF vars
<1>2. CASE World
  BY <1>2 DEF World, PublishPlan, Cancel, QueueOnDemand, SettleRequest, Crash,
     DatabaseFailure, Redeliver, Finalized, TypeOK, RunType
<1>3. ASSUME NEW w \in Workers, Work(w)
      PROVE  /\ job[w].run = r /\ job'[w] = job[w]
             /\ \/ state'[r] = "sourcing" /\ pc'[w] = "plan_sent"
                \/ state'[r] = "matching" /\ pc'[w] = "source_done" /\ Found(r) # {}
                     /\ seen' = seen
  <2>1. CASE Take(w) \/ Acknowledge(w) \/ Reject(w)
    BY <2>1 DEF Take, Acknowledge, Reject
  <2>2. CASE PlanTask(w)
    BY <2>2 DEF PlanTask, PlanSkipped, Plan, SendSource, Goto, At, TypeOK, RunType,
       BrokerType
  <2>3. CASE SourceTask(w)
    BY <2>3 DEF SourceTask, CheckProvider, SourceSkipped, OpenSource, CheckPage,
       ReservePage, ReserveExhausted, BudgetExhausted, SearchAnswers, SearchFails,
       DisableProvider, PageDiscarded, RecordPage, FinishSource, FinishTarget, FinishSteps,
       SendMatch, Goto, At, Complete, ConnectorOn, GivingUp, TypeOK, RunType, BrokerType
  <2>4. CASE MatchTask(w)
    BY <2>4 DEF MatchTask, MatchSkipped, MatchOutdated, ScoreBatch, MatchCompletes,
       SendEnrich, TypeOK, RunType
  <2>5. CASE EnrichTask(w)
    BY <2>5 DEF EnrichTask, BeginEnrich, SelectTop, FinishEmpty, PrepareNothing,
       PrepareRequest, PrepareExhausted, PrepareAmbiguous, SubmitWithdrawn, Submit,
       SendRetry, Finalize, FailActive, MarkProviderDisabled, Finalized, BudgetExhausted,
       TypeOK, RunType
  <2> QED
    BY <1>3, <2>1, <2>2, <2>3, <2>4, <2>5 DEF Work
<1> QED
  BY <1>1, <1>2, <1>3 DEF Next

\* What a run has collected it keeps.
LEMMA FoundStays ==
  ASSUME PipelineInv, [Next]_vars, NEW r \in Runs, Found(r) # {}
  PROVE  Found(r)' # {}
<1> USE DEF PipelineInv
<1>1. seen[r] \subseteq seen'[r]
  <2>1. ASSUME NEW w \in Workers, RecordPage(w) PROVE seen[r] \subseteq seen'[r]
    BY <2>1, RecordPageAdds
  <2> QED
    BY <2>1, OnlyRecordAdds
<1> QED
  BY <1>1 DEF Found

\* A run is matched only when it has found somebody: every step.
LEMMA MatchingFoundStep ==
  ASSUME PipelineInv, HalfReadyIsMatched, MatchingHasFound, [Next]_vars
  PROVE  MatchingHasFound'
<1> SUFFICES ASSUME NEW r \in Runs, state'[r] = "matching" PROVE Found(r)' # {}
  BY DEF MatchingHasFound
<1>1. CASE state[r] = "matching"
  BY <1>1, FoundStays DEF MatchingHasFound
<1>2. CASE state[r] # "matching"
  BY <1>2, NextStageBegins DEF Found
<1> QED
  BY <1>1, <1>2

\* A message is acknowledged last: what waits for a run stays, or is taken, or
\* its worker finishes with it.
LEMMA PendingStays ==
  ASSUME TypeOK, TriesFitFailures, MaxFailures <= MaxTries, [Next]_vars,
         NEW r \in Runs, NEW tasks, NEW places, tasks \subseteq places,
         "idle" \notin places,
         \A w \in Workers : pc[w] \in places => job[w].task \in tasks,
         Pending(r, tasks, places)
  PROVE  \/ Pending(r, tasks, places)'
         \/ \E w \in Workers : /\ job[w].run = r /\ pc[w] \in places
                               /\ pc'[w] \notin places /\ Work(w) /\ ~ Take(w)
<1>1. ASSUME NEW m \in Messages, m.run = r, m.task \in tasks, queue[m] > 0, ~ queue'[m] > 0
      PROVE  Pending(r, tasks, places)'
  <2>1. PICK w \in Workers : Take(w) /\ job'[w] = m /\ pc'[w] = m.task
    <3>1. CASE UNCHANGED vars
      BY <1>1, <3>1 DEF vars
    <3>2. CASE World
      BY <1>1, <3>2 DEF World, PublishPlan, Cancel, QueueOnDemand, SettleRequest, Crash,
         DatabaseFailure, Redeliver, GiveBack, Drop, Put, TypeOK, BrokerType
    <3>3. ASSUME NEW w \in Workers, Work(w)
          PROVE  Take(w) /\ job'[w] = m /\ pc'[w] = m.task
      <4>1. CASE Take(w)
        BY <1>1, <4>1 DEF Take, TypeOK, BrokerType
      <4>2. CASE Acknowledge(w) \/ Reject(w) \/ PlanTask(w)
        BY <1>1, <4>2 DEF Acknowledge, Reject, Drop, PlanTask, PlanSkipped, Plan,
           SendSource, Goto, SendThen, Put, TypeOK, BrokerType
      <4>3. CASE SourceTask(w)
        <5>1. CASE SearchFails(w)
          BY <1>1, <5>1 DEF SearchFails, GiveBack, Goto, Put, TypeOK, BrokerType
        <5>2. CASE SendMatch(w)
          BY <1>1, <5>2 DEF SendMatch, Goto, SendThen, Put, TypeOK, BrokerType
        <5> QED
          BY <1>1, <4>3, <5>1, <5>2 DEF SourceTask, CheckProvider, SourceSkipped,
             OpenSource, CheckPage, ReservePage, ReserveExhausted, SearchAnswers,
             DisableProvider, PageDiscarded, RecordPage, FinishSource, Goto
      <4>4. CASE MatchTask(w)
        BY <1>1, <4>4 DEF MatchTask, MatchSkipped, MatchOutdated, ScoreBatch,
           MatchCompletes, SendEnrich, Goto, SendThen, Put, TypeOK, BrokerType
      <4>5. CASE EnrichTask(w)
        BY <1>1, <4>5 DEF EnrichTask, BeginEnrich, SelectTop, FinishEmpty,
           PrepareNothing, PrepareRequest, PrepareExhausted, PrepareAmbiguous,
           SubmitWithdrawn, Submit, SendRetry, Finalize, FailActive,
           MarkProviderDisabled, Goto, SendThen, Put, TypeOK, BrokerType
      <4> QED
        BY <3>3, <4>1, <4>2, <4>3, <4>4, <4>5 DEF Work
    <3> QED
      BY <3>1, <3>2, <3>3 DEF Next
  <2> QED
    BY <1>1, <2>1 DEF Pending
<1>2. ASSUME NEW w \in Workers, job[w].run = r, pc[w] \in places, pc'[w] \notin places,
             Crash(w) \/ DatabaseFailure(w)
      PROVE  Pending(r, tasks, places)'
  <2>1. job[w] \in Messages /\ job[w].task \in tasks
    BY <1>2, JobOfBusy
  <2>2. CASE Crash(w)
    BY <1>2, <2>1, <2>2 DEF Crash, GiveBack, Put, Pending, TypeOK, BrokerType
  <2>3. CASE DatabaseFailure(w)
    <3>1. job[w].tries < MaxTries
      <4>1. job[w].tries <= failures /\ failures < MaxFailures
        BY <1>2, <2>3 DEF DatabaseFailure, TriesFitFailures
      <4>2. job[w].tries \in Nat /\ failures \in Nat
        BY <2>1, LimitAssumption DEF Messages, TypeOK, EnvironmentType
      <4> QED
        BY <4>1, <4>2, LimitAssumption
    <3>2. Again(job[w]) \in Messages
      BY <2>1, <3>1, AgainType
    <3>3. Again(job[w]).run = r /\ Again(job[w]).task = job[w].task
      BY <1>2, <2>1 DEF Again, Messages
    <3>4. queue'[Again(job[w])] > 0
      BY <2>3, <3>1, <3>2 DEF DatabaseFailure, GiveBack, Put, TypeOK, BrokerType
    <3> QED
      BY <2>1, <3>2, <3>3, <3>4 DEF Pending
  <2> QED
    BY <1>2, <2>2, <2>3
<1>3. ASSUME NEW w \in Workers, job[w].run = r, pc[w] \in places
      PROVE  \/ Pending(r, tasks, places)'
             \/ pc'[w] \notin places /\ Work(w) /\ ~ Take(w)
  <2>1. CASE pc'[w] \in places
    <3>1. ~ Take(w)
      BY <1>3 DEF Take, At
    <3>2. job'[w] = job[w]
      <4>1. CASE pc'[w] # "idle"
        BY <1>3, <3>1, <4>1, JobOrigin
      <4>2. CASE pc'[w] = "idle"
        BY <1>3, <2>1, <4>2, OthersStay
      <4> QED
        BY <4>1, <4>2
    <3> QED
      BY <1>3, <2>1, <3>2 DEF Pending
  <2>2. CASE pc'[w] \notin places
    <3>1. ~ Take(w)
      BY <1>3 DEF Take, At
    <3> QED
      BY <1>2, <1>3, <2>2, <3>1, OthersStay
  <2> QED
    BY <2>1, <2>2
<1>4. CASE \E m \in Messages : m.run = r /\ m.task \in tasks /\ queue[m] > 0
  BY <1>1, <1>4 DEF Pending
<1> QED
  BY <1>3, <1>4 DEF Pending

\* A queued run that was published waits for plan_run, or plan_run is at work.
LEMMA QueuedInHand ==
  ASSUME PipelineInv, DurableInv, MaxFailures <= MaxTries, [Next]_vars,
         NEW r \in Runs, state[r] = "queued", state'[r] = "queued",
         Pending(r, PlanTasks, PlanTasks)
  PROVE  Pending(r, PlanTasks, PlanTasks)'
<1> USE DEF PipelineInv
<1>1. \A w \in Workers : pc[w] \in PlanTasks => job[w].task \in PlanTasks
  BY DEF StageInv, PlacesFitTasks, PlanTasks, PlanPlaces
<1>2. ASSUME NEW w \in Workers, job[w].run = r, pc[w] = "plan", pc'[w] # "plan", Work(w)
      PROVE  FALSE
  <2>1. checkpoints[r] = {}
    BY DEF CheckpointInv, CheckpointsFollowState
  <2>2. ~ Reject(w)
    BY <1>2, <2>1 DEF Reject, Unexpected, At, FinishSteps
  <2>3. PlanSkipped(w) \/ Plan(w)
    BY <1>2, <2>2 DEF Work, Take, Acknowledge, PlanTask, SendSource, SourceTask,
       CheckProvider, SourceSkipped, OpenSource, CheckPage, ReservePage, ReserveExhausted,
       SearchAnswers, SearchFails, DisableProvider, PageDiscarded, RecordPage, FinishSource,
       SendMatch, FinishSteps, MatchTask, MatchSkipped, MatchOutdated, ScoreBatch,
       MatchCompletes, SendEnrich, EnrichTask, BeginEnrich, SelectTop, FinishEmpty,
       PrepareNothing, PrepareRequest, PrepareExhausted, PrepareAmbiguous, SubmitWithdrawn,
       Submit, SendRetry, Finalize, FailActive, MarkProviderDisabled, At
  <2> QED
    BY <1>2, <2>1, <2>3 DEF PlanSkipped, Plan, Cancelled, TypeOK, RunType
<1> QED
  BY <1>1, <1>2, PendingStays DEF DurableInv, PlanTasks

\* A run that is sourced waits for source_run, or somebody is at it.
LEMMA SourcingInHand ==
  ASSUME PipelineInv, TypeOK', DurableInv, ProviderAnswers, MaxFailures <= MaxTries,
         [Next]_vars, NEW r \in Runs, state[r] = "sourcing", state'[r] = "sourcing",
         Pending(r, SearchTasks, SearchPlaces)
  PROVE  Pending(r, SearchTasks, SearchPlaces)'
<1> USE DEF PipelineInv
<1>1. \A w \in Workers : pc[w] \in SearchPlaces => job[w].task \in SearchTasks
  BY DEF StageInv, PlacesFitTasks, SearchTasks, SearchPlaces, PlanPlaces, SourcePlaces
<1>2. ASSUME NEW w \in Workers, job[w].run = r, pc[w] \in SearchPlaces,
             pc'[w] \notin SearchPlaces, Work(w), ~ Take(w)
      PROVE  Pending(r, SearchTasks, SearchPlaces)'
  <2>1. "plan" \in checkpoints[r] /\ "source" \notin checkpoints[r]
    BY DEF CheckpointInv, CheckpointsFollowState
  <2>2. ~ Reject(w)
    <3>1. ~ FinishRefused(w)
      BY <1>2 DEF FinishRefused, FinishTarget, CanMove, AllowedTransitions, Cancelled,
         SearchPlaces, PlanPlaces, SourceLocked
    <3> QED
      BY <1>2, <2>1, <3>1 DEF Reject, Unexpected, At, SearchPlaces, PlanPlaces, SourceLocked
  <2>3. ~ Acknowledge(w) /\ ~ MatchTask(w)
    BY <1>2 DEF Acknowledge, MatchTask, MatchSkipped, MatchOutdated, ScoreBatch,
       MatchCompletes, SendEnrich, At, SearchPlaces, PlanPlaces, SourceLocked
  <2>4. ~ EnrichTask(w)
    BY <1>2 DEF EnrichTask, BeginEnrich, SelectTop, FinishEmpty, PrepareNothing,
       PrepareRequest, PrepareExhausted, PrepareAmbiguous, SubmitWithdrawn, Submit,
       SendRetry, Finalize, FailActive, MarkProviderDisabled, At, SearchPlaces, PlanPlaces,
       SourceLocked
  <2>5. CASE PlanTask(w)
    <3>1. ~ Plan(w)
      BY <1>2, <2>1 DEF Plan
    <3>2. ~ PlanSkipped(w)
      BY <1>2 DEF PlanSkipped, AfterReplay, Goto, SearchPlaces, PlanPlaces, TypeOK, BrokerType
    <3>3. SendSource(w)
      BY <2>5, <3>1, <3>2 DEF PlanTask
    <3>4. r \in Runs /\ Message("source", r) \in Messages
      BY MessageType DEF Tasks
    <3> QED
      BY <1>2, <3>3, <3>4 DEF SendSource, SendThen, Put, Pending, Message, SearchTasks,
         TypeOK, BrokerType
  <2>6. CASE SourceTask(w)
    <3>1. ~ HoldsSource(w)
      BY <1>2, SourceStepMoves DEF SearchPlaces
    <3>2. ~ FinishSource(w)
      BY <1>2 DEF FinishSource, FinishRefused, FinishTarget, CanMove, AllowedTransitions,
         TypeOK, RunType, Cancelled
    <3>3. ~ SearchFails(w) /\ ~ DisableProvider(w) /\ ~ SendMatch(w)
      BY <1>2 DEF SearchFails, DisableProvider, SendMatch, ProviderAnswers, At, SearchPlaces,
         PlanPlaces, SourceLocked
    <3>4. ~ CheckProvider(w)
      BY <1>2 DEF CheckProvider, StageInv, ConnectorOn, Goto, SearchPlaces, TypeOK,
         BrokerType
    <3>5. SourceSkipped(w)
      BY <2>6, <3>1, <3>2, <3>3, <3>4 DEF SourceTask, HoldsSource
    <3>6. PICK v \in Workers \ {w} : pc[v] \in SourceLocked /\ job[v].run = r
      BY <1>2, <2>1, <3>5 DEF SourceSkipped, HeldByOther, Cancelled
    <3>7. pc'[v] = pc[v] /\ job'[v] = job[v]
      BY <3>5, <3>6 DEF SourceSkipped, Goto, TypeOK, BrokerType
    <3> QED
      BY <3>6, <3>7 DEF Pending, SearchPlaces
  <2> QED
    BY <1>2, <2>2, <2>3, <2>4, <2>5, <2>6 DEF Work
<1> QED
  BY <1>1, <1>2, PendingStays DEF DurableInv, SearchTasks, SearchPlaces, PlanPlaces,
     SourceLocked

\* A run that is matched waits for match_run or for a source_run that will send
\* it, or somebody is at it.
LEMMA MatchingInHand ==
  ASSUME PipelineInv, TypeOK', DurableInv, ProviderAnswers, MaxFailures <= MaxTries,
         [Next]_vars, NEW r \in Runs, state[r] = "matching", state'[r] = "matching",
         Pending(r, RankTasks, RankPlaces)
  PROVE  Pending(r, RankTasks, RankPlaces)'
<1> USE DEF PipelineInv
<1>1. \A w \in Workers : pc[w] \in RankPlaces => job[w].task \in RankTasks
  BY DEF StageInv, PlacesFitTasks, RankTasks, RankPlaces, SourcePlaces, MatchPlaces
<1>2. ASSUME NEW w \in Workers, job[w].run = r, pc[w] \in RankPlaces,
             pc'[w] \notin RankPlaces, Work(w), ~ Take(w)
      PROVE  Pending(r, RankTasks, RankPlaces)'
  <2>1. "source" \in checkpoints[r] /\ "match" \notin checkpoints[r]
    BY DEF CheckpointInv, CheckpointsFollowState
  <2>2. ~ Reject(w)
    BY <1>2, <2>1 DEF Reject, Unexpected, At, RankPlaces, FinishSteps, Matchable
  <2>3. ~ Acknowledge(w) /\ ~ PlanTask(w)
    BY <1>2 DEF Acknowledge, PlanTask, PlanSkipped, Plan, SendSource, At, RankPlaces
  <2>4. ~ EnrichTask(w)
    BY <1>2 DEF EnrichTask, BeginEnrich, SelectTop, FinishEmpty, PrepareNothing,
       PrepareRequest, PrepareExhausted, PrepareAmbiguous, SubmitWithdrawn, Submit,
       SendRetry, Finalize, FailActive, MarkProviderDisabled, At, RankPlaces
  <2>5. ~ MatchTask(w)
    BY <1>2, <2>1 DEF MatchTask, MatchSkipped, MatchOutdated, ScoreBatch, MatchCompletes,
       SendEnrich, Cancelled, At, RankPlaces, TypeOK, RunType
  <2>6. CASE SourceTask(w)
    <3>1. ~ CheckProvider(w) /\ ~ SourceSkipped(w)
      BY <1>2 DEF CheckProvider, SourceSkipped, StageInv, ConnectorOn, Goto, RankPlaces,
         TypeOK, BrokerType
    <3>2. SendMatch(w)
      BY <1>2, <2>1, <2>6, <3>1 DEF SourceTask, OpenSource, CheckPage, ReservePage,
         ReserveExhausted, SearchAnswers, SearchFails, DisableProvider, PageDiscarded,
         RecordPage, FinishSource, FinishSteps, At, RankPlaces
    <3>3. MatchEligible(r)
      BY DEF MatchEligible, DurableInv, MatchingHasFound
    <3>4. Message("match", r) \in Messages
      BY MessageType DEF Tasks
    <3> QED
      BY <1>2, <3>2, <3>3, <3>4 DEF SendMatch, SendThen, Put, Pending, Message, RankTasks,
         TypeOK, BrokerType
  <2> QED
    BY <1>2, <2>2, <2>3, <2>4, <2>5, <2>6 DEF Work
<1> QED
  BY <1>1, <1>2, PendingStays DEF DurableInv, RankTasks, RankPlaces

\* Only the publication of plan_run makes a run published, and it leaves a
\* message.
LEMMA PublicationWaits ==
  ASSUME TypeOK, [Next]_vars, NEW r \in Runs, ~ published[r] > 0, published'[r] > 0
  PROVE  Pending(r, PlanTasks, PlanTasks)'
<1>1. CASE UNCHANGED vars
  BY <1>1 DEF vars, environment
<1>2. CASE World
  <2>1. PublishPlan(r)
    BY <1>2 DEF World, PublishPlan, Cancel, QueueOnDemand, SettleRequest, Crash,
       DatabaseFailure, Redeliver, environment, TypeOK, EnvironmentType
  <2>2. Message("plan", r) \in Messages
    BY MessageType DEF Tasks
  <2> QED
    BY <2>1, <2>2 DEF PublishPlan, Put, Pending, Message, PlanTasks, TypeOK, BrokerType
<1>3. ASSUME NEW w \in Workers, Work(w)
      PROVE  published' = published
  BY <1>3 DEF Work, Take, Acknowledge, Reject, PlanTask, PlanSkipped, Plan, SendSource,
     SourceTask, CheckProvider, SourceSkipped, OpenSource, CheckPage, ReservePage,
     ReserveExhausted, SearchAnswers, SearchFails, DisableProvider, PageDiscarded,
     RecordPage, FinishSource, SendMatch, MatchTask, MatchSkipped, MatchOutdated,
     ScoreBatch, MatchCompletes, SendEnrich, EnrichTask, BeginEnrich, SelectTop,
     FinishEmpty, PrepareNothing, PrepareRequest, PrepareExhausted, PrepareAmbiguous,
     SubmitWithdrawn, Submit, SendRetry, Finalize, FailActive, MarkProviderDisabled,
     environment
<1> QED
  BY <1>1, <1>2, <1>3 DEF Next

\* The next stage of a run is in the broker or with a worker: every step.
LEMMA NextStageStep ==
  ASSUME PipelineInv, TypeOK', DurableInv, HalfReadyIsMatched, ProviderAnswers,
         MaxFailures <= MaxTries, [Next]_vars
  PROVE  NextStageInHand'
<1> USE DEF PipelineInv
<1>1. ASSUME NEW r \in Runs, state'[r] = "queued", published'[r] > 0
      PROVE  Pending(r, PlanTasks, PlanTasks)'
  <2>1. state[r] = "queued"
    <3>1. state[r] \in RunStates
      BY DEF TypeOK, RunType
    <3>2. ~ CanMove(state[r], "queued")
      BY <3>1 DEF CanMove, AllowedTransitions, RunStates
    <3> QED
      BY <1>1, <3>2, StatesMove
  <2> QED
    BY <1>1, <2>1, QueuedInHand, PublicationWaits DEF DurableInv, NextStageInHand
<1>2. ASSUME NEW r \in Runs, state'[r] = "sourcing"
      PROVE  Pending(r, SearchTasks, SearchPlaces)'
  <2>1. CASE state[r] = "sourcing"
    BY <1>2, <2>1, SourcingInHand DEF DurableInv, NextStageInHand
  <2>2. CASE state[r] # "sourcing"
    <3>1. PICK w \in Workers : job[w].run = r /\ job'[w] = job[w] /\ pc'[w] = "plan_sent"
      BY <1>2, <2>2, NextStageBegins
    <3> QED
      BY <3>1 DEF Pending, SearchPlaces, PlanPlaces
  <2> QED
    BY <2>1, <2>2
<1>3. ASSUME NEW r \in Runs, state'[r] = "matching"
      PROVE  Pending(r, RankTasks, RankPlaces)'
  <2>1. CASE state[r] = "matching"
    BY <1>3, <2>1, MatchingInHand DEF DurableInv, NextStageInHand
  <2>2. CASE state[r] # "matching"
    <3>1. PICK w \in Workers : job[w].run = r /\ job'[w] = job[w] /\ pc'[w] = "source_done"
      BY <1>3, <2>2, NextStageBegins
    <3> QED
      BY <3>1 DEF Pending, RankPlaces
  <2> QED
    BY <2>1, <2>2
<1> QED
  BY <1>1, <1>2, <1>3 DEF NextStageInHand

\* As long as the search budget lasts, and a message outlives the failures of
\* the database, no published run is left behind by crashes and redeliveries.
THEOREM NoWorkLost ==
  ASSUME ProviderAnswers, MaxFailures <= MaxTries
  PROVE  Spec /\ []BudgetLasts => []WorkNotLost
<1>1. Init => DurableInv
  BY DEF Init, DurableInv, TriesFitFailures, HalfReadyIsMatched, MatchingHasFound,
     NextStageInHand
<1>2. PipelineInv /\ TypeOK' /\ DurableInv /\ BudgetLasts /\ [Next]_vars => DurableInv'
  BY TriesStep, HalfReadyStep, MatchingFoundStep, NextStageStep DEF DurableInv, PipelineInv
<1>3. PipelineInv /\ DurableInv => WorkNotLost
  <2> SUFFICES ASSUME PipelineInv, DurableInv, NEW r \in Runs, published[r] > 0, Quiet(r),
                      state[r] \notin TerminalStates, "match" \notin checkpoints[r]
               PROVE  FALSE
    BY DEF WorkNotLost
  <2>1. state[r] \in {"queued", "sourcing", "matching"}
    BY DEF PipelineInv, TypeOK, RunType, RunStates, TerminalStates, CheckpointInv,
       CheckpointsFollowState, DurableInv, HalfReadyIsMatched
  <2>2. ~ Pending(r, PlanTasks, PlanTasks)
    BY DEF Quiet, Pending, Busy, PlanTasks
  <2>3. ~ Pending(r, SearchTasks, SearchPlaces)
    BY DEF Quiet, Pending, Busy, SearchTasks, SearchPlaces, PlanPlaces, SourceLocked
  <2>4. ~ Pending(r, RankTasks, RankPlaces)
    BY DEF Quiet, Pending, Busy, RankTasks, RankPlaces
  <2> QED
    BY <2>1, <2>2, <2>3, <2>4 DEF DurableInv, NextStageInHand
<1>4. /\ TypeOK /\ CheckpointInv /\ SourceLockExclusive /\ LimitInv /\ ScoredAreFound
      /\ StageInv
      => PipelineInv
  BY DEF PipelineInv
<1>5. Spec => []StageInv
  BY StageInvariant
<1> QED
  BY <1>1, <1>2, <1>3, <1>4, <1>5, TypeCorrect, CheckpointInvariant, LockInvariant,
     LimitInvariant, ScoredInvariant, PTL DEF Spec

=============================================================================
