------------------------- MODULE RunPipelineProofs --------------------------
(***************************************************************************)
(* Theorems about RunPipeline for every number of runs, workers, people,    *)
(* pages, messages, crashes and redeliveries.                               *)
(***************************************************************************)
EXTENDS RunPipeline, FiniteSetTheorems, TLAPS

-----------------------------------------------------------------------------
(* The message a worker holds *)

\* A working worker holds a message of a run.
LEMMA JobOfBusy ==
  ASSUME TypeOK, NEW w \in Workers, pc[w] # "idle"
  PROVE  /\ job[w] \in Messages
         /\ job[w].run \in Runs
         /\ job[w].task \in Tasks
         /\ job[w].tries \in 0..MaxTries
<1>1. job[w] \in Messages
  BY DEF TypeOK, BrokerType
<1> QED
  BY <1>1 DEF Messages

\* What a step does to the broker and to its own worker keeps their type.
LEMMA GotoType ==
  ASSUME TypeOK, NEW w \in Workers, pc[w] # "idle",
         NEW where \in Steps \ {"idle"}, Goto(w, where)
  PROVE  BrokerType'
BY DEF TypeOK, BrokerType, Goto

LEMMA SendThenType ==
  ASSUME TypeOK, NEW w \in Workers, pc[w] # "idle", NEW m \in Messages,
         NEW where \in Steps \ {"idle"}, SendThen(w, m, where)
  PROVE  BrokerType'
BY DEF TypeOK, BrokerType, SendThen, Put

LEMMA DropType ==
  ASSUME TypeOK, NEW w \in Workers, Drop(w)
  PROVE  BrokerType'
BY NoJobAssumption DEF TypeOK, BrokerType, Drop, Release, Steps, Unlocked

LEMMA GiveBackType ==
  ASSUME TypeOK, NEW w \in Workers, NEW m \in Messages, GiveBack(w, m)
  PROVE  BrokerType'
BY NoJobAssumption DEF TypeOK, BrokerType, GiveBack, Release, Put, Steps, Unlocked

LEMMA MessageType ==
  ASSUME NEW r \in Runs, NEW task \in Tasks
  PROVE  Message(task, r) \in Messages
BY LimitAssumption DEF Message, Messages

LEMMA AgainType ==
  ASSUME NEW m \in Messages, m.tries < MaxTries
  PROVE  Again(m) \in Messages
BY LimitAssumption DEF Again, Messages

-----------------------------------------------------------------------------
(* Type correctness, one lemma per task *)

LEMMA InitType == Init => TypeOK
BY NoJobAssumption
DEF Init, TypeOK, RunType, ProviderType, BrokerType, EnvironmentType, RunStates,
    Statuses, Steps, Unlocked

LEMMA TakeType ==
  ASSUME TypeOK, NEW w \in Workers, Take(w)
  PROVE  TypeOK'
<1>1. PICK m \in Messages : /\ queue[m] > 0
                           /\ queue' = [queue EXCEPT ![m] = @ - 1]
                           /\ job' = [job EXCEPT ![w] = m]
                           /\ pc' = [pc EXCEPT ![w] = m.task]
  BY DEF Take
<1>2. m.task \in Steps \ {"idle"}
  BY DEF Messages, Tasks, Steps, Unlocked
<1>3. BrokerType'
  BY <1>1, <1>2, NoJobAssumption DEF TypeOK, BrokerType, Take, At
<1> QED
  BY <1>3 DEF Take, TypeOK, RunType, ProviderType, EnvironmentType, provider,
              environment, records

\* A step that moves its worker on, and at most one part of the data with it.
LEMMA MoveType ==
  ASSUME TypeOK, NEW w \in Workers, BrokerType', RunType', ProviderType',
         UNCHANGED environment
  PROVE  TypeOK'
BY DEF TypeOK, EnvironmentType, environment

LEMMA SameRun ==
  ASSUME TypeOK, UNCHANGED <<state, records, requests>>
  PROVE  RunType'
BY DEF TypeOK, RunType, records

LEMMA SameProvider ==
  ASSUME TypeOK, UNCHANGED provider
  PROVE  ProviderType'
BY DEF TypeOK, ProviderType, provider

LEMMA PlanTaskType ==
  ASSUME TypeOK, NEW w \in Workers, PlanTask(w)
  PROVE  TypeOK'
<1> DEFINE r == job[w].run
<1>1. CASE PlanSkipped(w)
  <2>1. r \in Runs
    BY <1>1, JobOfBusy DEF PlanSkipped, At
  <2>2. BrokerType'
    BY <1>1, GotoType DEF PlanSkipped, At, AfterReplay, Steps, Unlocked
  <2> QED
    BY <1>1, <2>1, <2>2 DEF PlanSkipped, Complete, TypeOK, RunType, ProviderType,
                            EnvironmentType, provider, environment
<1>2. CASE Plan(w)
  <2>1. r \in Runs
    BY <1>2, JobOfBusy DEF Plan, At
  <2>2. BrokerType'
    BY <1>2, GotoType DEF Plan, At, Steps, Unlocked
  <2> QED
    BY <1>2, <2>1, <2>2 DEF Plan, Complete, TypeOK, RunType, ProviderType,
                            EnvironmentType, provider, environment, RunStates
<1>3. CASE SendSource(w)
  <2>1. r \in Runs
    BY <1>3, JobOfBusy DEF SendSource, At
  <2>2. Message("source", r) \in Messages
    BY <2>1, MessageType DEF Tasks
  <2>3. BrokerType'
    BY <1>3, <2>2, SendThenType DEF SendSource, At, Steps, Unlocked
  <2> QED
    BY <1>3, <2>3 DEF SendSource, TypeOK, RunType, ProviderType, EnvironmentType,
                      provider, environment, records
<1> QED
  BY <1>1, <1>2, <1>3 DEF PlanTask
LEMMA SourceTaskType ==
  ASSUME TypeOK, NEW w \in Workers, SourceTask(w)
  PROVE  TypeOK'
<1> DEFINE r == job[w].run
<1>1. CASE CheckProvider(w)
  <2>1. r \in Runs
    BY <1>1, JobOfBusy DEF CheckProvider, At
  <2>2. BrokerType'
    BY <1>1, GotoType DEF CheckProvider, At, Steps, Unlocked, SourceLocked, EnrichLocked
  <2>3. RunType'
    BY <1>1, SameRun DEF CheckProvider
  <2>4. ProviderType'
    BY <1>1, SameProvider DEF CheckProvider
  <2> QED
    BY <1>1, <2>2, <2>3, <2>4, MoveType DEF CheckProvider
<1>2. CASE SourceSkipped(w)
  <2>1. r \in Runs
    BY <1>2, JobOfBusy DEF SourceSkipped, At
  <2>2. BrokerType'
    BY <1>2, GotoType DEF SourceSkipped, At, Steps, Unlocked, SourceLocked, EnrichLocked
  <2>3. RunType'
    BY <1>2, <2>1 DEF SourceSkipped, TypeOK, RunType, Complete, records
  <2>4. ProviderType'
    BY <1>2, SameProvider DEF SourceSkipped
  <2> QED
    BY <1>2, <2>2, <2>3, <2>4, MoveType DEF SourceSkipped
<1>3. CASE OpenSource(w)
  <2>1. r \in Runs
    BY <1>3, JobOfBusy DEF OpenSource, At
  <2>2. BrokerType'
    BY <1>3, GotoType DEF OpenSource, At, Steps, Unlocked, SourceLocked, EnrichLocked
  <2>3. RunType'
    BY <1>3, SameRun DEF OpenSource
  <2>4. ProviderType'
    BY <1>3, SameProvider DEF OpenSource
  <2> QED
    BY <1>3, <2>2, <2>3, <2>4, MoveType DEF OpenSource
<1>4. CASE CheckPage(w)
  <2>1. r \in Runs
    BY <1>4, JobOfBusy DEF CheckPage, At
  <2>2. BrokerType'
    BY <1>4, GotoType DEF CheckPage, At, Steps, Unlocked, SourceLocked, EnrichLocked
  <2>3. RunType'
    BY <1>4, SameRun DEF CheckPage
  <2>4. ProviderType'
    BY <1>4, SameProvider DEF CheckPage
  <2> QED
    BY <1>4, <2>2, <2>3, <2>4, MoveType DEF CheckPage
<1>5. CASE ReservePage(w)
  <2>1. r \in Runs
    BY <1>5, JobOfBusy DEF ReservePage, At
  <2>2. BrokerType'
    BY <1>5, GotoType DEF ReservePage, At, Steps, Unlocked, SourceLocked, EnrichLocked
  <2>3. RunType'
    BY <1>5, SameRun DEF ReservePage
  <2>4. ProviderType'
    BY <1>5, <2>1 DEF ReservePage, TypeOK, ProviderType, ReservedNext
  <2> QED
    BY <1>5, <2>2, <2>3, <2>4, MoveType DEF ReservePage
<1>6. CASE ReserveExhausted(w)
  <2>1. r \in Runs
    BY <1>6, JobOfBusy DEF ReserveExhausted, At
  <2>2. BrokerType'
    BY <1>6, GotoType DEF ReserveExhausted, At, Steps, Unlocked, SourceLocked, EnrichLocked
  <2>3. RunType'
    BY <1>6, <2>1 DEF ReserveExhausted, TypeOK, RunType, BudgetExhausted, RunStates, records
  <2>4. ProviderType'
    BY <1>6, SameProvider DEF ReserveExhausted
  <2> QED
    BY <1>6, <2>2, <2>3, <2>4, MoveType DEF ReserveExhausted
<1>7. CASE SearchAnswers(w)
  <2>1. r \in Runs
    BY <1>7, JobOfBusy DEF SearchAnswers, At
  <2>2. BrokerType'
    BY <1>7, GotoType DEF SearchAnswers, At, Steps, Unlocked, SourceLocked, EnrichLocked
  <2>3. RunType'
    BY <1>7, SameRun DEF SearchAnswers
  <2>4. ProviderType'
    BY <1>7, <2>1 DEF SearchAnswers, TypeOK, ProviderType, CallProvider
  <2> QED
    BY <1>7, <2>2, <2>3, <2>4, MoveType DEF SearchAnswers
<1>8. CASE SearchFails(w)
  <2>1. r \in Runs /\ job[w] \in Messages
    BY <1>8, JobOfBusy DEF SearchFails, At
  <2>2. BrokerType'
    <3>1. CASE Goto(w, "disable") \/ Goto(w, "giveup")
      BY <1>8, <3>1, GotoType DEF SearchFails, At, Steps, Unlocked
    <3>2. CASE job[w].tries < MaxTries /\ GiveBack(w, Again(job[w]))
      BY <2>1, <3>2, AgainType, GiveBackType
    <3> QED
      BY <1>8, <3>1, <3>2 DEF SearchFails
  <2>3. RunType'
    BY <1>8, SameRun DEF SearchFails
  <2>4. ProviderType'
    BY <1>8, <2>1 DEF SearchFails, CallProvider, TypeOK, ProviderType
  <2> QED
    BY <1>8, <2>2, <2>3, <2>4, MoveType DEF SearchFails
<1>9. CASE DisableProvider(w)
  <2>1. r \in Runs
    BY <1>9, JobOfBusy DEF DisableProvider, At
  <2>2. BrokerType'
    BY <1>9, GotoType DEF DisableProvider, At, Steps, Unlocked, SourceLocked, EnrichLocked
  <2>3. RunType'
    BY <1>9, SameRun DEF DisableProvider
  <2>4. ProviderType'
    BY <1>9, <2>1 DEF DisableProvider, TypeOK, ProviderType
  <2> QED
    BY <1>9, <2>2, <2>3, <2>4, MoveType DEF DisableProvider
<1>10. CASE PageDiscarded(w)
  <2>1. r \in Runs
    BY <1>10, JobOfBusy DEF PageDiscarded, At
  <2>2. BrokerType'
    BY <1>10, GotoType DEF PageDiscarded, At, Steps, Unlocked, SourceLocked, EnrichLocked
  <2>3. RunType'
    BY <1>10, SameRun DEF PageDiscarded
  <2>4. ProviderType'
    BY <1>10, SameProvider DEF PageDiscarded
  <2> QED
    BY <1>10, <2>2, <2>3, <2>4, MoveType DEF PageDiscarded
<1>11. CASE RecordPage(w)
  <2>1. r \in Runs
    BY <1>11, JobOfBusy DEF RecordPage, At
  <2>2. BrokerType'
    BY <1>11, GotoType DEF RecordPage, At, Steps, SourceLocked
  <2>3. PICK page \in Pages, kept \in SUBSET People :
          /\ seen' = [seen EXCEPT ![r] = @ \cup Usable(kept)]
          /\ pages' = [pages EXCEPT ![r] = @ \cup {page}]
    BY <1>11, CatalogAssumption DEF RecordPage, NewPeople
  <2>5. RunType'
    BY <1>11, <2>1, <2>3 DEF RecordPage, Usable, TypeOK, RunType
  <2> QED
    BY <1>11, <2>2, <2>5, SameProvider, MoveType DEF RecordPage
<1>12. CASE FinishSource(w)
  <2>1. r \in Runs
    BY <1>12, JobOfBusy DEF FinishSource, FinishSteps
  <2>2. BrokerType'
    <3>1. pc[w] # "idle"
      BY <1>12 DEF FinishSource, FinishSteps
    <3>2. PICK where \in {"ack", "source_done"} : Goto(w, where)
      BY <1>12 DEF FinishSource
    <3>3. where \in Steps \ {"idle"}
      BY DEF Steps, Unlocked
    <3> QED
      BY <3>1, <3>2, <3>3, GotoType
  <2>3. FinishTarget(w) \in RunStates
    BY DEF FinishTarget, RunStates
  <2>4. RunType'
    BY <1>12, <2>1, <2>3 DEF FinishSource, Complete, TypeOK, RunType
  <2> QED
    BY <1>12, <2>2, <2>4, SameProvider, MoveType DEF FinishSource
<1>13. CASE SendMatch(w)
  <2>1. r \in Runs
    BY <1>13, JobOfBusy DEF SendMatch, At
  <2>2. Message("match", r) \in Messages
    BY <2>1, MessageType DEF Tasks
  <2>3. BrokerType'
    BY <1>13, <2>2, SendThenType, GotoType DEF SendMatch, At, Steps, Unlocked
  <2>4. RunType' /\ ProviderType'
    BY <1>13, SameRun, SameProvider DEF SendMatch
  <2> QED
    BY <1>13, <2>3, <2>4, MoveType DEF SendMatch
<1> QED
  BY <1>1, <1>2, <1>3, <1>4, <1>5, <1>6, <1>7, <1>8, <1>9, <1>10, <1>11, <1>12, <1>13 DEF SourceTask

LEMMA MatchTaskType ==
  ASSUME TypeOK, NEW w \in Workers, MatchTask(w)
  PROVE  TypeOK'
<1> DEFINE r == job[w].run
<1>1. CASE MatchSkipped(w)
  <2>1. r \in Runs
    BY <1>1, JobOfBusy DEF MatchSkipped, At
  <2>2. BrokerType'
    BY <1>1, GotoType DEF MatchSkipped, At, Steps, Unlocked, SourceLocked, EnrichLocked
  <2>3. RunType'
    BY <1>1, <2>1 DEF MatchSkipped, TypeOK, RunType, Complete
  <2>4. ProviderType'
    BY <1>1, SameProvider DEF MatchSkipped
  <2> QED
    BY <1>1, <2>2, <2>3, <2>4, MoveType DEF MatchSkipped
<1>2. CASE MatchOutdated(w)
  <2>1. r \in Runs
    BY <1>2, JobOfBusy DEF MatchOutdated, At
  <2>2. BrokerType'
    BY <1>2, GotoType DEF MatchOutdated, At, Steps, Unlocked, SourceLocked, EnrichLocked
  <2>3. RunType'
    BY <1>2, <2>1 DEF MatchOutdated, TypeOK, RunType, Complete, RunStates
  <2>4. ProviderType'
    BY <1>2, SameProvider DEF MatchOutdated
  <2> QED
    BY <1>2, <2>2, <2>3, <2>4, MoveType DEF MatchOutdated
<1>3. CASE ScoreBatch(w)
  <2>1. r \in Runs
    BY <1>3, JobOfBusy DEF ScoreBatch, At
  <2>2. Found(r) \subseteq Candidates
    BY <2>1, CatalogAssumption DEF Found, TypeOK, RunType
  <2>3. RunType'
    BY <1>3, <2>1, <2>2 DEF ScoreBatch, Unmatched, TypeOK, RunType
  <2>4. BrokerType'
    BY <1>3 DEF ScoreBatch, TypeOK, BrokerType
  <2> QED
    BY <1>3, <2>3, <2>4, SameProvider, MoveType DEF ScoreBatch
<1>4. CASE MatchCompletes(w)
  <2>1. r \in Runs
    BY <1>4, JobOfBusy DEF MatchCompletes, At
  <2>2. BrokerType'
    BY <1>4, GotoType DEF MatchCompletes, At, Steps, Unlocked, SourceLocked, EnrichLocked
  <2>3. RunType'
    BY <1>4, <2>1 DEF MatchCompletes, TypeOK, RunType, Complete, RunStates
  <2>4. ProviderType'
    BY <1>4, SameProvider DEF MatchCompletes
  <2> QED
    BY <1>4, <2>2, <2>3, <2>4, MoveType DEF MatchCompletes
<1>5. CASE SendEnrich(w)
  <2>1. r \in Runs
    BY <1>5, JobOfBusy DEF SendEnrich, At
  <2>2. Message("enrich", r) \in Messages
    BY <2>1, MessageType DEF Tasks
  <2>3. BrokerType'
    BY <1>5, <2>2, SendThenType, GotoType DEF SendEnrich, At, Steps, Unlocked
  <2>4. RunType' /\ ProviderType'
    BY <1>5, SameRun, SameProvider DEF SendEnrich
  <2> QED
    BY <1>5, <2>3, <2>4, MoveType DEF SendEnrich
<1> QED
  BY <1>1, <1>2, <1>3, <1>4, <1>5 DEF MatchTask

LEMMA EnrichTaskType ==
  ASSUME TypeOK, NEW w \in Workers, EnrichTask(w)
  PROVE  TypeOK'
<1> DEFINE r == job[w].run
<1>1. CASE BeginEnrich(w)
  <2>1. r \in Runs
    BY <1>1, JobOfBusy DEF BeginEnrich, At
  <2>2. BrokerType'
    BY <1>1, GotoType DEF BeginEnrich, At, Steps, Unlocked, SourceLocked, EnrichLocked
  <2>3. RunType'
    BY <1>1, SameRun DEF BeginEnrich
  <2>4. ProviderType'
    BY <1>1, SameProvider DEF BeginEnrich
  <2> QED
    BY <1>1, <2>2, <2>3, <2>4, MoveType DEF BeginEnrich
<1>2. CASE SelectTop(w)
  <2>1. r \in Runs
    BY <1>2, JobOfBusy DEF SelectTop, At
  <2>2. BrokerType'
    BY <1>2, GotoType DEF SelectTop, At, Steps, Unlocked, SourceLocked, EnrichLocked
  <2>3. RunType'
    BY <1>2, SameRun DEF SelectTop
  <2>4. ProviderType'
    BY <1>2, SameProvider DEF SelectTop
  <2> QED
    BY <1>2, <2>2, <2>3, <2>4, MoveType DEF SelectTop
<1>3. CASE FinishEmpty(w)
  <2>1. r \in Runs
    BY <1>3, JobOfBusy DEF FinishEmpty, At
  <2>2. BrokerType'
    BY <1>3, GotoType DEF FinishEmpty, At, Steps, Unlocked, SourceLocked, EnrichLocked
  <2>3. RunType'
    BY <1>3, <2>1 DEF FinishEmpty, TypeOK, RunType, RunStates, records
  <2>4. ProviderType'
    BY <1>3, SameProvider DEF FinishEmpty
  <2> QED
    BY <1>3, <2>2, <2>3, <2>4, MoveType DEF FinishEmpty
<1>4. CASE PrepareNothing(w)
  <2>1. r \in Runs
    BY <1>4, JobOfBusy DEF PrepareNothing, At
  <2>2. BrokerType'
    BY <1>4, GotoType DEF PrepareNothing, At, Steps, Unlocked, SourceLocked, EnrichLocked
  <2>3. RunType'
    BY <1>4, SameRun DEF PrepareNothing
  <2>4. ProviderType'
    BY <1>4, SameProvider DEF PrepareNothing
  <2> QED
    BY <1>4, <2>2, <2>3, <2>4, MoveType DEF PrepareNothing
<1>5. CASE PrepareRequest(w)
  <2>1. r \in Runs
    BY <1>5, JobOfBusy DEF PrepareRequest, At
  <2>2. BrokerType'
    BY <1>5, GotoType DEF PrepareRequest, At, Steps, Unlocked, SourceLocked, EnrichLocked
  <2>3. RunType'
    BY <1>5, <2>1 DEF PrepareRequest, TypeOK, RunType, SetRequest, Statuses, Open, Kinds, records
  <2>4. ProviderType'
    BY <1>5, SameProvider DEF PrepareRequest
  <2> QED
    BY <1>5, <2>2, <2>3, <2>4, MoveType DEF PrepareRequest
<1>6. CASE PrepareExhausted(w)
  <2>1. r \in Runs
    BY <1>6, JobOfBusy DEF PrepareExhausted, At
  <2>2. BrokerType'
    BY <1>6, GotoType DEF PrepareExhausted, At, Steps, Unlocked, SourceLocked, EnrichLocked
  <2>3. RunType'
    BY <1>6, <2>1 DEF PrepareExhausted, TypeOK, RunType, SetRequest, Statuses, Open, Kinds, records, BudgetExhausted, RunStates
  <2>4. ProviderType'
    BY <1>6, SameProvider DEF PrepareExhausted
  <2> QED
    BY <1>6, <2>2, <2>3, <2>4, MoveType DEF PrepareExhausted
<1>7. CASE PrepareAmbiguous(w)
  <2>1. r \in Runs
    BY <1>7, JobOfBusy DEF PrepareAmbiguous, At
  <2>2. BrokerType'
    BY <1>7, GotoType DEF PrepareAmbiguous, At, Steps, Unlocked, SourceLocked, EnrichLocked
  <2>3. RunType'
    BY <1>7, <2>1 DEF PrepareAmbiguous, TypeOK, RunType, SetRequest, Statuses, Open, Kinds, records
  <2>4. ProviderType'
    BY <1>7, SameProvider DEF PrepareAmbiguous
  <2> QED
    BY <1>7, <2>2, <2>3, <2>4, MoveType DEF PrepareAmbiguous
<1>8. CASE SubmitWithdrawn(w)
  <2>1. r \in Runs
    BY <1>8, JobOfBusy DEF SubmitWithdrawn, At
  <2>2. BrokerType'
    BY <1>8, GotoType DEF SubmitWithdrawn, At, Steps, Unlocked, SourceLocked, EnrichLocked
  <2>3. RunType'
    BY <1>8, <2>1 DEF SubmitWithdrawn, TypeOK, RunType, SetRequest, Statuses, Open, Kinds, records
  <2>4. ProviderType'
    BY <1>8, SameProvider DEF SubmitWithdrawn
  <2> QED
    BY <1>8, <2>2, <2>3, <2>4, MoveType DEF SubmitWithdrawn
<1>9. CASE Submit(w)
  <2>1. r \in Runs
    BY <1>9, JobOfBusy DEF Submit, At
  <2>2. PICK outcome \in EnrichOutcomes :
          /\ SetRequest(r, "auto", CASE outcome = "deferred" -> "submitting"
                                     [] outcome = "rate_limited" -> "queued"
                                     [] outcome = "auth" -> "failed"
                                     [] OTHER -> outcome)
          /\ Goto(w, CASE outcome \in {"deferred", "rate_limited"} -> "defer"
                       [] outcome = "auth" -> "refused"
                       [] OTHER -> "finalize")
    BY <1>9 DEF Submit
  <2>3. BrokerType'
    BY <1>9, <2>2, GotoType DEF Submit, At, Steps, EnrichLocked
  <2>4. RunType'
    BY <1>9, <2>1, <2>2, EnvironmentAssumption
    DEF Submit, TypeOK, RunType, SetRequest, Statuses, Open, records
  <2> QED
    BY <1>9, <2>3, <2>4, SameProvider, MoveType DEF Submit
<1>10. CASE SendRetry(w)
  <2>1. r \in Runs
    BY <1>10, JobOfBusy DEF SendRetry, At
  <2>2. Message("enrich", r) \in Messages
    BY <2>1, MessageType DEF Tasks
  <2>3. BrokerType'
    BY <1>10, <2>2, SendThenType, GotoType DEF SendRetry, At, Steps, Unlocked
  <2>4. RunType' /\ ProviderType'
    BY <1>10, SameRun, SameProvider DEF SendRetry
  <2> QED
    BY <1>10, <2>3, <2>4, MoveType DEF SendRetry
<1>11. CASE Finalize(w)
  <2>1. r \in Runs
    BY <1>11, JobOfBusy DEF Finalize
  <2>2. BrokerType'
    BY <1>11, GotoType DEF Finalize, Steps, Unlocked, EnrichLocked
  <2>3. RunType'
    BY <1>11, <2>1 DEF Finalize, Finalized, TypeOK, RunType, RunStates, records
  <2> QED
    BY <1>11, <2>2, <2>3, SameProvider, MoveType DEF Finalize
<1>12. CASE FailActive(w)
  <2>1. r \in Runs
    BY <1>12, JobOfBusy DEF FailActive, At
  <2>2. BrokerType'
    BY <1>12, GotoType DEF FailActive, At, Steps, Unlocked, SourceLocked, EnrichLocked
  <2>3. RunType'
    BY <1>12, <2>1 DEF FailActive, TypeOK, RunType, Statuses, records
  <2>4. ProviderType'
    BY <1>12, SameProvider DEF FailActive
  <2> QED
    BY <1>12, <2>2, <2>3, <2>4, MoveType DEF FailActive
<1>13. CASE MarkProviderDisabled(w)
  <2>1. r \in Runs
    BY <1>13, JobOfBusy DEF MarkProviderDisabled, At
  <2>2. BrokerType'
    BY <1>13, GotoType DEF MarkProviderDisabled, At, Steps, Unlocked, SourceLocked, EnrichLocked
  <2>3. RunType'
    BY <1>13, <2>1 DEF MarkProviderDisabled, TypeOK, RunType, RunStates, records
  <2>4. ProviderType'
    BY <1>13, SameProvider DEF MarkProviderDisabled
  <2> QED
    BY <1>13, <2>2, <2>3, <2>4, MoveType DEF MarkProviderDisabled
<1> QED
  BY <1>1, <1>2, <1>3, <1>4, <1>5, <1>6, <1>7, <1>8, <1>9, <1>10, <1>11, <1>12, <1>13 DEF EnrichTask

LEMMA WorldType ==
  ASSUME TypeOK, World
  PROVE  TypeOK'
<1>1. CASE \E r \in Runs : PublishPlan(r)
  <2>1. PICK r \in Runs : PublishPlan(r)
    BY <1>1
  <2>2. Message("plan", r) \in Messages
    BY MessageType DEF Tasks
  <2> QED
    BY <2>1, <2>2 DEF PublishPlan, Put, TypeOK, RunType, ProviderType, BrokerType,
                      EnvironmentType, provider, records
<1>2. CASE \E r \in Runs : Cancel(r)
  BY <1>2 DEF Cancel, TypeOK, RunType, ProviderType, BrokerType, EnvironmentType,
              provider, records, environment, RunStates
<1>3. CASE \E r \in Runs : QueueOnDemand(r)
  BY <1>3 DEF QueueOnDemand, SetRequest, TypeOK, RunType, ProviderType, BrokerType,
              EnvironmentType, provider, records, environment, Statuses, Open, Kinds
<1>4. CASE \E r \in Runs, kind \in Kinds : SettleRequest(r, kind)
  <2>1. PICK r \in Runs, kind \in Kinds : SettleRequest(r, kind)
    BY <1>4
  <2>2. PICK outcome \in {"completed", "failed"} :
          LET now == [requests[r] EXCEPT ![kind] = outcome] IN
          /\ requests' = [requests EXCEPT ![r] = now]
          /\ state' = [state EXCEPT ![r] = Finalized(r, now)]
    BY <2>1 DEF SettleRequest
  <2>3. \A now : Finalized(r, now) \in RunStates
    BY DEF Finalized, TypeOK, RunType, RunStates
  <2> QED
    BY <2>1, <2>2, <2>3 DEF SettleRequest, TypeOK, RunType, ProviderType, BrokerType,
         EnvironmentType, provider, records, environment, Statuses
<1>5. CASE \E w \in Workers : Crash(w)
  <2>1. PICK w \in Workers : Crash(w)
    BY <1>5
  <2>2. BrokerType'
    BY <2>1, JobOfBusy, GiveBackType DEF Crash, Busy
  <2> QED
    BY <2>1, <2>2 DEF Crash, TypeOK, RunType, ProviderType, EnvironmentType, provider,
                      records
<1>6. CASE \E w \in Workers : DatabaseFailure(w)
  <2>1. PICK w \in Workers : DatabaseFailure(w)
    BY <1>6
  <2>2. BrokerType'
    BY <2>1, JobOfBusy, GiveBackType, DropType, AgainType DEF DatabaseFailure
  <2> QED
    BY <2>1, <2>2 DEF DatabaseFailure, TypeOK, RunType, ProviderType, EnvironmentType,
                      provider, records
<1>7. CASE \E w \in Workers : Redeliver(w)
  <2>1. PICK w \in Workers : Redeliver(w)
    BY <1>7
  <2>2. job[w] \in Messages
    BY <2>1, JobOfBusy DEF Redeliver, Busy
  <2> QED
    BY <2>1, <2>2 DEF Redeliver, Put, TypeOK, RunType, ProviderType, BrokerType,
                      EnvironmentType, provider, records
<1> QED
  BY <1>1, <1>2, <1>3, <1>4, <1>5, <1>6, <1>7 DEF World

LEMMA DropStepType ==
  ASSUME TypeOK, NEW w \in Workers, Acknowledge(w) \/ Reject(w)
  PROVE  TypeOK'
BY DropType, SameRun, SameProvider, MoveType DEF Acknowledge, Reject

LEMMA NextType ==
  ASSUME TypeOK, [Next]_vars
  PROVE  TypeOK'
<1>1. CASE UNCHANGED vars
  BY <1>1 DEF vars, TypeOK, RunType, ProviderType, BrokerType, EnvironmentType,
              provider, records, environment
<1>2. CASE World
  BY <1>2, WorldType
<1>3. CASE \E w \in Workers : Work(w)
  BY <1>3, TakeType, PlanTaskType, SourceTaskType, MatchTaskType, EnrichTaskType,
     DropStepType DEF Work
<1> QED
  BY <1>1, <1>2, <1>3 DEF Next

\* Every variable keeps its type, and no suppressed person is ever recorded.
THEOREM TypeCorrect == Spec => []TypeOK
<1>1. Init => TypeOK
  BY InitType
<1>2. TypeOK /\ [Next]_vars => TypeOK'
  BY NextType
<1> QED
  BY <1>1, <1>2, PTL DEF Spec
-----------------------------------------------------------------------------
(* Spending: a reservation is made for each search before it is begun, so    *)
(* the searches made and the searches about to be made are all reserved.     *)

Searching == {w \in Workers : pc[w] = "search"}

SpendInv == searches + Cardinality(Searching) <= reserved /\ reserved <= SearchCap

LEMMA SearchingFinite == IsFiniteSet(Searching) /\ Cardinality(Searching) \in Nat
BY EnvironmentAssumption, FS_Subset, FS_CardinalityType DEF Searching

Spends(w) == ReservePage(w) \/ SearchAnswers(w) \/ SearchFails(w)

\* No other step brings a worker to a search.
LEMMA NoNewSearch ==
  ASSUME TypeOK, Next, \A w \in Workers : ~ Spends(w)
  PROVE  Searching' \subseteq Searching /\ UNCHANGED <<reserved, searches>>
<1>1. CASE World
  BY <1>1 DEF World, PublishPlan, Cancel, QueueOnDemand, SettleRequest, Crash,
     DatabaseFailure, Redeliver, GiveBack, Drop, Release, Searching, provider,
     TypeOK, BrokerType
<1>2. ASSUME NEW w \in Workers, Work(w)
      PROVE  Searching' \subseteq Searching /\ UNCHANGED <<reserved, searches>>
  <2>1. CASE Take(w)
    BY <2>1 DEF Take, Searching, provider, TypeOK, BrokerType, Messages, Tasks
  <2>2. CASE Acknowledge(w) \/ Reject(w)
    BY <2>2 DEF Acknowledge, Reject, Drop, Release, Searching, provider, TypeOK,
                BrokerType
  <2>3. CASE PlanTask(w)
    BY <2>3 DEF PlanTask, PlanSkipped, Plan, SendSource, AfterReplay, Goto, SendThen,
                Searching, provider, TypeOK, BrokerType
  <2>4. CASE SourceTask(w)
    BY <2>4 DEF SourceTask, Spends, CheckProvider, SourceSkipped, OpenSource, CheckPage,
                ReserveExhausted, DisableProvider, PageDiscarded, RecordPage,
                FinishSource, SendMatch, Goto, SendThen, Searching, provider, TypeOK,
                BrokerType
  <2>5. CASE MatchTask(w)
    BY <2>5 DEF MatchTask, MatchSkipped, MatchOutdated, ScoreBatch, MatchCompletes,
                SendEnrich, Goto, SendThen, Searching, provider, TypeOK, BrokerType
  <2>6. CASE EnrichTask(w)
    BY <2>6 DEF EnrichTask, BeginEnrich, SelectTop, FinishEmpty, PrepareNothing,
                PrepareRequest, PrepareExhausted, PrepareAmbiguous, SubmitWithdrawn,
                Submit, SendRetry, Finalize, FailActive, MarkProviderDisabled, Goto,
                SendThen, Searching, provider, TypeOK, BrokerType
  <2> QED
    BY <1>2, <2>1, <2>2, <2>3, <2>4, <2>5, <2>6 DEF Work
<1> QED
  BY <1>1, <1>2 DEF Next

LEMMA SpendStep ==
  ASSUME TypeOK, SpendInv, [Next]_vars
  PROVE  SpendInv'
<1>. reserved \in Nat /\ searches \in Nat /\ SearchCap \in Nat
  BY LimitAssumption DEF TypeOK, ProviderType
<1>1. CASE UNCHANGED vars
  BY <1>1 DEF vars, SpendInv, Searching, provider
<1>2. ASSUME NEW w \in Workers, ReservePage(w)
      PROVE  SpendInv'
  <2>1. Searching' = Searching \cup {w} /\ w \notin Searching
    BY <1>2 DEF ReservePage, At, Goto, Searching, TypeOK, BrokerType
  <2>2. Cardinality(Searching') = Cardinality(Searching) + 1
    BY <2>1, SearchingFinite, FS_AddElement
  <2> QED
    BY <1>2, <2>2, SearchingFinite DEF ReservePage, ReservedNext, SpendInv
<1>3. ASSUME NEW w \in Workers, SearchAnswers(w) \/ SearchFails(w)
      PROVE  SpendInv'
  <2>1. Searching' = Searching \ {w} /\ w \in Searching
    BY <1>3 DEF SearchAnswers, SearchFails, At, Goto, GiveBack, Release, Searching,
                TypeOK, BrokerType
  <2>2. Cardinality(Searching') = Cardinality(Searching) - 1
    BY <2>1, SearchingFinite, FS_RemoveElement
  <2> QED
    BY <1>3, <2>2, SearchingFinite DEF SearchAnswers, SearchFails, CallProvider, SpendInv
<1>4. CASE Next /\ \A w \in Workers : ~ Spends(w)
  <2>1. Searching' \subseteq Searching /\ UNCHANGED <<reserved, searches>>
    BY <1>4, NoNewSearch
  <2>2. Cardinality(Searching') \in Nat /\ Cardinality(Searching') <= Cardinality(Searching)
    BY <2>1, SearchingFinite, FS_Subset, FS_CardinalityType
  <2> QED
    BY <2>1, <2>2, SearchingFinite DEF SpendInv
<1> QED
  BY <1>1, <1>2, <1>3, <1>4 DEF Spends

\* The provider is never called without a reservation of its own, and the cap
\* on search pages bounds the calls made.
THEOREM SpendingBounded == Spec => []SpendWithinCap
<1>1. Init => SpendInv
  <2> SUFFICES ASSUME Init PROVE SpendInv
    OBVIOUS
  <2>1. Searching = {}
    BY DEF Init, Searching
  <2>2. Cardinality(Searching) = 0
    BY <2>1, FS_EmptySet
  <2>3. searches = 0 /\ reserved = 0
    BY DEF Init
  <2> QED
    BY <2>2, <2>3, LimitAssumption DEF SpendInv
<1>2. TypeOK /\ SpendInv /\ [Next]_vars => SpendInv'
  BY SpendStep
<1>3. TypeOK /\ SpendInv => SpendWithinCap
  BY SearchingFinite, LimitAssumption
  DEF SpendInv, SpendWithinCap, TypeOK, ProviderType
<1> QED
  BY <1>1, <1>2, <1>3, TypeCorrect, PTL DEF Spec
-----------------------------------------------------------------------------
(* Checkpoints: source_run may end a run in any state that transition_run    *)
(* accepts, "queued" among them, so the invariant also says that nothing but *)
(* plan_run is under way for a run that is still queued.                     *)

QueuedAwaitsPlan ==
  \A r \in Runs : state[r] = "queued" =>
    /\ \A m \in Messages : m.run = r /\ queue[m] > 0 => m.task = "plan"
    /\ \A w \in Workers : pc[w] # "idle" /\ job[w].run = r =>
                            pc[w] = "plan" /\ job[w].task = "plan"

CheckpointInv == CheckpointsFollowState /\ QueuedAwaitsPlan

\* A step of a worker that holds a message of r leaves the other runs alone.
LEMMA CheckpointTake ==
  ASSUME TypeOK, CheckpointInv, NEW w \in Workers, Take(w)
  PROVE  CheckpointInv'
<1>1. PICK m \in Messages : /\ queue[m] > 0
                           /\ queue' = [queue EXCEPT ![m] = @ - 1]
                           /\ job' = [job EXCEPT ![w] = m]
                           /\ pc' = [pc EXCEPT ![w] = m.task]
  BY DEF Take
<1>2. CheckpointsFollowState'
  BY DEF Take, CheckpointInv, CheckpointsFollowState, records
<1>3. QueuedAwaitsPlan'
  BY <1>1 DEF Take, CheckpointInv, QueuedAwaitsPlan, TypeOK, BrokerType
<1> QED
  BY <1>2, <1>3 DEF CheckpointInv

LEMMA CheckpointDrop ==
  ASSUME TypeOK, CheckpointInv, NEW w \in Workers, Acknowledge(w) \/ Reject(w)
  PROVE  CheckpointInv'
BY DEF Acknowledge, Reject, Drop, Release, CheckpointInv, CheckpointsFollowState,
       QueuedAwaitsPlan, TypeOK, BrokerType, records

LEMMA CheckpointPlan ==
  ASSUME TypeOK, CheckpointInv, NEW w \in Workers, PlanTask(w)
  PROVE  CheckpointInv'
<1> DEFINE r == job[w].run
<1>1. CASE PlanSkipped(w)
  BY <1>1 DEF PlanSkipped, AfterReplay, Complete, Goto, At, Cancelled, CheckpointInv,
     CheckpointsFollowState, QueuedAwaitsPlan, TypeOK, BrokerType, RunType
<1>2. CASE Plan(w)
  <2>1. r \in Runs
    BY <1>2, JobOfBusy DEF Plan, At
  <2> QED
    BY <1>2, <2>1 DEF Plan, Complete, Goto, At, CheckpointInv, CheckpointsFollowState,
       QueuedAwaitsPlan, TypeOK, BrokerType, RunType
<1>3. CASE SendSource(w)
  <2>1. r \in Runs /\ Message("source", r) \in Messages
    BY <1>3, JobOfBusy, MessageType DEF SendSource, At, Tasks
  <2> QED
    BY <1>3, <2>1 DEF SendSource, SendThen, Put, Message, At, CheckpointInv,
       CheckpointsFollowState, QueuedAwaitsPlan, TypeOK, BrokerType, RunType, records
<1> QED
  BY <1>1, <1>2, <1>3 DEF PlanTask
\* A worker that moves on within its task, and changes neither state nor stage.
LEMMA CheckpointGoto ==
  ASSUME TypeOK, CheckpointInv, NEW w \in Workers, pc[w] \notin {"idle", "plan"},
         UNCHANGED <<state, checkpoints>>, NEW where, Goto(w, where)
  PROVE  CheckpointInv'
BY DEF Goto, CheckpointInv, CheckpointsFollowState, QueuedAwaitsPlan, TypeOK, BrokerType

\* A worker that moves on and moves its run's state, never to "queued".
LEMMA QueuedGoto ==
  ASSUME TypeOK, CheckpointInv, NEW w \in Workers, NEW where, Goto(w, where),
         NEW target \in RunStates \ {"queued"}, pc[w] # "idle",
         state' = [state EXCEPT ![job[w].run] = target]
  PROVE  QueuedAwaitsPlan'
BY JobOfBusy DEF Goto, CheckpointInv, QueuedAwaitsPlan, TypeOK, BrokerType, RunType

Advances(current, target) ==
  /\ current \in {"sourcing", "matching", "enriching", "partially_ready"}
  /\ target \in {"partially_ready", "ready"}

\* A worker that moves on and ends or interrupts a stage of its run.
LEMMA CheckpointAdvance ==
  ASSUME TypeOK, CheckpointInv, NEW w \in Workers, pc[w] \notin {"idle", "plan"},
         NEW where, Goto(w, where), UNCHANGED checkpoints, NEW target,
         state' = [state EXCEPT ![job[w].run] = target],
         target = state[job[w].run] \/ Advances(state[job[w].run], target)
  PROVE  CheckpointInv'
<1>1. job[w].run \in Runs
  BY JobOfBusy
<1>2. state[job[w].run] \in RunStates \ {"queued"}
  BY <1>1 DEF CheckpointInv, QueuedAwaitsPlan, TypeOK, RunType
<1>3. target \in RunStates \ {"queued"}
  BY <1>2 DEF Advances, RunStates
<1>4. CheckpointsFollowState'
  BY <1>1, <1>2 DEF Advances, CheckpointInv, CheckpointsFollowState, TypeOK, RunType
<1>5. QueuedAwaitsPlan'
  BY <1>3, QueuedGoto
<1> QED
  BY <1>4, <1>5 DEF CheckpointInv

LEMMA OnlySourcingIsMatched ==
  ASSUME NEW current \in RunStates, CanMove(current, "matching")
  PROVE  current = "sourcing"
BY DEF CanMove, AllowedTransitions, RunStates

LEMMA CheckpointSource ==
  ASSUME TypeOK, CheckpointInv, NEW w \in Workers, SourceTask(w)
  PROVE  CheckpointInv'
<1> DEFINE r == job[w].run
<1>1. CASE SourceSkipped(w)
  BY <1>1 DEF SourceSkipped, Complete, Goto, At, Cancelled, CheckpointInv, records,
     CheckpointsFollowState, QueuedAwaitsPlan, TypeOK, BrokerType, RunType
<1>2. CASE ReserveExhausted(w)
  BY <1>2 DEF ReserveExhausted, BudgetExhausted, Goto, At, CheckpointInv, records,
     CheckpointsFollowState, QueuedAwaitsPlan, TypeOK, BrokerType, RunType
<1>3. CASE SearchFails(w)
  <2>1. r \in Runs /\ job[w] \in Messages
    BY <1>3, JobOfBusy DEF SearchFails, At
  <2>2. state[r] # "queued"
    BY <1>3, <2>1 DEF SearchFails, At, CheckpointInv, QueuedAwaitsPlan
  <2>3. CheckpointsFollowState'
    BY <1>3 DEF SearchFails, CheckpointInv, CheckpointsFollowState, records
  <2>4. CASE Goto(w, "disable") \/ Goto(w, "giveup")
    BY <1>3, <2>2, <2>3, <2>4 DEF SearchFails, Goto, CheckpointInv, QueuedAwaitsPlan,
       TypeOK, BrokerType, RunType
  <2>5. CASE GiveBack(w, Again(job[w]))
    BY <1>3, <2>1, <2>2, <2>3, <2>5
    DEF SearchFails, GiveBack, Release, Put, Again, Messages, CheckpointInv,
        QueuedAwaitsPlan, TypeOK, BrokerType, RunType
  <2> QED
    BY <1>3, <2>4, <2>5 DEF SearchFails
<1>4. CASE FinishSource(w)
  <2>1. r \in Runs
    BY <1>4, JobOfBusy DEF FinishSource, FinishSteps
  <2>2. state[r] # "queued"
    BY <1>4, <2>1 DEF FinishSource, FinishSteps, CheckpointInv, QueuedAwaitsPlan
  <2>3. /\ state'[r] \in {"cancelled", "partially_ready", "failed", "matching"}
        /\ state'[r] = "matching" => state[r] = "sourcing"
        /\ state[r] = "cancelled" => state'[r] = "cancelled"
    BY <1>4, <2>1, OnlySourcingIsMatched
    DEF FinishSource, FinishTarget, FinishSteps, FinishRefused, Cancelled, TypeOK, RunType
  <2> QED
    BY <1>4, <2>1, <2>2, <2>3 DEF FinishSource, Complete, Goto, CheckpointInv,
       CheckpointsFollowState, QueuedAwaitsPlan, TypeOK, BrokerType, RunType
<1>5. CASE SendMatch(w)
  <2>1. r \in Runs /\ Message("match", r) \in Messages
    BY <1>5, JobOfBusy, MessageType DEF SendMatch, At, Tasks
  <2> QED
    BY <1>5, <2>1 DEF SendMatch, SendThen, Goto, Put, Message, At, CheckpointInv,
       CheckpointsFollowState, QueuedAwaitsPlan, TypeOK, BrokerType, RunType, records
<1>6. CASE \/ CheckProvider(w) \/ OpenSource(w) \/ CheckPage(w) \/ ReservePage(w)
           \/ SearchAnswers(w) \/ DisableProvider(w) \/ PageDiscarded(w) \/ RecordPage(w)
  BY <1>6 DEF CheckProvider, OpenSource, CheckPage, ReservePage, SearchAnswers,
     DisableProvider, PageDiscarded, RecordPage, Goto, At, CheckpointInv,
     CheckpointsFollowState, QueuedAwaitsPlan, TypeOK, BrokerType, RunType, records
<1> QED
  BY <1>1, <1>2, <1>3, <1>4, <1>5, <1>6 DEF SourceTask

LEMMA CheckpointMatch ==
  ASSUME TypeOK, CheckpointInv, NEW w \in Workers, MatchTask(w)
  PROVE  CheckpointInv'
<1> DEFINE r == job[w].run
<1>1. CASE MatchSkipped(w)
  BY <1>1 DEF MatchSkipped, Complete, Goto, At, Cancelled, CheckpointInv,
     CheckpointsFollowState, QueuedAwaitsPlan, TypeOK, BrokerType, RunType
<1>2. CASE MatchOutdated(w) \/ MatchCompletes(w)
  <2>1. r \in Runs
    BY <1>2, JobOfBusy DEF MatchOutdated, MatchCompletes, At
  <2>2. "plan" \in checkpoints[r]
    BY <1>2, <2>1 DEF MatchOutdated, MatchCompletes, Matchable, CheckpointInv,
                      CheckpointsFollowState
  <2>3. /\ state' = [state EXCEPT ![r] = state'[r]]
        /\ state'[r] \in {"failed", "enriching"}
        /\ checkpoints' = [checkpoints EXCEPT ![r] = @ \cup {"match"}]
    BY <1>2, <2>1 DEF MatchOutdated, MatchCompletes, Complete, TypeOK, RunType
  <2>4. CheckpointsFollowState'
    BY <2>1, <2>2, <2>3 DEF CheckpointInv, CheckpointsFollowState, TypeOK, RunType
  <2>5. Goto(w, "match_done") /\ pc[w] # "idle"
    BY <1>2 DEF MatchOutdated, MatchCompletes, At
  <2>6. QueuedAwaitsPlan'
    BY <2>3, <2>5, QueuedGoto DEF RunStates
  <2> QED
    BY <2>4, <2>6 DEF CheckpointInv
<1>3. CASE ScoreBatch(w)
  BY <1>3 DEF ScoreBatch, CheckpointInv, CheckpointsFollowState, QueuedAwaitsPlan
<1>4. CASE SendEnrich(w)
  <2>1. r \in Runs /\ Message("enrich", r) \in Messages
    BY <1>4, JobOfBusy, MessageType DEF SendEnrich, At, Tasks
  <2> QED
    BY <1>4, <2>1 DEF SendEnrich, SendThen, Goto, Put, Message, At, CheckpointInv,
       CheckpointsFollowState, QueuedAwaitsPlan, TypeOK, BrokerType, RunType, records
<1> QED
  BY <1>1, <1>2, <1>3, <1>4 DEF MatchTask

LEMMA CheckpointEnrich ==
  ASSUME TypeOK, CheckpointInv, NEW w \in Workers, EnrichTask(w)
  PROVE  CheckpointInv'
<1> DEFINE r == job[w].run
<1>1. r \in Runs /\ pc[w] \notin {"idle", "plan"}
  BY JobOfBusy DEF EnrichTask, BeginEnrich, SelectTop, FinishEmpty, PrepareNothing,
     PrepareRequest, PrepareExhausted, PrepareAmbiguous, SubmitWithdrawn, Submit,
     SendRetry, Finalize, FailActive, MarkProviderDisabled, At
<1>2. state[r] # "queued"
  BY <1>1 DEF CheckpointInv, QueuedAwaitsPlan
<1>3. CASE SendRetry(w)
  <2>1. Message("enrich", r) \in Messages
    BY <1>1, MessageType DEF Tasks
  <2> QED
    BY <1>1, <1>2, <1>3, <2>1 DEF SendRetry, SendThen, Put, Message, At, CheckpointInv,
       CheckpointsFollowState, QueuedAwaitsPlan, TypeOK, BrokerType, RunType, records
<1>4. CASE \/ BeginEnrich(w) \/ SelectTop(w) \/ PrepareNothing(w) \/ PrepareRequest(w)
           \/ PrepareAmbiguous(w) \/ SubmitWithdrawn(w) \/ Submit(w) \/ FailActive(w)
  <2>1. UNCHANGED <<state, checkpoints>> /\ \E where : Goto(w, where)
    BY <1>4 DEF BeginEnrich, SelectTop, PrepareNothing, PrepareRequest,
       PrepareAmbiguous, SubmitWithdrawn, Submit, FailActive, records
  <2> QED
    BY <1>1, <2>1, CheckpointGoto
<1>5. CASE FinishEmpty(w)
  <2> DEFINE target == IF state[r] = "enriching" THEN "ready" ELSE state[r]
  <2>1. state' = [state EXCEPT ![r] = target]
    BY <1>5 DEF FinishEmpty
  <2>2. target = state[r] \/ Advances(state[r], target)
    BY DEF Advances
  <2>3. UNCHANGED checkpoints /\ \E where : Goto(w, where)
    BY <1>5 DEF FinishEmpty, records
  <2> HIDE DEF target
  <2> QED
    BY <1>1, <2>1, <2>2, <2>3, CheckpointAdvance
<1>6. CASE PrepareExhausted(w)
  <2> DEFINE target == BudgetExhausted(state[r])
  <2>1. state' = [state EXCEPT ![r] = target]
    BY <1>6 DEF PrepareExhausted
  <2>2. target = state[r] \/ Advances(state[r], target)
    BY DEF Advances, BudgetExhausted
  <2>3. UNCHANGED checkpoints /\ \E where : Goto(w, where)
    BY <1>6 DEF PrepareExhausted, records
  <2> HIDE DEF target
  <2> QED
    BY <1>1, <2>1, <2>2, <2>3, CheckpointAdvance
<1>7. CASE MarkProviderDisabled(w)
  <2> DEFINE target == IF state[r] = "enriching" THEN "partially_ready" ELSE state[r]
  <2>1. state' = [state EXCEPT ![r] = target]
    BY <1>7 DEF MarkProviderDisabled
  <2>2. target = state[r] \/ Advances(state[r], target)
    BY DEF Advances
  <2>3. UNCHANGED checkpoints /\ \E where : Goto(w, where)
    BY <1>7 DEF MarkProviderDisabled, records
  <2> HIDE DEF target
  <2> QED
    BY <1>1, <2>1, <2>2, <2>3, CheckpointAdvance
<1>8. CASE Finalize(w)
  <2> DEFINE target == Finalized(r, requests[r])
  <2>1. state' = [state EXCEPT ![r] = target]
    BY <1>8 DEF Finalize
  <2>2. target = state[r] \/ Advances(state[r], target)
    BY DEF Advances, Finalized
  <2>3. UNCHANGED checkpoints /\ \E where : Goto(w, where)
    BY <1>8 DEF Finalize, records
  <2> HIDE DEF target
  <2> QED
    BY <1>1, <2>1, <2>2, <2>3, CheckpointAdvance
<1> QED
  BY <1>3, <1>4, <1>5, <1>6, <1>7, <1>8 DEF EnrichTask

LEMMA CheckpointWorld ==
  ASSUME TypeOK, CheckpointInv, World
  PROVE  CheckpointInv'
<1>1. CASE \E r \in Runs : PublishPlan(r)
  <2>1. PICK r \in Runs : PublishPlan(r)
    BY <1>1
  <2>2. Message("plan", r) \in Messages
    BY MessageType DEF Tasks
  <2> QED
    BY <2>1, <2>2 DEF PublishPlan, Put, Message, CheckpointInv, CheckpointsFollowState,
       QueuedAwaitsPlan, TypeOK, BrokerType, records
<1>2. CASE \E r \in Runs : Cancel(r)
  BY <1>2 DEF Cancel, CheckpointInv, CheckpointsFollowState, QueuedAwaitsPlan, TypeOK,
     RunType, records
<1>3. CASE \E r \in Runs : QueueOnDemand(r)
  BY <1>3 DEF QueueOnDemand, CheckpointInv, CheckpointsFollowState, QueuedAwaitsPlan,
     records
<1>4. CASE \E r \in Runs, kind \in Kinds : SettleRequest(r, kind)
  <2>1. PICK r \in Runs, kind \in Kinds : SettleRequest(r, kind)
    BY <1>4
  <2>2. PICK now : state' = [state EXCEPT ![r] = Finalized(r, now)]
    BY <2>1 DEF SettleRequest
  <2> QED
    BY <2>1, <2>2 DEF SettleRequest, Finalized, CheckpointInv, CheckpointsFollowState,
       QueuedAwaitsPlan, TypeOK, RunType, records
<1>5. CASE \E w \in Workers : Crash(w)
  <2>1. PICK w \in Workers : Crash(w)
    BY <1>5
  <2>2. job[w] \in Messages
    BY <2>1, JobOfBusy DEF Crash, Busy
  <2> QED
    BY <2>1, <2>2 DEF Crash, Busy, GiveBack, Release, Put, CheckpointInv,
       CheckpointsFollowState, QueuedAwaitsPlan, TypeOK, BrokerType, records
<1>6. CASE \E w \in Workers : DatabaseFailure(w)
  <2>1. PICK w \in Workers : DatabaseFailure(w)
    BY <1>6
  <2>2. job[w] \in Messages /\ pc[w] # "idle"
    BY <2>1, JobOfBusy DEF DatabaseFailure
  <2>3. Again(job[w]).run = job[w].run /\ Again(job[w]).task = job[w].task
    BY <2>2 DEF Again, Messages
  <2>4. CASE GiveBack(w, Again(job[w]))
    BY <2>1, <2>2, <2>3, <2>4 DEF DatabaseFailure, GiveBack, Release, Put, CheckpointInv,
       CheckpointsFollowState, QueuedAwaitsPlan, TypeOK, BrokerType, records
  <2>5. CASE Drop(w)
    BY <2>1, <2>5 DEF DatabaseFailure, Drop, Release, CheckpointInv,
       CheckpointsFollowState, QueuedAwaitsPlan, TypeOK, BrokerType, records
  <2> QED
    BY <2>1, <2>4, <2>5 DEF DatabaseFailure
<1>7. CASE \E w \in Workers : Redeliver(w)
  <2>1. PICK w \in Workers : Redeliver(w)
    BY <1>7
  <2>2. job[w] \in Messages
    BY <2>1, JobOfBusy DEF Redeliver, Busy
  <2> QED
    BY <2>1, <2>2 DEF Redeliver, Busy, Put, CheckpointInv, CheckpointsFollowState,
       QueuedAwaitsPlan, TypeOK, BrokerType, records
<1> QED
  BY <1>1, <1>2, <1>3, <1>4, <1>5, <1>6, <1>7 DEF World

LEMMA CheckpointStep ==
  ASSUME TypeOK, CheckpointInv, [Next]_vars
  PROVE  CheckpointInv'
<1>1. CASE UNCHANGED vars
  BY <1>1 DEF vars, records, CheckpointInv, CheckpointsFollowState, QueuedAwaitsPlan
<1>2. CASE World
  BY <1>2, CheckpointWorld
<1>3. CASE \E w \in Workers : Work(w)
  BY <1>3, CheckpointTake, CheckpointDrop, CheckpointPlan, CheckpointSource,
     CheckpointMatch, CheckpointEnrich DEF Work
<1> QED
  BY <1>1, <1>2, <1>3 DEF Next

LEMMA CheckpointInvariant == Spec => []CheckpointInv
<1>1. Init => CheckpointInv
  BY DEF Init, CheckpointInv, CheckpointsFollowState, QueuedAwaitsPlan
<1>2. TypeOK /\ CheckpointInv /\ [Next]_vars => CheckpointInv'
  BY CheckpointStep
<1> QED
  BY <1>1, <1>2, TypeCorrect, PTL DEF Spec

\* The completed checkpoints and the state of a run never contradict each other.
THEOREM CheckpointsAgree == Spec => []CheckpointsFollowState
<1>1. CheckpointInv => CheckpointsFollowState
  BY DEF CheckpointInv
<1> QED
  BY <1>1, CheckpointInvariant, PTL
-----------------------------------------------------------------------------
(* Cancellation *)

\* No step revives a cancelled run.
LEMMA CancelledStays ==
  ASSUME TypeOK, [Next]_vars, NEW r \in Runs, Cancelled(r)
  PROVE  Cancelled(r)'
<1>1. CASE UNCHANGED vars
  BY <1>1 DEF vars, Cancelled
<1>2. CASE World
  BY <1>2 DEF World, PublishPlan, Cancel, QueueOnDemand, SettleRequest, Crash, DatabaseFailure,
       Redeliver, Finalized, Cancelled, TypeOK, RunType,
       TerminalStates
<1>3. ASSUME NEW w \in Workers, Work(w)
      PROVE  Cancelled(r)'
  <2>1. CASE Take(w) \/ Acknowledge(w) \/ Reject(w)
    BY <2>1 DEF Take, Acknowledge, Reject, Cancelled
  <2>2. CASE PlanTask(w)
    BY <2>2 DEF PlanTask, PlanSkipped, Plan, SendSource, Cancelled, TypeOK, RunType
  <2>3. CASE SourceTask(w)
    BY <2>3 DEF SourceTask, OpenSource, CheckProvider, SourceSkipped, CheckPage, ReservePage, ReserveExhausted,
       SearchAnswers, SearchFails, DisableProvider, PageDiscarded, RecordPage,
       FinishSource, FinishSteps, At, SendMatch, FinishTarget, BudgetExhausted,
       Cancelled, TypeOK, RunType
  <2>4. CASE MatchTask(w)
    BY <2>4 DEF MatchTask, MatchSkipped, MatchOutdated, ScoreBatch, MatchCompletes, SendEnrich,
       Matchable, Cancelled, TypeOK, RunType
  <2>5. CASE EnrichTask(w)
    BY <2>5 DEF EnrichTask, BeginEnrich, SelectTop, FinishEmpty, PrepareNothing, PrepareRequest,
       PrepareExhausted, PrepareAmbiguous, SubmitWithdrawn, Submit, SendRetry, Finalize,
       FailActive, MarkProviderDisabled, BudgetExhausted, Finalized, Cancelled, TypeOK,
       RunType
  <2> QED
    BY <1>3, <2>1, <2>2, <2>3, <2>4, <2>5 DEF Work
<1> QED
  BY <1>1, <1>2, <1>3 DEF Next

\* Candidates and scores change in one action each.
LEMMA OnlyRecordAndScore ==
  ASSUME [Next]_vars, NEW r \in Runs, \A w \in Workers : ~ RecordPage(w) /\ ~ ScoreBatch(w)
  PROVE  seen' = seen /\ scored' = scored
<1>1. CASE UNCHANGED vars
  BY <1>1 DEF vars, records
<1>2. CASE World
  BY <1>2 DEF World, PublishPlan, Cancel, QueueOnDemand, SettleRequest, Crash, DatabaseFailure,
       Redeliver, records
<1>3. ASSUME NEW w \in Workers, Work(w)
      PROVE  seen' = seen /\ scored' = scored
  <2>1. CASE Take(w) \/ Acknowledge(w) \/ Reject(w)
    BY <2>1 DEF Take, Acknowledge, Reject, records
  <2>2. CASE PlanTask(w)
    BY <2>2 DEF PlanTask, PlanSkipped, Plan, SendSource, Complete, records
  <2>3. CASE SourceTask(w)
    BY <2>3 DEF SourceTask, OpenSource, CheckProvider, SourceSkipped, CheckPage, ReservePage, ReserveExhausted,
       SearchAnswers, SearchFails, DisableProvider, PageDiscarded, RecordPage,
       FinishSource, SendMatch, Complete, records
  <2>4. CASE MatchTask(w)
    BY <2>4 DEF MatchTask, MatchSkipped, MatchOutdated, ScoreBatch, MatchCompletes, SendEnrich,
       Complete, records
  <2>5. CASE EnrichTask(w)
    BY <2>5 DEF EnrichTask, BeginEnrich, SelectTop, FinishEmpty, PrepareNothing, PrepareRequest,
       PrepareExhausted, PrepareAmbiguous, SubmitWithdrawn, Submit, SendRetry, Finalize,
       FailActive, MarkProviderDisabled, records
  <2> QED
    BY <1>3, <2>1, <2>2, <2>3, <2>4, <2>5 DEF Work
<1> QED
  BY <1>1, <1>2, <1>3 DEF Next

\* Cancellation keeps the candidates and scores already committed, adds none.
THEOREM CancellationFreezes == Spec => CancelFreezesCandidates
<1> DEFINE Frozen == \A r \in Runs : Cancelled(r) => /\ seen'[r] = seen[r]
                                                  /\ scored'[r] = scored[r]
<1>1. TypeOK /\ [Next]_vars => [Frozen]_vars
  <2> SUFFICES ASSUME TypeOK, [Next]_vars, NEW r \in Runs, Cancelled(r)
               PROVE  seen'[r] = seen[r] /\ scored'[r] = scored[r]
    OBVIOUS
  <2>1. ASSUME NEW w \in Workers, RecordPage(w)
        PROVE  seen'[r] = seen[r] /\ scored'[r] = scored[r]
    BY <2>1 DEF RecordPage, TypeOK, RunType
  <2>2. ASSUME NEW w \in Workers, ScoreBatch(w)
        PROVE  seen'[r] = seen[r] /\ scored'[r] = scored[r]
    BY <2>2 DEF ScoreBatch, Matchable, Cancelled, TypeOK, RunType
  <2> QED
    BY <2>1, <2>2, OnlyRecordAndScore
<1> QED
  BY <1>1, TypeCorrect, PTL DEF Spec, CancelFreezesCandidates
=============================================================================
