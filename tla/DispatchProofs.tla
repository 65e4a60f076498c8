--------------------------- MODULE DispatchProofs ---------------------------
(***************************************************************************)
(* Theorems about the outboxes of runs and of on-demand requests, and about *)
(* the generations of retries, and about the three outboxes side by side,   *)
(* for every number of rows, processes, workers, maintenance tasks and      *)
(* faults.                                                                  *)
(***************************************************************************)
EXTENDS MCDispatch, TLAPS

-----------------------------------------------------------------------------
(* Retries of enrich_run: the inductive invariant *)

\* A worker that staged a retry, or adopted one.
Staged == {"claim_publish", "send", "published", "unpublished"}

\* Before the first retry is staged nothing knows of a generation.
NoneStaged ==
  retry.status = "none" =>
    /\ enrichQueue \subseteq {0}
    /\ \A w \in Workers : retrier[w].message = 0 /\ retrier[w].at \notin Staged
    /\ \A s \in Sweepers : retrySweep[s].at = "idle"

\* A claim has an age as long as it is a claim.
YoungIsClaimed == retry.young => retry.status \in {"pending", "claimed"}

\* Requests are settled before the generation that settled them is completed.
CompletedIsSettled ==
  /\ retry.status = "completed" => deferred = "no"
  /\ \A w \in Workers : retrier[w].at = "complete" => deferred = "no"

\* Who holds the execution lock is at work.
LockIsAtWork == \A w \in Workers : retryLock = w => retrier[w].at # "idle"

RetryInv ==
  /\ RetryDispatchTypeOK
  /\ ClaimsFitStatus
  /\ YoungIsClaimed
  /\ CompletedIsSettled
  /\ NoneStaged
  /\ LockIsAtWork

-----------------------------------------------------------------------------
(* Retries: steps *)

\* What the operators on rows make of a row.
LEMMA RowChanges ==
  ASSUME NEW row \in RetryRows, NEW h \in Workers \cup Sweepers
  PROVE  /\ \A r \in {row, [row EXCEPT !.status = "published"],
                      [row EXCEPT !.status = "completed"]} :
              /\ Unclaimed(r) \in RetryRows /\ Unclaimed(r).status = r.status
              /\ Unclaimed(r).holder = NoOne /\ ~ Unclaimed(r).young
         /\ \A status \in {"pending", "claimed", "published", "completed"} :
              [row EXCEPT !.status = status].status = status
         /\ ReleasedRetry(row) \in RetryRows
BY DEF RetryRows, Unclaimed, ReleasedRetry, ActiveRetries

\* What a claim makes of a row.
LEMMA ClaimedRow ==
  ASSUME NEW row \in RetryRows, NEW h \in Workers \cup Sweepers
  PROVE  /\ ClaimedBy(row, h) \in RetryRows
         /\ ClaimedBy(row, h).status = row.status /\ ClaimedBy(row, h).holder = h
         /\ ClaimedBy([row EXCEPT !.status = "claimed"], h) \in RetryRows
         /\ ClaimedBy([row EXCEPT !.status = "claimed"], h).status = "claimed"
         /\ ClaimedBy([row EXCEPT !.status = "claimed"], h).holder = h
BY DEF RetryRows, ClaimedBy, ActiveRetries

\* A worker that moves or returns stays typed.
LEMMA WorkerMoves ==
  ASSUME RetryDispatchTypeOK, NEW w \in Workers
  PROVE  /\ Return(w) => /\ retrier' \in [Workers -> Retriers]
                         /\ retryLock' \in Workers \cup {NoOne}
         /\ \A at \in RetrierPlaces : Proceed(w, at) => retrier' \in [Workers -> Retriers]
         /\ \A at \in RetrierPlaces, g \in Generations :
              retrier' = [retrier EXCEPT ![w].at = at, ![w].staged = g]
                => retrier' \in [Workers -> Retriers]
         /\ \A g \in Generations :
              retrier' = [retrier EXCEPT ![w] = [at |-> "claim", message |-> g, staged |-> 0]]
                => retrier' \in [Workers -> Retriers]
<1>1. IdleRetrier \in Retriers
  BY RetryAssumption DEF IdleRetrier, Retriers, RetrierPlaces, Generations
<1>2. retrier[w] \in Retriers
  BY DEF RetryDispatchTypeOK
<1>3. Return(w) => /\ retrier' \in [Workers -> Retriers]
                   /\ retryLock' \in Workers \cup {NoOne}
  BY <1>1 DEF Return, RetryDispatchTypeOK
<1>4. ASSUME NEW at \in RetrierPlaces PROVE [retrier[w] EXCEPT !.at = at] \in Retriers
  BY <1>2 DEF Retriers
<1>5. ASSUME NEW at \in RetrierPlaces, NEW g \in Generations
      PROVE  [retrier[w] EXCEPT !.at = at, !.staged = g] \in Retriers
  BY <1>2 DEF Retriers
<1>6. ASSUME NEW at \in RetrierPlaces, Proceed(w, at) PROVE retrier' \in [Workers -> Retriers]
  BY <1>4, <1>6 DEF Proceed, RetryDispatchTypeOK
<1>7. ASSUME NEW at \in RetrierPlaces, NEW g \in Generations,
             retrier' = [retrier EXCEPT ![w].at = at, ![w].staged = g]
      PROVE  retrier' \in [Workers -> Retriers]
  BY <1>5, <1>7 DEF RetryDispatchTypeOK
<1>8. ASSUME NEW g \in Generations
      PROVE  [at |-> "claim", message |-> g, staged |-> 0] \in Retriers
  BY RetryAssumption DEF Retriers, RetrierPlaces, Generations
<1> QED
  BY <1>3, <1>6, <1>7, <1>8 DEF RetryDispatchTypeOK

\* Every action keeps the types.
LEMMA TypeStep ==
  ASSUME RetryDispatchTypeOK, [RetryDispatchNext]_retryVars
  PROVE  RetryDispatchTypeOK'
<1>1. CASE MatchDone
  BY <1>1, RetryAssumption
     DEF RetryDispatchTypeOK, RetryRows, Retriers, RetrierPlaces, Generations,
         ActiveRetries, IdleRetrier, MatchDone
<1>2. ASSUME NEW w \in Workers, NEW g \in Generations, TakeRetry(w, g)
      PROVE  RetryDispatchTypeOK'
  <2>1. retrier' \in [Workers -> Retriers] /\ retryLock' \in Workers \cup {NoOne}
    BY <1>2, WorkerMoves DEF TakeRetry, RetrierPlaces, RetryDispatchTypeOK
  <2>2. retrier[w].message \in Generations
    BY DEF RetryDispatchTypeOK, Retriers
  <2> QED
    BY <1>2, <2>1, <2>2, RetryAssumption DEF RetryDispatchTypeOK, TakeRetry
<1>3. ASSUME NEW w \in Workers, BeginFresh(w) PROVE RetryDispatchTypeOK'
  BY <1>3, RetryAssumption
     DEF RetryDispatchTypeOK, RetryRows, Retriers, RetrierPlaces, Generations,
         ActiveRetries, IdleRetrier, BeginFresh, Return, Proceed
<1>4. ASSUME NEW w \in Workers, BeginRetry(w) PROVE RetryDispatchTypeOK'
  <2>1. retry' = retry \/ retry' = ClaimedBy([retry EXCEPT !.status = "claimed"], w)
    BY <1>4 DEF BeginRetry
  <2>2. retry \in RetryRows /\ w \in Workers \cup Sweepers
    BY DEF RetryDispatchTypeOK
  <2>3. retry' \in RetryRows
    BY <2>1, <2>2, ClaimedRow
  <2>4. retrier' \in [Workers -> Retriers] /\ retryLock' \in Workers \cup {NoOne}
    BY <1>4, WorkerMoves DEF BeginRetry, RetrierPlaces, RetryDispatchTypeOK
  <2> QED
    BY <1>4, <2>3, <2>4 DEF RetryDispatchTypeOK, BeginRetry
<1>5. ASSUME NEW w \in Workers, Pass(w) PROVE RetryDispatchTypeOK'
  <2>1. retrier' \in [Workers -> Retriers] /\ retryLock' \in Workers \cup {NoOne}
    BY <1>5, WorkerMoves DEF Pass, Within, RetrierPlaces, RetryDispatchTypeOK
  <2>2. retrier[w].message \in Generations
    BY DEF RetryDispatchTypeOK, Retriers
  <2> QED
    BY <1>5, <2>1, <2>2, RetryAssumption DEF RetryDispatchTypeOK, Pass, Within
<1>6. ASSUME NEW w \in Workers, Stage(w) PROVE RetryDispatchTypeOK'
  <2> DEFINE row == [gen |-> retry.gen + 1, status |-> "pending", holder |-> NoOne,
                     young |-> FALSE, due |-> FALSE]
  <2>1. retry.gen \in Generations
    BY DEF RetryDispatchTypeOK, RetryRows
  <2>2. retry.gen < MaxGenerations => retry.gen + 1 \in Generations /\ row \in RetryRows
    BY <2>1, RetryAssumption DEF RetryRows, ActiveRetries, Generations
  <2>3. retry' = retry \/ (retry' = row /\ retry.gen < MaxGenerations)
    BY <1>6 DEF Stage
  <2>4. retry' \in RetryRows
    BY <2>2, <2>3 DEF RetryDispatchTypeOK
  <2>5. \/ Return(w)
        \/ /\ UNCHANGED retryLock
           /\ \E g \in Generations :
                retrier' = [retrier EXCEPT ![w].at = "claim_publish", ![w].staged = g]
    BY <1>6, <2>1, <2>2 DEF Stage
  <2>6. retrier' \in [Workers -> Retriers] /\ retryLock' \in Workers \cup {NoOne}
    BY <2>5, WorkerMoves DEF RetrierPlaces, RetryDispatchTypeOK
  <2> QED
    BY <1>6, <2>4, <2>6 DEF RetryDispatchTypeOK, Stage
<1>7. ASSUME NEW w \in Workers, ClaimPublish(w) PROVE RetryDispatchTypeOK'
  <2>1. retry' = retry \/ (retry' = ClaimedBy(retry, w) /\ retry.status = "pending")
    BY <1>7 DEF ClaimPublish
  <2>2. retry \in RetryRows /\ w \in Workers \cup Sweepers
    BY DEF RetryDispatchTypeOK
  <2>3. retry' \in RetryRows
    BY <2>1, <2>2, ClaimedRow
  <2>4. retrier' \in [Workers -> Retriers] /\ retryLock' \in Workers \cup {NoOne}
    BY <1>7, WorkerMoves DEF ClaimPublish, RetrierPlaces, RetryDispatchTypeOK
  <2> QED
    BY <1>7, <2>3, <2>4 DEF RetryDispatchTypeOK, ClaimPublish
<1>8. ASSUME NEW w \in Workers, SendRetry(w) PROVE RetryDispatchTypeOK'
  BY <1>8 DEF RetryDispatchTypeOK, Retriers, RetrierPlaces, SendRetry, Proceed
<1>9. ASSUME NEW w \in Workers, SendOutage(w) PROVE RetryDispatchTypeOK'
  BY <1>9, RetryAssumption
     DEF RetryDispatchTypeOK, Retriers, RetrierPlaces, SendOutage, Proceed, RetryFault
<1>10. ASSUME NEW w \in Workers, FinishPublish(w) PROVE RetryDispatchTypeOK'
  <2>1. retry' \in RetryRows
    BY <1>10, RowChanges, RetryAssumption
       DEF RetryDispatchTypeOK, FinishPublish, PublishFinished, HoldsPublish
  <2>2. retrier' \in [Workers -> Retriers] /\ retryLock' \in Workers \cup {NoOne}
    BY <1>10, WorkerMoves
       DEF FinishPublish, PublishFinished, HoldsPublish, RetrierPlaces, RetryDispatchTypeOK
  <2>3. retrier[w].message \in Generations
    BY DEF RetryDispatchTypeOK, Retriers
  <2> QED
    BY <1>10, <2>1, <2>2, <2>3, RetryAssumption
       DEF RetryDispatchTypeOK, FinishPublish, PublishFinished, HoldsPublish
<1>11. ASSUME NEW w \in Workers, CompleteRetry(w) PROVE RetryDispatchTypeOK'
  <2>1. retry' \in RetryRows
    BY <1>11, RowChanges, RetryAssumption DEF RetryDispatchTypeOK, CompleteRetry, HoldsDelivery
  <2>2. retrier' \in [Workers -> Retriers] /\ retryLock' \in Workers \cup {NoOne}
    BY <1>11, WorkerMoves DEF CompleteRetry, HoldsDelivery, RetrierPlaces, RetryDispatchTypeOK
  <2>3. retrier[w].message \in Generations
    BY DEF RetryDispatchTypeOK, Retriers
  <2> QED
    BY <1>11, <2>1, <2>2, <2>3, RetryAssumption
       DEF RetryDispatchTypeOK, CompleteRetry, HoldsDelivery
<1>12. ASSUME NEW w \in Workers, RetrierDies(w) PROVE RetryDispatchTypeOK'
  <2>1. retrier' \in [Workers -> Retriers] /\ retryLock' \in Workers \cup {NoOne}
    BY <1>12, WorkerMoves DEF RetrierDies, RetryFault, RetrierPlaces, RetryDispatchTypeOK
  <2>2. retrier[w].message \in Generations
    BY DEF RetryDispatchTypeOK, Retriers
  <2> QED
    BY <1>12, <2>1, <2>2, RetryAssumption DEF RetryDispatchTypeOK, RetrierDies, RetryFault
<1>13. ASSUME NEW w \in Workers, PassFails(w) PROVE RetryDispatchTypeOK'
  <2>1. retry' \in RetryRows
    BY <1>13, RowChanges, RetryAssumption
       DEF RetryDispatchTypeOK, PassFails, RetryFault, HoldsDelivery
  <2>2. retrier' \in [Workers -> Retriers] /\ retryLock' \in Workers \cup {NoOne}
    BY <1>13, WorkerMoves
       DEF PassFails, RetryFault, HoldsDelivery, RetrierPlaces, RetryDispatchTypeOK
  <2>3. retrier[w].message \in Generations
    BY DEF RetryDispatchTypeOK, Retriers
  <2> QED
    BY <1>13, <2>1, <2>2, <2>3, RetryAssumption
       DEF RetryDispatchTypeOK, PassFails, RetryFault, HoldsDelivery
<1>14. CASE LockLost
  BY <1>14, RetryAssumption DEF RetryDispatchTypeOK, LockLost, RetryFault
<1>15. ASSUME NEW s \in Sweepers, ClaimRetry(s) PROVE RetryDispatchTypeOK'
  BY <1>15
     DEF RetryDispatchTypeOK, RetryRows, ActiveRetries, ClaimRetry, Recoverable,
         ClaimedBy
<1>16. ASSUME NEW s \in Sweepers, PublishRetry(s) PROVE RetryDispatchTypeOK'
  BY <1>16 DEF RetryDispatchTypeOK, PublishRetry
<1>17. ASSUME NEW s \in Sweepers, RetryOutage(s) PROVE RetryDispatchTypeOK'
  BY <1>17, RetryAssumption DEF RetryDispatchTypeOK, RetryOutage, RetryFault
<1>18. ASSUME NEW s \in Sweepers, FinishRetry(s) PROVE RetryDispatchTypeOK'
  <2>1. retry' \in RetryRows
    BY <1>18, RowChanges DEF RetryDispatchTypeOK, FinishRetry, PublishFinished, HoldsPublish
  <2> QED
    BY <1>18, <2>1, RetryAssumption DEF RetryDispatchTypeOK, FinishRetry, Generations
<1>19. ASSUME NEW s \in Sweepers, RetrySweepDies(s) PROVE RetryDispatchTypeOK'
  BY <1>19, RetryAssumption
     DEF RetryDispatchTypeOK, RetryRows, Retriers, RetrierPlaces, Generations,
         ActiveRetries, IdleRetrier, RetrySweepDies, RetryFault
<1>20. CASE RetryDue
  BY <1>20 DEF RetryDispatchTypeOK, RetryRows, ActiveRetries, RetryDue
<1>21. CASE RetryLeaseEnds
  BY <1>21 DEF RetryDispatchTypeOK, RetryRows, ActiveRetries, RetryLeaseEnds
<1>22. CASE UNCHANGED retryVars
  BY <1>22 DEF RetryDispatchTypeOK, retryVars
<1> QED
  BY <1>1, <1>2, <1>3, <1>4, <1>5, <1>6, <1>7, <1>8, <1>9, <1>10, <1>11,
     <1>12, <1>13, <1>14, <1>15, <1>16, <1>17, <1>18, <1>19, <1>20, <1>21, <1>22
     DEF RetryDispatchNext, EnrichRun, SweepRetry

\* A claim has a holder and, while it is one, an age.
LEMMA ClaimStep ==
  ASSUME RetryDispatchTypeOK, ClaimsFitStatus, YoungIsClaimed, [RetryDispatchNext]_retryVars
  PROVE  (ClaimsFitStatus /\ YoungIsClaimed)'
<1>1. CASE MatchDone
  BY <1>1 DEF ClaimsFitStatus, YoungIsClaimed, MatchDone
<1>2. ASSUME NEW w \in Workers, NEW g \in Generations, TakeRetry(w, g)
      PROVE  (ClaimsFitStatus /\ YoungIsClaimed)'
  BY <1>2 DEF ClaimsFitStatus, YoungIsClaimed, TakeRetry
<1>3. ASSUME NEW w \in Workers, BeginFresh(w)
      PROVE  (ClaimsFitStatus /\ YoungIsClaimed)'
  BY <1>3 DEF ClaimsFitStatus, YoungIsClaimed, BeginFresh, Return, Proceed
<1>4. ASSUME NEW w \in Workers, BeginRetry(w)
      PROVE  (ClaimsFitStatus /\ YoungIsClaimed)'
  <2>1. retry' = retry \/ retry' = ClaimedBy([retry EXCEPT !.status = "claimed"], w)
    BY <1>4 DEF BeginRetry
  <2>2. retry \in RetryRows /\ w \in Workers \cup Sweepers
    BY DEF RetryDispatchTypeOK
  <2> QED
    BY <2>1, <2>2, ClaimedRow, RetryAssumption DEF ClaimsFitStatus, YoungIsClaimed
<1>5. ASSUME NEW w \in Workers, Pass(w)
      PROVE  (ClaimsFitStatus /\ YoungIsClaimed)'
  BY <1>5 DEF ClaimsFitStatus, YoungIsClaimed, Pass, Proceed, Within
<1>6. ASSUME NEW w \in Workers, Stage(w)
      PROVE  (ClaimsFitStatus /\ YoungIsClaimed)'
  BY <1>6 DEF ClaimsFitStatus, YoungIsClaimed, Stage, Return, HoldsDelivery
<1>7. ASSUME NEW w \in Workers, ClaimPublish(w)
      PROVE  (ClaimsFitStatus /\ YoungIsClaimed)'
  <2>1. retry' = retry \/ (retry' = ClaimedBy(retry, w) /\ retry.status = "pending")
    BY <1>7 DEF ClaimPublish
  <2>2. retry \in RetryRows /\ w \in Workers \cup Sweepers
    BY DEF RetryDispatchTypeOK
  <2>5. ClaimedBy(retry, w).status = retry.status /\ ClaimedBy(retry, w).holder = w
    BY <2>2, ClaimedRow
  <2> QED
    BY <2>1, <2>2, <2>5, ClaimedRow, RetryAssumption DEF ClaimsFitStatus, YoungIsClaimed
<1>8. ASSUME NEW w \in Workers, SendRetry(w)
      PROVE  (ClaimsFitStatus /\ YoungIsClaimed)'
  BY <1>8 DEF ClaimsFitStatus, YoungIsClaimed, SendRetry, Proceed
<1>9. ASSUME NEW w \in Workers, SendOutage(w)
      PROVE  (ClaimsFitStatus /\ YoungIsClaimed)'
  BY <1>9 DEF ClaimsFitStatus, YoungIsClaimed, SendOutage, Proceed, RetryFault
<1>10. ASSUME NEW w \in Workers, FinishPublish(w)
      PROVE  (ClaimsFitStatus /\ YoungIsClaimed)'
  BY <1>10
     DEF ClaimsFitStatus, YoungIsClaimed, FinishPublish, PublishFinished,
         HoldsPublish, Unclaimed, Return
<1>11. ASSUME NEW w \in Workers, CompleteRetry(w)
      PROVE  (ClaimsFitStatus /\ YoungIsClaimed)'
  BY <1>11
     DEF ClaimsFitStatus, YoungIsClaimed, CompleteRetry, HoldsDelivery, Unclaimed,
         Return
<1>12. ASSUME NEW w \in Workers, RetrierDies(w)
      PROVE  (ClaimsFitStatus /\ YoungIsClaimed)'
  BY <1>12 DEF ClaimsFitStatus, YoungIsClaimed, RetrierDies, RetryFault, Return
<1>13. ASSUME NEW w \in Workers, PassFails(w)
      PROVE  (ClaimsFitStatus /\ YoungIsClaimed)'
  BY <1>13
     DEF ClaimsFitStatus, YoungIsClaimed, PassFails, RetryFault, Return,
         HoldsDelivery, ReleasedRetry, Unclaimed
<1>14. CASE LockLost
  BY <1>14 DEF ClaimsFitStatus, YoungIsClaimed, LockLost, RetryFault
<1>15. ASSUME NEW s \in Sweepers, ClaimRetry(s)
      PROVE  (ClaimsFitStatus /\ YoungIsClaimed)'
  BY <1>15 DEF ClaimsFitStatus, YoungIsClaimed, ClaimRetry, Recoverable, ClaimedBy
<1>16. ASSUME NEW s \in Sweepers, PublishRetry(s)
      PROVE  (ClaimsFitStatus /\ YoungIsClaimed)'
  BY <1>16 DEF ClaimsFitStatus, YoungIsClaimed, PublishRetry
<1>17. ASSUME NEW s \in Sweepers, RetryOutage(s)
      PROVE  (ClaimsFitStatus /\ YoungIsClaimed)'
  BY <1>17 DEF ClaimsFitStatus, YoungIsClaimed, RetryOutage, RetryFault
<1>18. ASSUME NEW s \in Sweepers, FinishRetry(s)
      PROVE  (ClaimsFitStatus /\ YoungIsClaimed)'
  BY <1>18
     DEF ClaimsFitStatus, YoungIsClaimed, FinishRetry, PublishFinished, HoldsPublish,
         Unclaimed
<1>19. ASSUME NEW s \in Sweepers, RetrySweepDies(s)
      PROVE  (ClaimsFitStatus /\ YoungIsClaimed)'
  BY <1>19 DEF ClaimsFitStatus, YoungIsClaimed, RetrySweepDies, RetryFault
<1>20. CASE RetryDue
  BY <1>20 DEF ClaimsFitStatus, YoungIsClaimed, RetryDue
<1>21. CASE RetryLeaseEnds
  BY <1>21 DEF ClaimsFitStatus, YoungIsClaimed, RetryLeaseEnds
<1>22. CASE UNCHANGED retryVars
  BY <1>22 DEF ClaimsFitStatus, YoungIsClaimed, retryVars
<1> QED
  BY <1>1, <1>2, <1>3, <1>4, <1>5, <1>6, <1>7, <1>8, <1>9, <1>10, <1>11,
     <1>12, <1>13, <1>14, <1>15, <1>16, <1>17, <1>18, <1>19, <1>20, <1>21, <1>22
     DEF RetryDispatchNext, EnrichRun, SweepRetry

\* Settled requests stay settled, and only a worker that saw them so completes
\* a generation.
LEMMA SettledStep ==
  ASSUME RetryDispatchTypeOK, CompletedIsSettled, [RetryDispatchNext]_retryVars
  PROVE  CompletedIsSettled'
<1>1. CASE MatchDone
  BY <1>1 DEF CompletedIsSettled, MatchDone
<1>2. ASSUME NEW w \in Workers, NEW g \in Generations, TakeRetry(w, g)
      PROVE  CompletedIsSettled'
  BY <1>2 DEF RetryDispatchTypeOK, CompletedIsSettled, TakeRetry
<1>3. ASSUME NEW w \in Workers, BeginFresh(w) PROVE CompletedIsSettled'
  BY <1>3
     DEF RetryDispatchTypeOK, CompletedIsSettled, Retriers, IdleRetrier, BeginFresh,
         Return, Proceed
<1>4. ASSUME NEW w \in Workers, BeginRetry(w) PROVE CompletedIsSettled'
  <2>1. retry' = retry \/ retry' = ClaimedBy([retry EXCEPT !.status = "claimed"], w)
    BY <1>4 DEF BeginRetry
  <2>2. retry \in RetryRows /\ w \in Workers \cup Sweepers
    BY DEF RetryDispatchTypeOK
  <2>3. retry'.status = "completed" => retry.status = "completed"
    BY <2>1, <2>2, ClaimedRow
  <2>4. \A v \in Workers : retrier'[v].at = "complete" => retrier[v].at = "complete"
    BY <1>4 DEF RetryDispatchTypeOK, BeginRetry, Return, Proceed, IdleRetrier, Retriers
  <2> QED
    BY <1>4, <2>3, <2>4 DEF CompletedIsSettled, BeginRetry
<1>5. ASSUME NEW w \in Workers, Pass(w) PROVE CompletedIsSettled'
  BY <1>5
     DEF RetryDispatchTypeOK, CompletedIsSettled, Retriers, IdleRetrier, Pass,
         Proceed, Within
<1>6. ASSUME NEW w \in Workers, Stage(w) PROVE CompletedIsSettled'
  BY <1>6
     DEF RetryDispatchTypeOK, CompletedIsSettled, Retriers, IdleRetrier, Stage,
         Return, HoldsDelivery
<1>7. ASSUME NEW w \in Workers, ClaimPublish(w) PROVE CompletedIsSettled'
  <2>1. retry' = retry \/ (retry' = ClaimedBy(retry, w) /\ retry.status = "pending")
    BY <1>7 DEF ClaimPublish
  <2>2. retry \in RetryRows /\ w \in Workers \cup Sweepers
    BY DEF RetryDispatchTypeOK
  <2>5. ClaimedBy(retry, w).status = retry.status /\ ClaimedBy(retry, w).holder = w
    BY <2>2, ClaimedRow
  <2>3. retry'.status = "completed" => retry.status = "completed"
    BY <2>1, <2>2, <2>5, ClaimedRow
  <2>4. \A v \in Workers : retrier'[v].at = "complete" => retrier[v].at = "complete"
    BY <1>7 DEF RetryDispatchTypeOK, ClaimPublish, Return, Proceed, IdleRetrier, Retriers
  <2> QED
    BY <1>7, <2>3, <2>4 DEF CompletedIsSettled, ClaimPublish
<1>8. ASSUME NEW w \in Workers, SendRetry(w) PROVE CompletedIsSettled'
  BY <1>8 DEF CompletedIsSettled, SendRetry, Proceed
<1>9. ASSUME NEW w \in Workers, SendOutage(w) PROVE CompletedIsSettled'
  BY <1>9 DEF CompletedIsSettled, SendOutage, Proceed, RetryFault
<1>10. ASSUME NEW w \in Workers, FinishPublish(w) PROVE CompletedIsSettled'
  BY <1>10
     DEF RetryDispatchTypeOK, CompletedIsSettled, IdleRetrier, FinishPublish,
         PublishFinished, HoldsPublish, Unclaimed, Return
<1>11. ASSUME NEW w \in Workers, CompleteRetry(w) PROVE CompletedIsSettled'
  BY <1>11 DEF CompletedIsSettled, CompleteRetry, HoldsDelivery, Unclaimed, Return
<1>12. ASSUME NEW w \in Workers, RetrierDies(w) PROVE CompletedIsSettled'
  BY <1>12
     DEF RetryDispatchTypeOK, CompletedIsSettled, IdleRetrier, RetrierDies,
         RetryFault, Return
<1>13. ASSUME NEW w \in Workers, PassFails(w) PROVE CompletedIsSettled'
  BY <1>13
     DEF RetryDispatchTypeOK, CompletedIsSettled, IdleRetrier, PassFails, RetryFault,
         Return, HoldsDelivery, ReleasedRetry, Unclaimed
<1>14. CASE LockLost
  BY <1>14 DEF CompletedIsSettled, LockLost, RetryFault
<1>15. ASSUME NEW s \in Sweepers, ClaimRetry(s) PROVE CompletedIsSettled'
  BY <1>15 DEF CompletedIsSettled, ClaimRetry, Recoverable, ClaimedBy
<1>16. ASSUME NEW s \in Sweepers, PublishRetry(s) PROVE CompletedIsSettled'
  BY <1>16 DEF CompletedIsSettled, PublishRetry
<1>17. ASSUME NEW s \in Sweepers, RetryOutage(s) PROVE CompletedIsSettled'
  BY <1>17 DEF CompletedIsSettled, RetryOutage, RetryFault
<1>18. ASSUME NEW s \in Sweepers, FinishRetry(s) PROVE CompletedIsSettled'
  BY <1>18 DEF CompletedIsSettled, FinishRetry, PublishFinished, HoldsPublish, Unclaimed
<1>19. ASSUME NEW s \in Sweepers, RetrySweepDies(s) PROVE CompletedIsSettled'
  BY <1>19 DEF CompletedIsSettled, RetrySweepDies, RetryFault
<1>20. CASE RetryDue
  BY <1>20 DEF CompletedIsSettled, RetryDue
<1>21. CASE RetryLeaseEnds
  BY <1>21 DEF CompletedIsSettled, RetryLeaseEnds
<1>22. CASE UNCHANGED retryVars
  BY <1>22 DEF CompletedIsSettled, retryVars
<1> QED
  BY <1>1, <1>2, <1>3, <1>4, <1>5, <1>6, <1>7, <1>8, <1>9, <1>10, <1>11,
     <1>12, <1>13, <1>14, <1>15, <1>16, <1>17, <1>18, <1>19, <1>20, <1>21, <1>22
     DEF RetryDispatchNext, EnrichRun, SweepRetry

\* The first generation comes from a worker with the first message.
LEMMA NoneStagedStep ==
  ASSUME RetryDispatchTypeOK, NoneStaged, [RetryDispatchNext]_retryVars
  PROVE  NoneStaged'
<1>1. CASE MatchDone
  BY <1>1 DEF NoneStaged, MatchDone
<1>2. ASSUME NEW w \in Workers, NEW g \in Generations, TakeRetry(w, g) PROVE NoneStaged'
  <2>1. retry.status = "none" => g = 0
    BY <1>2 DEF TakeRetry, NoneStaged
  <2>2. ASSUME NEW v \in Workers, retry.status = "none"
        PROVE  retrier'[v].message = 0 /\ retrier'[v].at \notin Staged
    BY <1>2, <2>1, <2>2 DEF TakeRetry, NoneStaged, Staged, RetryDispatchTypeOK
  <2> QED
    BY <1>2, <2>2 DEF TakeRetry, NoneStaged
<1>3. ASSUME NEW w \in Workers, BeginFresh(w) PROVE NoneStaged'
  BY <1>3
     DEF RetryDispatchTypeOK, NoneStaged, Staged, RetryRows, Retriers, ActiveRetries,
         BeginFresh, Return, Proceed
<1>4. ASSUME NEW w \in Workers, BeginRetry(w) PROVE NoneStaged'
  BY <1>4
     DEF RetryDispatchTypeOK, NoneStaged, Staged, RetryRows, Retriers, ActiveRetries,
         BeginRetry, Return, Proceed, ClaimedBy, Deliverable
<1>5. ASSUME NEW w \in Workers, Pass(w) PROVE NoneStaged'
  BY <1>5
     DEF RetryDispatchTypeOK, NoneStaged, Staged, RetryRows, Retriers, ActiveRetries,
         Pass, Proceed, Within
<1>6. ASSUME NEW w \in Workers, Stage(w) PROVE NoneStaged'
  BY <1>6 DEF NoneStaged, Stage, Return, HoldsDelivery
<1>7. ASSUME NEW w \in Workers, ClaimPublish(w) PROVE NoneStaged'
  BY <1>7
     DEF RetryDispatchTypeOK, NoneStaged, Staged, RetryRows, Retriers, ActiveRetries,
         ClaimPublish, Return, Proceed, ClaimedBy
<1>8. ASSUME NEW w \in Workers, SendRetry(w) PROVE NoneStaged'
  BY <1>8 DEF RetryDispatchTypeOK, NoneStaged, Staged, SendRetry, Proceed
<1>9. ASSUME NEW w \in Workers, SendOutage(w) PROVE NoneStaged'
  BY <1>9 DEF RetryDispatchTypeOK, NoneStaged, Staged, SendOutage, Proceed, RetryFault
<1>10. ASSUME NEW w \in Workers, FinishPublish(w) PROVE NoneStaged'
  BY <1>10
     DEF RetryDispatchTypeOK, NoneStaged, Staged, FinishPublish, PublishFinished,
         HoldsPublish, Unclaimed, Return
<1>11. ASSUME NEW w \in Workers, CompleteRetry(w) PROVE NoneStaged'
  BY <1>11
     DEF RetryDispatchTypeOK, NoneStaged, Staged, IdleRetrier, CompleteRetry,
         HoldsDelivery, Unclaimed, Return
<1>12. ASSUME NEW w \in Workers, RetrierDies(w) PROVE NoneStaged'
  BY <1>12
     DEF RetryDispatchTypeOK, NoneStaged, Staged, IdleRetrier, RetrierDies,
         RetryFault, Return
<1>13. ASSUME NEW w \in Workers, PassFails(w) PROVE NoneStaged'
  BY <1>13
     DEF RetryDispatchTypeOK, NoneStaged, Staged, IdleRetrier, PassFails, RetryFault,
         Return, HoldsDelivery, ReleasedRetry, Unclaimed
<1>14. CASE LockLost
  BY <1>14 DEF NoneStaged, LockLost, RetryFault
<1>15. ASSUME NEW s \in Sweepers, ClaimRetry(s) PROVE NoneStaged'
  BY <1>15 DEF NoneStaged, ClaimRetry, Recoverable, ClaimedBy
<1>16. ASSUME NEW s \in Sweepers, PublishRetry(s) PROVE NoneStaged'
  BY <1>16 DEF NoneStaged, PublishRetry
<1>17. ASSUME NEW s \in Sweepers, RetryOutage(s) PROVE NoneStaged'
  BY <1>17 DEF NoneStaged, RetryOutage, RetryFault
<1>18. ASSUME NEW s \in Sweepers, FinishRetry(s) PROVE NoneStaged'
  BY <1>18 DEF NoneStaged, FinishRetry, PublishFinished, HoldsPublish, Unclaimed
<1>19. ASSUME NEW s \in Sweepers, RetrySweepDies(s) PROVE NoneStaged'
  BY <1>19 DEF NoneStaged, RetrySweepDies, RetryFault
<1>20. CASE RetryDue
  BY <1>20 DEF NoneStaged, RetryDue
<1>21. CASE RetryLeaseEnds
  BY <1>21 DEF NoneStaged, RetryLeaseEnds
<1>22. CASE UNCHANGED retryVars
  BY <1>22 DEF NoneStaged, retryVars
<1> QED
  BY <1>1, <1>2, <1>3, <1>4, <1>5, <1>6, <1>7, <1>8, <1>9, <1>10, <1>11,
     <1>12, <1>13, <1>14, <1>15, <1>16, <1>17, <1>18, <1>19, <1>20, <1>21, <1>22
     DEF RetryDispatchNext, EnrichRun, SweepRetry

\* Only a worker that takes a message takes the lock, and returning frees it.
LEMMA LockStep ==
  ASSUME RetryDispatchTypeOK, LockIsAtWork, [RetryDispatchNext]_retryVars
  PROVE  LockIsAtWork'
<1>1. CASE MatchDone
  BY <1>1 DEF LockIsAtWork, MatchDone
<1>2. ASSUME NEW w \in Workers, NEW g \in Generations, TakeRetry(w, g)
      PROVE  LockIsAtWork'
  BY <1>2 DEF RetryDispatchTypeOK, LockIsAtWork, TakeRetry
<1>3. ASSUME NEW w \in Workers, BeginFresh(w) PROVE LockIsAtWork'
  BY <1>3, RetryAssumption
     DEF RetryDispatchTypeOK, LockIsAtWork, Retriers, BeginFresh, Return, Proceed
<1>4. ASSUME NEW w \in Workers, BeginRetry(w) PROVE LockIsAtWork'
  BY <1>4, RetryAssumption
     DEF RetryDispatchTypeOK, LockIsAtWork, Retriers, BeginRetry, Return, Proceed,
         ClaimedBy, Deliverable
<1>5. ASSUME NEW w \in Workers, Pass(w) PROVE LockIsAtWork'
  BY <1>5 DEF RetryDispatchTypeOK, LockIsAtWork, Retriers, Pass, Proceed, Within
<1>6. ASSUME NEW w \in Workers, Stage(w) PROVE LockIsAtWork'
  BY <1>6, RetryAssumption
     DEF RetryDispatchTypeOK, LockIsAtWork, Retriers, Stage, Return, HoldsDelivery
<1>7. ASSUME NEW w \in Workers, ClaimPublish(w) PROVE LockIsAtWork'
  BY <1>7, RetryAssumption
     DEF RetryDispatchTypeOK, LockIsAtWork, Retriers, ClaimPublish, Return, Proceed,
         ClaimedBy
<1>8. ASSUME NEW w \in Workers, SendRetry(w) PROVE LockIsAtWork'
  BY <1>8 DEF LockIsAtWork, SendRetry, Proceed
<1>9. ASSUME NEW w \in Workers, SendOutage(w) PROVE LockIsAtWork'
  BY <1>9 DEF LockIsAtWork, SendOutage, Proceed, RetryFault
<1>10. ASSUME NEW w \in Workers, FinishPublish(w) PROVE LockIsAtWork'
  BY <1>10, RetryAssumption
     DEF LockIsAtWork, FinishPublish, PublishFinished, HoldsPublish, Unclaimed, Return
<1>11. ASSUME NEW w \in Workers, CompleteRetry(w) PROVE LockIsAtWork'
  BY <1>11, RetryAssumption
     DEF LockIsAtWork, CompleteRetry, HoldsDelivery, Unclaimed, Return
<1>12. ASSUME NEW w \in Workers, RetrierDies(w) PROVE LockIsAtWork'
  BY <1>12, RetryAssumption DEF LockIsAtWork, RetrierDies, RetryFault, Return
<1>13. ASSUME NEW w \in Workers, PassFails(w) PROVE LockIsAtWork'
  BY <1>13, RetryAssumption
     DEF LockIsAtWork, PassFails, RetryFault, Return, HoldsDelivery, ReleasedRetry,
         Unclaimed
<1>14. CASE LockLost
  BY <1>14, RetryAssumption DEF LockIsAtWork, LockLost, RetryFault
<1>15. ASSUME NEW s \in Sweepers, ClaimRetry(s) PROVE LockIsAtWork'
  BY <1>15 DEF LockIsAtWork, ClaimRetry, Recoverable, ClaimedBy
<1>16. ASSUME NEW s \in Sweepers, PublishRetry(s) PROVE LockIsAtWork'
  BY <1>16 DEF LockIsAtWork, PublishRetry
<1>17. ASSUME NEW s \in Sweepers, RetryOutage(s) PROVE LockIsAtWork'
  BY <1>17 DEF LockIsAtWork, RetryOutage, RetryFault
<1>18. ASSUME NEW s \in Sweepers, FinishRetry(s) PROVE LockIsAtWork'
  BY <1>18 DEF LockIsAtWork, FinishRetry, PublishFinished, HoldsPublish, Unclaimed
<1>19. ASSUME NEW s \in Sweepers, RetrySweepDies(s) PROVE LockIsAtWork'
  BY <1>19 DEF LockIsAtWork, RetrySweepDies, RetryFault
<1>20. CASE RetryDue
  BY <1>20 DEF LockIsAtWork, RetryDue
<1>21. CASE RetryLeaseEnds
  BY <1>21 DEF LockIsAtWork, RetryLeaseEnds
<1>22. CASE UNCHANGED retryVars
  BY <1>22 DEF LockIsAtWork, retryVars
<1> QED
  BY <1>1, <1>2, <1>3, <1>4, <1>5, <1>6, <1>7, <1>8, <1>9, <1>10, <1>11,
     <1>12, <1>13, <1>14, <1>15, <1>16, <1>17, <1>18, <1>19, <1>20, <1>21, <1>22
     DEF RetryDispatchNext, EnrichRun, SweepRetry

\* Whatever a step takes away, something is left that brings the requests back.
LEMMA DurableStep ==
  ASSUME RetryInv, RetriedWorkIsDurable, ~ OnDemandToo, [RetryDispatchNext]_retryVars
  PROVE  RetriedWorkIsDurable'
<1>1. CASE MatchDone
  BY <1>1 DEF RetriedWorkIsDurable, ActiveRetries, MatchDone
<1>2. ASSUME NEW w \in Workers, NEW g \in Generations, TakeRetry(w, g)
      PROVE  RetriedWorkIsDurable'
  BY <1>2, RetryAssumption
     DEF RetriedWorkIsDurable, RetryInv, RetryDispatchTypeOK, CompletedIsSettled,
         NoneStaged, Staged, LockIsAtWork, RetryRows, Retriers, RetrierPlaces,
         Generations, ActiveRetries, IdleRetrier, TakeRetry
<1>3. ASSUME NEW w \in Workers, BeginFresh(w) PROVE RetriedWorkIsDurable'
  BY <1>3, RetryAssumption
     DEF RetriedWorkIsDurable, RetryInv, RetryDispatchTypeOK, CompletedIsSettled,
         NoneStaged, Staged, LockIsAtWork, RetryRows, Retriers, RetrierPlaces,
         Generations, ActiveRetries, IdleRetrier, BeginFresh, Return, Proceed
<1>4. ASSUME NEW w \in Workers, BeginRetry(w) PROVE RetriedWorkIsDurable'
  BY <1>4
     DEF RetriedWorkIsDurable, RetryInv, RetryDispatchTypeOK, CompletedIsSettled,
         NoneStaged, Staged, RetryRows, ActiveRetries, BeginRetry, Return, Proceed,
         ClaimedBy, Deliverable
<1>5. ASSUME NEW w \in Workers, Pass(w) PROVE RetriedWorkIsDurable'
  BY <1>5, RetryAssumption
     DEF RetriedWorkIsDurable, RetryInv, RetryDispatchTypeOK, CompletedIsSettled,
         NoneStaged, Staged, LockIsAtWork, RetryRows, Retriers, RetrierPlaces,
         Generations, ActiveRetries, IdleRetrier, Pass, Proceed, Within
<1>6. ASSUME NEW w \in Workers, Stage(w) PROVE RetriedWorkIsDurable'
  BY <1>6
     DEF RetriedWorkIsDurable, ActiveRetries, RetryInv, RetryDispatchTypeOK, Stage,
         Return, HoldsDelivery
<1>7. ASSUME NEW w \in Workers, ClaimPublish(w) PROVE RetriedWorkIsDurable'
  BY <1>7
     DEF RetriedWorkIsDurable, RetryInv, RetryDispatchTypeOK, CompletedIsSettled,
         NoneStaged, Staged, RetryRows, ActiveRetries, ClaimPublish, Return, Proceed,
         ClaimedBy
<1>8. ASSUME NEW w \in Workers, SendRetry(w) PROVE RetriedWorkIsDurable'
  BY <1>8 DEF RetriedWorkIsDurable, ActiveRetries, SendRetry, Proceed
<1>9. ASSUME NEW w \in Workers, SendOutage(w) PROVE RetriedWorkIsDurable'
  BY <1>9 DEF RetriedWorkIsDurable, ActiveRetries, SendOutage, Proceed, RetryFault
<1>10. ASSUME NEW w \in Workers, FinishPublish(w) PROVE RetriedWorkIsDurable'
  BY <1>10
     DEF RetriedWorkIsDurable, RetryInv, RetryDispatchTypeOK, CompletedIsSettled,
         NoneStaged, Staged, RetryRows, ActiveRetries, FinishPublish, PublishFinished,
         HoldsPublish, Unclaimed, Return
<1>11. ASSUME NEW w \in Workers, CompleteRetry(w) PROVE RetriedWorkIsDurable'
  BY <1>11
     DEF RetriedWorkIsDurable, RetryInv, RetryDispatchTypeOK, CompletedIsSettled,
         NoneStaged, Staged, RetryRows, ActiveRetries, CompleteRetry, HoldsDelivery,
         Unclaimed, Return
<1>12. ASSUME NEW w \in Workers, RetrierDies(w) PROVE RetriedWorkIsDurable'
  BY <1>12 DEF RetriedWorkIsDurable, ActiveRetries, RetrierDies, RetryFault, Return
<1>13. ASSUME NEW w \in Workers, PassFails(w) PROVE RetriedWorkIsDurable'
  BY <1>13
     DEF RetriedWorkIsDurable, ActiveRetries, PassFails, RetryFault, Return,
         HoldsDelivery, ReleasedRetry, Unclaimed
<1>14. CASE LockLost
  BY <1>14 DEF RetriedWorkIsDurable, ActiveRetries, LockLost, RetryFault
<1>15. ASSUME NEW s \in Sweepers, ClaimRetry(s) PROVE RetriedWorkIsDurable'
  BY <1>15 DEF RetriedWorkIsDurable, ActiveRetries, ClaimRetry, Recoverable, ClaimedBy
<1>16. ASSUME NEW s \in Sweepers, PublishRetry(s) PROVE RetriedWorkIsDurable'
  BY <1>16 DEF RetriedWorkIsDurable, ActiveRetries, PublishRetry
<1>17. ASSUME NEW s \in Sweepers, RetryOutage(s) PROVE RetriedWorkIsDurable'
  BY <1>17 DEF RetriedWorkIsDurable, ActiveRetries, RetryOutage, RetryFault
<1>18. ASSUME NEW s \in Sweepers, FinishRetry(s) PROVE RetriedWorkIsDurable'
  BY <1>18
     DEF RetriedWorkIsDurable, ActiveRetries, FinishRetry, PublishFinished,
         HoldsPublish, Unclaimed
<1>19. ASSUME NEW s \in Sweepers, RetrySweepDies(s) PROVE RetriedWorkIsDurable'
  BY <1>19 DEF RetriedWorkIsDurable, ActiveRetries, RetrySweepDies, RetryFault
<1>20. CASE RetryDue
  BY <1>20 DEF RetriedWorkIsDurable, ActiveRetries, RetryDue
<1>21. CASE RetryLeaseEnds
  BY <1>21 DEF RetriedWorkIsDurable, ActiveRetries, RetryLeaseEnds
<1>22. CASE UNCHANGED retryVars
  BY <1>22 DEF RetriedWorkIsDurable, ActiveRetries, retryVars
<1> QED
  BY <1>1, <1>2, <1>3, <1>4, <1>5, <1>6, <1>7, <1>8, <1>9, <1>10, <1>11,
     <1>12, <1>13, <1>14, <1>15, <1>16, <1>17, <1>18, <1>19, <1>20, <1>21, <1>22
     DEF RetryDispatchNext, EnrichRun, SweepRetry

-----------------------------------------------------------------------------
(* Retries of enrich_run: theorems *)

\* The inductive invariant.
LEMMA RetryInvInvariant == RetryDispatchSpec => []RetryInv
<1>1. RetryDispatchInit => RetryInv
  BY RetryAssumption
     DEF RetryDispatchInit, RetryInv, RetryDispatchTypeOK, RetryRows, Retriers,
         RetrierPlaces, ClaimsFitStatus, YoungIsClaimed,
         CompletedIsSettled, NoneStaged, LockIsAtWork, Staged, Generations, ActiveRetries,
         IdleRetrier
<1>2. RetryInv /\ [RetryDispatchNext]_retryVars => RetryInv'
  BY TypeStep, ClaimStep, SettledStep, NoneStagedStep, LockStep DEF RetryInv
<1> QED
  BY <1>1, <1>2, PTL DEF RetryDispatchSpec

\* The row, the queue, the workers and maintenance keep their types.
THEOREM RetryTypeCorrect == RetryDispatchSpec => []RetryDispatchTypeOK
<1>1. RetryInv => RetryDispatchTypeOK
  BY DEF RetryInv
<1> QED
  BY <1>1, RetryInvInvariant, PTL

\* The CHECK constraints of migration 0016 are never the reason a statement fails.
THEOREM RetryClaimsFit == RetryDispatchSpec => []ClaimsFitStatus
<1>1. RetryInv => ClaimsFitStatus
  BY DEF RetryInv
<1> QED
  BY <1>1, RetryInvInvariant, PTL

\* No order of publications, deliveries, lost locks, deaths and failures forgets
\* requests that wait, provided recruiters' requests stay off the lock of the run.
THEOREM RetriesAreDurable ==
  ASSUME ~ OnDemandToo
  PROVE  RetryDispatchSpec => []RetriedWorkIsDurable
<1>1. RetryDispatchInit => RetriedWorkIsDurable
  BY DEF RetryDispatchInit, RetriedWorkIsDurable
<1>2. RetryInv /\ RetriedWorkIsDurable /\ [RetryDispatchNext]_retryVars
      => RetriedWorkIsDurable'
  BY DurableStep
<1> QED
  BY <1>1, <1>2, RetryInvInvariant, PTL DEF RetryDispatchSpec

\* A late confirmation, a stale message or an expired claim leaves a completed
\* row alone; a new generation may replace it.
LEMMA CompletedStep ==
  ASSUME RetryInv, retry.status = "completed", [RetryDispatchNext]_retryVars
  PROVE  retry' = retry \/ retry'.gen > retry.gen
<1> USE DEF RetryInv, RetryDispatchTypeOK, YoungIsClaimed, RetryRows, Generations, ActiveRetries
<1>1. CASE MatchDone
  BY <1>1 DEF MatchDone
<1>2. ASSUME NEW w \in Workers, NEW g \in Generations, TakeRetry(w, g)
      PROVE  retry' = retry \/ retry'.gen > retry.gen
  BY <1>2 DEF TakeRetry
<1>3. ASSUME NEW w \in Workers, BeginFresh(w) PROVE retry' = retry \/ retry'.gen > retry.gen
  BY <1>3 DEF BeginFresh
<1>4. ASSUME NEW w \in Workers, BeginRetry(w) PROVE retry' = retry \/ retry'.gen > retry.gen
  BY <1>4, RetryAssumption DEF BeginRetry, Return, Proceed, ClaimedBy, Deliverable
<1>5. ASSUME NEW w \in Workers, Pass(w) PROVE retry' = retry \/ retry'.gen > retry.gen
  BY <1>5 DEF Pass, Within
<1>6. ASSUME NEW w \in Workers, Stage(w) PROVE retry' = retry \/ retry'.gen > retry.gen
  BY <1>6, RetryAssumption DEF Stage, Return, HoldsDelivery
<1>7. ASSUME NEW w \in Workers, ClaimPublish(w) PROVE retry' = retry \/ retry'.gen > retry.gen
  BY <1>7, RetryAssumption DEF ClaimPublish, Return, Proceed, ClaimedBy
<1>8. ASSUME NEW w \in Workers, SendRetry(w) PROVE retry' = retry \/ retry'.gen > retry.gen
  BY <1>8 DEF SendRetry
<1>9. ASSUME NEW w \in Workers, SendOutage(w) PROVE retry' = retry \/ retry'.gen > retry.gen
  BY <1>9 DEF SendOutage
<1>10. ASSUME NEW w \in Workers, FinishPublish(w)
      PROVE  retry' = retry \/ retry'.gen > retry.gen
  BY <1>10, RetryAssumption DEF FinishPublish, PublishFinished, HoldsPublish, Unclaimed, Return
<1>11. ASSUME NEW w \in Workers, CompleteRetry(w)
      PROVE  retry' = retry \/ retry'.gen > retry.gen
  BY <1>11, RetryAssumption DEF CompleteRetry, HoldsDelivery, Unclaimed, Return
<1>12. ASSUME NEW w \in Workers, RetrierDies(w) PROVE retry' = retry \/ retry'.gen > retry.gen
  BY <1>12 DEF RetrierDies
<1>13. ASSUME NEW w \in Workers, PassFails(w) PROVE retry' = retry \/ retry'.gen > retry.gen
  BY <1>13, RetryAssumption
     DEF PassFails, RetryFault, Return, HoldsDelivery, ReleasedRetry, Unclaimed
<1>14. CASE LockLost
  BY <1>14 DEF LockLost
<1>15. ASSUME NEW s \in Sweepers, ClaimRetry(s) PROVE retry' = retry \/ retry'.gen > retry.gen
  BY <1>15, RetryAssumption DEF ClaimRetry, Recoverable, ClaimedBy
<1>16. ASSUME NEW s \in Sweepers, PublishRetry(s)
      PROVE  retry' = retry \/ retry'.gen > retry.gen
  BY <1>16 DEF PublishRetry
<1>17. ASSUME NEW s \in Sweepers, RetryOutage(s) PROVE retry' = retry \/ retry'.gen > retry.gen
  BY <1>17 DEF RetryOutage
<1>18. ASSUME NEW s \in Sweepers, FinishRetry(s) PROVE retry' = retry \/ retry'.gen > retry.gen
  BY <1>18, RetryAssumption DEF FinishRetry, PublishFinished, HoldsPublish, Unclaimed
<1>19. ASSUME NEW s \in Sweepers, RetrySweepDies(s)
      PROVE  retry' = retry \/ retry'.gen > retry.gen
  BY <1>19 DEF RetrySweepDies
<1>20. CASE RetryDue
  BY <1>20, RetryAssumption DEF RetryDue
<1>21. CASE RetryLeaseEnds
  BY <1>21, RetryAssumption DEF RetryLeaseEnds
<1>22. CASE UNCHANGED retryVars
  BY <1>22 DEF retryVars
<1> QED
  BY <1>1, <1>2, <1>3, <1>4, <1>5, <1>6, <1>7, <1>8, <1>9, <1>10, <1>11,
     <1>12, <1>13, <1>14, <1>15, <1>16, <1>17, <1>18, <1>19, <1>20, <1>21, <1>22
     DEF RetryDispatchNext, EnrichRun, SweepRetry

\* A completed generation is never active again.
THEOREM CompletedRetriesStay == RetryDispatchSpec => CompletedStaysCompleted
<1>1. RetryInv /\ [RetryDispatchNext]_retryVars
      => [retry.status = "completed" => retry' = retry \/ retry'.gen > retry.gen]_retryVars
  BY CompletedStep
<1> QED
  BY <1>1, RetryInvInvariant, PTL DEF RetryDispatchSpec, CompletedStaysCompleted

-----------------------------------------------------------------------------
(* Claims and sweeps *)

\* A row keeps its type whatever is done to its claim; a claim is completed by
\* its holder only, and released it stays pending.
LEMMA ClaimChanges ==
  ASSUME NEW H, NoOne \notin H, NEW row \in [pending : BOOLEAN, holder : H \cup {NoOne}],
         NEW h \in H
  PROVE  /\ NoClaim \in [pending : BOOLEAN, holder : H \cup {NoOne}]
         /\ Claimed(row, h) \in [pending : BOOLEAN, holder : H \cup {NoOne}]
         /\ Claimed(row, h).pending = row.pending /\ Claimed(row, h).holder = h
         /\ Completed(row, h) \in [pending : BOOLEAN, holder : H \cup {NoOne}]
         /\ Released(row, h) \in [pending : BOOLEAN, holder : H \cup {NoOne}]
         /\ Released(row, h).pending = row.pending
         /\ Completed(row, h).pending = row.pending \/ Owns(row, h)
         /\ Completed(row, h).pending => row.pending
         /\ Completed(row, h).holder \in {row.holder, NoOne}
         /\ Released(row, h).holder \in {row.holder, NoOne}
BY DEF NoClaim, Claimed, Completed, Released, Owns

\* A maintenance task works its batch off.
LEMMA SweepChanges ==
  ASSUME NEW items, NEW batch \in Sweeps(items), NEW i \in items, NEW S \in SUBSET items
  PROVE  /\ NoSweep \in Sweeps(items) /\ NoSweep.at = "publish" /\ NoSweep.left = {}
         /\ SweepOf(S) \in Sweeps(items) /\ SweepOf(S).at = "publish" /\ SweepOf(S).left = S
         /\ Sent(batch, i) \in Sweeps(items) /\ Sent(batch, i).at = "complete"
         /\ Sent(batch, i).item = i /\ Sent(batch, i).left \subseteq batch.left
         /\ Refused(batch, i) \in Sweeps(items) /\ Refused(batch, i).at = "release"
         /\ Refused(batch, i).item = i /\ Refused(batch, i).left \subseteq batch.left
         /\ Finished(batch) \in Sweeps(items) /\ Finished(batch).at = "publish"
         /\ Finished(batch).left = batch.left
BY DEF NoSweep, SweepOf, Sweeps, Sent, Refused, Finished

-----------------------------------------------------------------------------
(* Runs *)

\* Whoever is at work on a run is at work on one that was started.
AtWorkOnStarted ==
  /\ \A c \in ApiProcesses : start[c].at # "idle" => start[c].run \in Started
  /\ \A s \in Sweepers : /\ sweep[s].left \subseteq Started
                         /\ sweep[s].at # "publish" => sweep[s].item \in Started
  /\ \A r \in Runs : run[r].claim.pending => r \in Started

\* The message of a run is in the broker, or did its work.
RunIsPublished(r) == r \in planned \/ run[r].state # "queued"

\* Who is about to say that a run is dispatched has published it.
PublishedBeforeCleared ==
  /\ \A c \in ApiProcesses : start[c].at = "clear" => RunIsPublished(start[c].run)
  /\ \A s \in Sweepers : sweep[s].at = "complete" => RunIsPublished(sweep[s].item)

RunDispatchInv == /\ RunDispatchTypeOK /\ AtWorkOnStarted /\ PublishedBeforeCleared
                  /\ QueuedRunIsOnItsWay

\* A step on the claim of a run is a step on nothing else of it.
LEMMA RunClaimType ==
  ASSUME RunDispatchTypeOK, NEW r \in Runs, NEW s \in Sweepers
  PROVE  /\ run[r] \in RunRows
         /\ \A claim \in [pending : BOOLEAN, holder : Sweepers \cup {NoOne}] :
              [run[r] EXCEPT !.claim = claim] \in RunRows
         /\ [run[r] EXCEPT !.claim = Claimed(@, s)] \in RunRows
         /\ [run[r] EXCEPT !.claim = Completed(@, s)] \in RunRows
         /\ [run[r] EXCEPT !.claim = Released(@, s)] \in RunRows
<1>1. run[r] \in RunRows
  BY DEF RunDispatchTypeOK
<1>2. run[r].claim \in [pending : BOOLEAN, holder : Sweepers \cup {NoOne}]
  BY <1>1 DEF RunRows
<1>3. \A claim \in [pending : BOOLEAN, holder : Sweepers \cup {NoOne}] :
        [run[r] EXCEPT !.claim = claim] \in RunRows
  BY <1>1 DEF RunRows
<1>4. /\ Claimed(run[r].claim, s) \in [pending : BOOLEAN, holder : Sweepers \cup {NoOne}]
      /\ Completed(run[r].claim, s) \in [pending : BOOLEAN, holder : Sweepers \cup {NoOne}]
      /\ Released(run[r].claim, s) \in [pending : BOOLEAN, holder : Sweepers \cup {NoOne}]
  BY <1>2, ClaimChanges, ClaimAssumption
<1> QED
  BY <1>1, <1>3, <1>4

\* What the steps of requests and maintenance tasks make of the rows.
RunRowsOnly ==
  /\ run' \in [Runs -> RunRows]
  /\ \A r \in Started : /\ run'[r].version = run[r].version
                        /\ run'[r].state = "queued" => run[r].state = "queued"

\* A row keeps its type; once started it keeps its version, and it is never
\* queued again.
LEMMA RunRowsStep ==
  ASSUME RunDispatchTypeOK, [RunDispatchNext]_runDispatchVars
  PROVE  RunRowsOnly
<1> USE DEF RunRowsOnly, Started
<1>1. CASE run' = run
  BY <1>1 DEF RunDispatchTypeOK
<1>2. ASSUME NEW c \in ApiProcesses, NEW k \in StartKeys, CreateRun(c, k)
      PROVE  RunRowsOnly
  <2>1. [version |-> scorecard, state |-> "queued",
         claim |-> [NoClaim EXCEPT !.pending = TRUE]] \in RunRows
    <3> DEFINE Claims == [pending : BOOLEAN, holder : Sweepers \cup {NoOne}]
    <3>1. [NoClaim EXCEPT !.pending = TRUE] \in Claims
      <4>1. NoClaim \in Claims
        BY DEF NoClaim
      <4>2. \A claim \in Claims : [claim EXCEPT !.pending = TRUE] \in Claims
        OBVIOUS
      <4> QED
        BY <4>1, <4>2
    <3>2. scorecard \in 0..LastScorecard
      BY RunDispatchAssumption DEF RunDispatchTypeOK
    <3> QED
      BY <3>1, <3>2 DEF RunRows, RunStates
  <2> DEFINE row == [version |-> scorecard, state |-> "queued",
                     claim |-> [NoClaim EXCEPT !.pending = TRUE]]
  <2>2. PICK q \in Runs \ Started : run' = [run EXCEPT ![q] = row]
    BY <1>2 DEF CreateRun
  <2>3. run \in [Runs -> RunRows] /\ row \in RunRows
    BY <2>1 DEF RunDispatchTypeOK
  <2> HIDE DEF row
  <2> QED
    BY <2>2, <2>3
<1>3. ASSUME NEW c \in ApiProcesses, ClearStart(c)
      PROVE  RunRowsOnly
  <2>1. \A r \in Runs : [run[r] EXCEPT !.claim.pending = FALSE] \in RunRows
    BY DEF RunDispatchTypeOK, RunRows
  <2> QED
    BY <1>3, <2>1 DEF RunDispatchTypeOK, ClearStart, RunRows
<1>4. ASSUME NEW s \in Sweepers, ClaimRuns(s)
      PROVE  RunRowsOnly
  <2>1. PICK due \in SUBSET Runs :
          run' = [r \in Runs |-> IF r \in due THEN [run[r] EXCEPT !.claim = Claimed(@, s)]
                                 ELSE run[r]]
    BY <1>4 DEF ClaimRuns
  <2> QED
    BY <2>1, RunClaimType DEF RunRows
<1>5. ASSUME NEW s \in Sweepers, FinishRun(s)
      PROVE  RunRowsOnly
  <2> DEFINE q == sweep[s].item
  <2>1. \/ run' = [run EXCEPT ![q] = [run[q] EXCEPT !.claim = Completed(@, s)]]
        \/ run' = [run EXCEPT ![q] = [run[q] EXCEPT !.claim = Released(@, s)]]
    BY <1>5 DEF FinishRun
  <2>2. run \in [Runs -> RunRows]
    BY DEF RunDispatchTypeOK
  <2>3. CASE q \notin Runs
    BY <2>1, <2>2, <2>3
  <2>4. CASE q \in Runs
    <3> DEFINE done == [run[q] EXCEPT !.claim = Completed(@, s)]
               freed == [run[q] EXCEPT !.claim = Released(@, s)]
    <3>1. /\ done \in RunRows /\ done.version = run[q].version /\ done.state = run[q].state
          /\ freed \in RunRows /\ freed.version = run[q].version /\ freed.state = run[q].state
      BY <2>4, RunClaimType DEF RunRows
    <3>2. run' = [run EXCEPT ![q] = done] \/ run' = [run EXCEPT ![q] = freed]
      BY <2>1
    <3> HIDE DEF done, freed
    <3> QED
      BY <2>2, <2>4, <3>1, <3>2
  <2> QED
    BY <2>3, <2>4
<1>6. ASSUME NEW r \in Runs, DeliverPlan(r)
      PROVE  RunRowsOnly
  <2>1. \A s \in RunStates : [run[r] EXCEPT !.state = s] \in RunRows
    BY DEF RunDispatchTypeOK, RunRows
  <2>2. run' = [run EXCEPT ![r] = [run[r] EXCEPT !.state = IF @ = "queued" THEN "sourcing" ELSE @]]
    BY <1>6 DEF DeliverPlan
  <2>3. run[r].state \in RunStates /\ "sourcing" \in RunStates
    BY DEF RunDispatchTypeOK, RunRows, RunStates
  <2> QED
    BY <2>1, <2>2, <2>3 DEF RunDispatchTypeOK, RunRows
<1>7. ASSUME NEW r \in Runs, EndRun(r)
      PROVE  RunRowsOnly
  <2>1. \A s \in RunStates : [run[r] EXCEPT !.state = s] \in RunRows
    BY DEF RunDispatchTypeOK, RunRows
  <2>2. PICK s \in {"partially_ready", "cancelled"} : run' = [run EXCEPT ![r].state = s]
    BY <1>7 DEF EndRun
  <2>3. s \in RunStates /\ s # "queued"
    BY DEF RunStates
  <2> QED
    BY <2>1, <2>2, <2>3 DEF RunDispatchTypeOK, RunRows
<1> QED
  BY <1>1, <1>2, <1>3, <1>4, <1>5, <1>6, <1>7
  DEF RunDispatchNext, runDispatchVars, StartRequest, SweepRuns, ReplayStart, AdoptRun,
      PublishStart, StartOutage, StartDies, PublishRun, RunOutage, SweepDies, RunLeaseEnds,
      ConfirmScorecard

\* Requests, maintenance tasks and the broker keep their types.
LEMMA RunTypeStep ==
  ASSUME RunDispatchTypeOK, AtWorkOnStarted, [RunDispatchNext]_runDispatchVars
  PROVE  RunDispatchTypeOK'
<1>1. run' \in [Runs -> RunRows]
  BY RunRowsStep DEF RunRowsOnly
<1>2. CASE UNCHANGED runDispatchVars
  BY <1>2 DEF RunDispatchTypeOK, runDispatchVars
<1>3. ASSUME NEW c \in ApiProcesses, NEW k \in StartKeys,
             ReplayStart(c, k) \/ AdoptRun(c, k) \/ CreateRun(c, k)
      PROVE  RunDispatchTypeOK'
  <2>1. PICK r \in Runs : Dispatch(c, r) /\ answer' \in {answer, [answer EXCEPT ![k] = r]}
    BY <1>3 DEF ReplayStart, AdoptRun, CreateRun, RunsOfScorecard, Started,
       RunDispatchTypeOK
  <2>2. start' \in [ApiProcesses -> [at : {"idle", "publish", "clear"}, run : Runs \cup {NoItem}]]
    BY <2>1 DEF Dispatch, RunDispatchTypeOK
  <2> QED
    BY <1>1, <1>3, <2>1, <2>2 DEF ReplayStart, AdoptRun, CreateRun, RunDispatchTypeOK
<1>4. ASSUME NEW c \in ApiProcesses,
             PublishStart(c) \/ ClearStart(c) \/ StartOutage(c) \/ StartDies(c)
      PROVE  RunDispatchTypeOK'
  <2>1. IdleStart \in [at : {"idle", "publish", "clear"}, run : Runs \cup {NoItem}]
    BY DEF IdleStart
  <2>2. [start[c] EXCEPT !.at = "clear"] \in
          [at : {"idle", "publish", "clear"}, run : Runs \cup {NoItem}]
    BY DEF RunDispatchTypeOK
  <2>3. start[c].at # "idle" => start[c].run \in Runs
    BY DEF AtWorkOnStarted, Started
  <2>4. startFaults < MaxFaults => startFaults + 1 \in 0..MaxFaults
    BY ClaimAssumption DEF RunDispatchTypeOK
  <2> QED
    BY <1>1, <1>4, <2>1, <2>2, <2>3, <2>4
    DEF PublishStart, ClearStart, StartOutage, StartDies, RunDispatchTypeOK
<1>5. ASSUME NEW s \in Sweepers, ClaimRuns(s)
      PROVE  RunDispatchTypeOK'
  <2>1. PICK due \in SUBSET Runs : /\ sweep' = [sweep EXCEPT ![s] = SweepOf(due)]
                                  /\ runLease' = [runLease EXCEPT ![s] = @ \cup due]
    BY <1>5 DEF ClaimRuns, Started
  <2>2. SweepOf(due) \in Sweeps(Runs)
    BY DEF SweepOf, Sweeps
  <2> QED
    BY <1>1, <1>5, <2>1, <2>2 DEF ClaimRuns, RunDispatchTypeOK
<1>6. ASSUME NEW s \in Sweepers, PublishRun(s) \/ RunOutage(s)
      PROVE  RunDispatchTypeOK'
  <2>1. PICK r \in sweep[s].left : /\ sweep' = [sweep EXCEPT ![s] = Sent(@, r)]
                                     \/ sweep' = [sweep EXCEPT ![s] = Refused(@, r)]
                                  /\ planned' \in {planned, planned \cup {r}}
    BY <1>6 DEF PublishRun, RunOutage
  <2>2. r \in Runs /\ sweep[s] \in Sweeps(Runs)
    BY DEF RunDispatchTypeOK, Sweeps
  <2>3. Sent(sweep[s], r) \in Sweeps(Runs) /\ Refused(sweep[s], r) \in Sweeps(Runs)
    BY <2>2, SweepChanges
  <2>4. startFaults < MaxFaults => startFaults + 1 \in 0..MaxFaults
    BY ClaimAssumption DEF RunDispatchTypeOK
  <2> QED
    BY <1>1, <1>6, <2>1, <2>2, <2>3, <2>4 DEF PublishRun, RunOutage, RunDispatchTypeOK
<1>7. ASSUME NEW s \in Sweepers, FinishRun(s) \/ SweepDies(s)
      PROVE  RunDispatchTypeOK'
  <2>1. sweep[s] \in Sweeps(Runs) /\ NoSweep \in Sweeps(Runs)
    BY DEF RunDispatchTypeOK, Sweeps, NoSweep, SweepOf
  <2>2. Finished(sweep[s]) \in Sweeps(Runs)
    BY <2>1 DEF Finished, SweepOf, Sweeps
  <2>3. startFaults < MaxFaults => startFaults + 1 \in 0..MaxFaults
    BY ClaimAssumption DEF RunDispatchTypeOK
  <2> QED
    BY <1>1, <1>7, <2>1, <2>2, <2>3 DEF FinishRun, SweepDies, RunDispatchTypeOK
<1>8. ASSUME NEW s \in Sweepers, NEW r \in Runs, RunLeaseEnds(s, r)
      PROVE  RunDispatchTypeOK'
  BY <1>1, <1>8 DEF RunLeaseEnds, RunDispatchTypeOK
<1>9. ASSUME NEW r \in Runs, DeliverPlan(r) \/ EndRun(r)
      PROVE  RunDispatchTypeOK'
  BY <1>1, <1>9 DEF DeliverPlan, EndRun, RunDispatchTypeOK
<1>10. CASE ConfirmScorecard
  BY <1>1, <1>10, RunDispatchAssumption DEF ConfirmScorecard, RunDispatchTypeOK
<1> QED
  BY <1>2, <1>3, <1>4, <1>5, <1>6, <1>7, <1>8, <1>9, <1>10
  DEF RunDispatchNext, StartRequest, SweepRuns

\* A started run stays started.
LEMMA StartedStays ==
  ASSUME RunDispatchTypeOK, [RunDispatchNext]_runDispatchVars
  PROVE  Started \subseteq Started'
BY RunRowsStep DEF RunRowsOnly, Started

\* Only a start begins work on a run, and only on one it has started.
LEMMA AtWorkStep ==
  ASSUME RunDispatchTypeOK, AtWorkOnStarted, [RunDispatchNext]_runDispatchVars
  PROVE  AtWorkOnStarted'
<1> SUFFICES /\ \A c \in ApiProcesses :
                  start'[c].at # "idle" => start'[c].run \in Started'
             /\ \A s \in Sweepers :
                  /\ sweep'[s].left \subseteq Started'
                  /\ sweep'[s].at # "publish" => sweep'[s].item \in Started'
             /\ \A r \in Runs : run'[r].claim.pending => r \in Started'
  BY DEF AtWorkOnStarted
<1>0. Started \subseteq Started'
  BY StartedStays
<1>1. ASSUME NEW c \in ApiProcesses, start'[c].at # "idle"
      PROVE  start'[c].run \in Started'
  <2>1. CASE start'[c].run = start[c].run /\ start[c].at # "idle"
    BY <1>0, <2>1 DEF AtWorkOnStarted
  <2>2. ASSUME NEW k \in StartKeys, ReplayStart(c, k)
        PROVE  start'[c].run \in Started'
    <3>1. start'[c].run = answer[k] /\ answer[k] \in Runs
      BY <2>2 DEF ReplayStart, Dispatch, RunDispatchTypeOK
    <3> QED
      BY <1>0, <2>2, <3>1 DEF ReplayStart, AtWorkOnStarted
  <2>3. ASSUME NEW k \in StartKeys, AdoptRun(c, k)
        PROVE  start'[c].run \in Started'
    BY <1>0, <2>3 DEF AdoptRun, RunsOfScorecard, Dispatch, RunDispatchTypeOK
  <2>4. ASSUME NEW k \in StartKeys, CreateRun(c, k)
        PROVE  start'[c].run \in Started'
    BY <2>4 DEF CreateRun, Dispatch, Started, RunDispatchTypeOK
  <2>5. ASSUME NEW b \in ApiProcesses,
               PublishStart(b) \/ ClearStart(b) \/ StartOutage(b) \/ StartDies(b)
        PROVE  start'[c].run = start[c].run /\ start[c].at # "idle"
    BY <1>1, <2>5 DEF PublishStart, ClearStart, StartOutage, StartDies, IdleStart,
       RunDispatchTypeOK
  <2>6. ASSUME NEW b \in ApiProcesses, NEW k \in StartKeys, b # c,
               ReplayStart(b, k) \/ AdoptRun(b, k) \/ CreateRun(b, k)
        PROVE  start'[c] = start[c]
    BY <2>6 DEF ReplayStart, AdoptRun, CreateRun, Dispatch, RunDispatchTypeOK
  <2>7. CASE start' = start
    BY <1>1, <2>1, <2>7
  <2> QED
    BY <1>1, <2>1, <2>2, <2>3, <2>4, <2>5, <2>6, <2>7
    DEF RunDispatchNext, runDispatchVars, StartRequest, SweepRuns, ClaimRuns, PublishRun,
        RunOutage, FinishRun, SweepDies, RunLeaseEnds, DeliverPlan, EndRun,
        ConfirmScorecard
<1>2. ASSUME NEW s \in Sweepers
      PROVE  /\ sweep'[s].left \subseteq Started'
             /\ sweep'[s].at # "publish" => sweep'[s].item \in Started'
  <2>1. CASE sweep'[s] = sweep[s]
    BY <1>0, <2>1 DEF AtWorkOnStarted
  <2>2. CASE ClaimRuns(s)
    BY <1>0, <2>2 DEF ClaimRuns, SweepOf, RunDispatchTypeOK
  <2>3. CASE PublishRun(s) \/ RunOutage(s)
    <3>1. PICK r \in sweep[s].left : sweep'[s] \in {Sent(sweep[s], r), Refused(sweep[s], r)}
      BY <2>3 DEF PublishRun, RunOutage, RunDispatchTypeOK
    <3> QED
      BY <1>0, <3>1 DEF Sent, Refused, AtWorkOnStarted
  <2>4. CASE FinishRun(s) \/ SweepDies(s)
    BY <1>0, <2>4 DEF FinishRun, SweepDies, Finished, NoSweep, SweepOf, AtWorkOnStarted,
       RunDispatchTypeOK
  <2> QED
    BY <2>1, <2>2, <2>3, <2>4
    DEF RunDispatchNext, runDispatchVars, StartRequest, SweepRuns, ReplayStart, AdoptRun,
        CreateRun, PublishStart, ClearStart, StartOutage, StartDies, ClaimRuns, PublishRun,
        RunOutage, FinishRun, SweepDies, RunLeaseEnds, DeliverPlan, EndRun,
        ConfirmScorecard, RunDispatchTypeOK
<1>3. ASSUME NEW r \in Runs, run'[r].claim.pending
      PROVE  r \in Started'
  <2>1. CASE r \in Started
    BY <1>0, <2>1
  <2>2. CASE r \notin Started
    <3>1. ~ run[r].claim.pending
      BY <2>2 DEF AtWorkOnStarted
    <3>2. ASSUME NEW c \in ApiProcesses, NEW k \in StartKeys, CreateRun(c, k)
          PROVE  r \in Started'
      BY <1>3, <3>1, <3>2 DEF CreateRun, Started, RunDispatchTypeOK
    <3>3. ASSUME NEW c \in ApiProcesses, ClearStart(c)
          PROVE  FALSE
      BY <1>3, <3>1, <3>3 DEF ClearStart, RunDispatchTypeOK, RunRows
    <3>4. ASSUME NEW s \in Sweepers, ClaimRuns(s)
          PROVE  FALSE
      BY <1>3, <2>2, <3>1, <3>4 DEF ClaimRuns, RunDispatchTypeOK
    <3>5. ASSUME NEW s \in Sweepers, FinishRun(s)
          PROVE  FALSE
      <4>1. sweep[s].item # r
        BY <2>2, <3>5 DEF FinishRun, AtWorkOnStarted
      <4> QED
        BY <1>3, <3>1, <3>5, <4>1 DEF FinishRun, RunDispatchTypeOK
    <3>6. ASSUME NEW q \in Runs, DeliverPlan(q) \/ EndRun(q)
          PROVE  FALSE
      BY <1>3, <3>1, <3>6 DEF DeliverPlan, EndRun, RunDispatchTypeOK, RunRows
    <3> QED
      BY <1>3, <3>1, <3>2, <3>3, <3>4, <3>5, <3>6
      DEF RunDispatchNext, runDispatchVars, StartRequest, SweepRuns, ReplayStart, AdoptRun,
          PublishStart, StartOutage, StartDies, PublishRun, RunOutage, SweepDies,
          RunLeaseEnds, ConfirmScorecard
  <2> QED
    BY <2>1, <2>2
<1> QED
  BY <1>1, <1>2, <1>3

\* A message leaves the broker when it does its work.
LEMMA PublishedStays ==
  ASSUME RunDispatchTypeOK, [RunDispatchNext]_runDispatchVars, NEW r \in Started,
         RunIsPublished(r)
  PROVE  RunIsPublished(r)'
<1>1. run'[r].state = "queued" => run[r].state = "queued"
  BY RunRowsStep DEF RunRowsOnly
<1>2. ASSUME NEW q \in Runs, DeliverPlan(q)
      PROVE  RunIsPublished(r)'
  BY <1>1, <1>2 DEF DeliverPlan, RunIsPublished, RunDispatchTypeOK, RunRows, Started
<1>3. CASE planned \subseteq planned'
  BY <1>1, <1>3 DEF RunIsPublished
<1> QED
  BY <1>2, <1>3
  DEF RunDispatchNext, runDispatchVars, StartRequest, SweepRuns, ReplayStart, AdoptRun,
      CreateRun, PublishStart, ClearStart, StartOutage, StartDies, ClaimRuns, PublishRun,
      RunOutage, FinishRun, SweepDies, RunLeaseEnds, EndRun, ConfirmScorecard

\* The publication comes before the flag, for requests and for maintenance.
LEMMA ClearedStep ==
  ASSUME RunDispatchTypeOK, AtWorkOnStarted, PublishedBeforeCleared,
         [RunDispatchNext]_runDispatchVars
  PROVE  PublishedBeforeCleared'
<1>1. ASSUME NEW c \in ApiProcesses, start'[c].at = "clear"
      PROVE  /\ start'[c].run = start[c].run
             /\ start[c].at = "clear" \/ PublishStart(c)
  <2>1. ASSUME NEW b \in ApiProcesses,
               PublishStart(b) \/ ClearStart(b) \/ StartOutage(b) \/ StartDies(b)
        PROVE  /\ start'[c].run = start[c].run
               /\ start[c].at = "clear" \/ PublishStart(c)
    BY <1>1, <2>1 DEF PublishStart, ClearStart, StartOutage, StartDies, IdleStart,
       RunDispatchTypeOK
  <2>2. ASSUME NEW b \in ApiProcesses, NEW k \in StartKeys,
               ReplayStart(b, k) \/ AdoptRun(b, k) \/ CreateRun(b, k)
        PROVE  start'[c] = start[c]
    BY <1>1, <2>2 DEF ReplayStart, AdoptRun, CreateRun, Dispatch, RunDispatchTypeOK
  <2>3. CASE start' = start
    BY <1>1, <2>3
  <2> QED
    BY <1>1, <2>1, <2>2, <2>3
    DEF RunDispatchNext, runDispatchVars, StartRequest, SweepRuns, ClaimRuns, PublishRun,
        RunOutage, FinishRun, SweepDies, RunLeaseEnds, DeliverPlan, EndRun,
        ConfirmScorecard
<1>2. ASSUME NEW c \in ApiProcesses, start'[c].at = "clear"
      PROVE  RunIsPublished(start[c].run)'
  <2>1. PICK r : r = start[c].run
    OBVIOUS
  <2>2. start'[c].run = r /\ (start[c].at = "clear" \/ PublishStart(c))
    BY <1>1, <1>2, <2>1
  <2>3. r \in Started
    BY <2>1, <2>2 DEF AtWorkOnStarted, PublishStart
  <2>4. RunIsPublished(r)'
    BY <2>1, <2>2, <2>3, PublishedStays DEF PublishedBeforeCleared, PublishStart,
       RunIsPublished
  <2> QED
    BY <2>2, <2>4 DEF RunIsPublished
<1>3. ASSUME NEW s \in Sweepers, sweep'[s].at = "complete"
      PROVE  RunIsPublished(sweep[s].item)'
  <2>1. CASE sweep'[s] = sweep[s]
    <3>1. PICK r : r = sweep[s].item
      OBVIOUS
    <3>2. r \in Started /\ RunIsPublished(r)
      BY <1>3, <2>1, <3>1 DEF AtWorkOnStarted, PublishedBeforeCleared
    <3>3. RunIsPublished(r)'
      BY <3>2, PublishedStays
    <3> QED
      BY <2>1, <3>1, <3>3 DEF RunIsPublished
  <2>2. CASE PublishRun(s)
    <3>1. PICK r \in sweep[s].left : /\ planned' = planned \cup {r}
                                    /\ sweep' = [sweep EXCEPT ![s] = Sent(@, r)]
      BY <2>2 DEF PublishRun
    <3>2. sweep'[s].item = r
      BY <3>1 DEF Sent, RunDispatchTypeOK
    <3> QED
      BY <3>1, <3>2 DEF RunIsPublished
  <2>3. CASE ClaimRuns(s) \/ RunOutage(s) \/ FinishRun(s) \/ SweepDies(s)
    BY <1>3, <2>3 DEF ClaimRuns, RunOutage, Refused, FinishRun, SweepDies, Finished,
       NoSweep, SweepOf, RunDispatchTypeOK
  <2> QED
    BY <2>1, <2>2, <2>3
    DEF RunDispatchNext, runDispatchVars, StartRequest, SweepRuns, ReplayStart, AdoptRun,
        CreateRun, PublishStart, ClearStart, StartOutage, StartDies, ClaimRuns, PublishRun,
        RunOutage, FinishRun, SweepDies, RunLeaseEnds, DeliverPlan, EndRun,
        ConfirmScorecard, RunDispatchTypeOK
<1> QED
  BY <1>2, <1>3 DEF PublishedBeforeCleared, RunIsPublished

\* Only who has published clears the flag of a run that is still queued.
LEMMA FlagStays ==
  ASSUME RunDispatchTypeOK, AtWorkOnStarted, [RunDispatchNext]_runDispatchVars,
         NEW r \in Started, run[r].claim.pending, ~ run'[r].claim.pending
  PROVE  \/ \E c \in ApiProcesses : start[c].at = "clear" /\ start[c].run = r
         \/ \E s \in Sweepers : sweep[s].at = "complete" /\ sweep[s].item = r
<1>0. r \in Runs /\ run[r].claim \in [pending : BOOLEAN, holder : Sweepers \cup {NoOne}]
  BY DEF RunDispatchTypeOK, RunRows, Started
<1>1. ASSUME NEW c \in ApiProcesses, NEW k \in StartKeys, CreateRun(c, k)
      PROVE  FALSE
  BY <1>0, <1>1 DEF CreateRun, RunDispatchTypeOK
<1>2. ASSUME NEW c \in ApiProcesses, ClearStart(c)
      PROVE  start[c].at = "clear" /\ start[c].run = r
  BY <1>0, <1>2 DEF ClearStart, RunDispatchTypeOK
<1>3. ASSUME NEW s \in Sweepers, ClaimRuns(s)
      PROVE  FALSE
  <2>1. Claimed(run[r].claim, s).pending
    BY <1>0, ClaimChanges, ClaimAssumption
  <2> QED
    BY <1>0, <1>3, <2>1 DEF ClaimRuns, RunDispatchTypeOK, RunRows
<1>4. ASSUME NEW s \in Sweepers, FinishRun(s)
      PROVE  sweep[s].at = "complete" /\ sweep[s].item = r
  <2>1. Released(run[r].claim, s).pending
    BY <1>0, ClaimChanges, ClaimAssumption
  <2> QED
    BY <1>0, <1>4, <2>1 DEF FinishRun, RunDispatchTypeOK, RunRows
<1>5. ASSUME NEW q \in Runs, DeliverPlan(q) \/ EndRun(q)
      PROVE  FALSE
  BY <1>0, <1>5 DEF DeliverPlan, EndRun, RunDispatchTypeOK, RunRows
<1> QED
  BY <1>1, <1>2, <1>3, <1>4, <1>5
  DEF RunDispatchNext, runDispatchVars, StartRequest, SweepRuns, ReplayStart, AdoptRun,
      PublishStart, StartOutage, StartDies, PublishRun, RunOutage, SweepDies, RunLeaseEnds,
      ConfirmScorecard

\* A run is born pending, and stays so until its message is in the broker.
LEMMA OnItsWayStep ==
  ASSUME RunDispatchInv, [RunDispatchNext]_runDispatchVars
  PROVE  QueuedRunIsOnItsWay'
<1> USE DEF RunDispatchInv
<1> SUFFICES ASSUME NEW r \in Started', run'[r].state = "queued"
             PROVE  run'[r].claim.pending \/ r \in planned'
  BY DEF QueuedRunIsOnItsWay
<1>1. CASE r \in Started
  <2>1. run[r].state = "queued"
    BY <1>1, RunRowsStep DEF RunRowsOnly
  <2>2. CASE RunIsPublished(r)
    BY <1>1, <2>2, PublishedStays DEF RunIsPublished
  <2>3. CASE ~ RunIsPublished(r)
    <3>1. run[r].claim.pending
      BY <1>1, <2>1, <2>3 DEF QueuedRunIsOnItsWay, RunIsPublished
    <3> QED
      BY <1>1, <2>3, <3>1, FlagStays DEF PublishedBeforeCleared
  <2> QED
    BY <2>2, <2>3
<1>2. CASE r \notin Started
  <2>1. r \in Runs /\ run[r].version = 0 /\ run'[r].version # 0
    BY <1>2 DEF Started
  <2>2. PICK c \in ApiProcesses, k \in StartKeys : CreateRun(c, k)
    <3>1. ASSUME NEW c \in ApiProcesses, ClearStart(c)
          PROVE  FALSE
      BY <2>1, <3>1 DEF ClearStart, RunDispatchTypeOK, RunRows
    <3>2. ASSUME NEW s \in Sweepers, ClaimRuns(s) \/ FinishRun(s)
          PROVE  FALSE
      BY <2>1, <3>2 DEF ClaimRuns, FinishRun, RunDispatchTypeOK, RunRows
    <3>3. ASSUME NEW q \in Runs, DeliverPlan(q) \/ EndRun(q)
          PROVE  FALSE
      BY <2>1, <3>3 DEF DeliverPlan, EndRun, RunDispatchTypeOK, RunRows
    <3> QED
      BY <2>1, <3>1, <3>2, <3>3
      DEF RunDispatchNext, runDispatchVars, StartRequest, SweepRuns, ReplayStart, AdoptRun,
          PublishStart, StartOutage, StartDies, PublishRun, RunOutage, SweepDies,
          RunLeaseEnds, ConfirmScorecard
  <2> QED
    BY <2>1, <2>2 DEF CreateRun, NoClaim, RunDispatchTypeOK
<1> QED
  BY <1>1, <1>2

\* The dispatch of runs: types, and no committed run is forgotten.
LEMMA RunDispatchInvariant == RunDispatchSpec => []RunDispatchInv
<1>1. RunDispatchInit => RunDispatchInv
  <2> SUFFICES ASSUME RunDispatchInit PROVE RunDispatchInv
    OBVIOUS
  <2>1. RunDispatchTypeOK
    BY RunDispatchAssumption, ClaimAssumption DEF RunDispatchInit, RunDispatchTypeOK,
       RunRows, RunStates, NoClaim, IdleStart, NoSweep, SweepOf, Sweeps
  <2>2. Started = {}
    BY DEF RunDispatchInit, Started
  <2> QED
    BY <2>1, <2>2 DEF RunDispatchInit, RunDispatchInv, AtWorkOnStarted,
       PublishedBeforeCleared, QueuedRunIsOnItsWay, NoClaim, IdleStart, NoSweep, SweepOf
<1>2. RunDispatchInv /\ [RunDispatchNext]_runDispatchVars => RunDispatchInv'
  BY RunTypeStep, AtWorkStep, ClearedStep, OnItsWayStep DEF RunDispatchInv
<1> QED
  BY <1>1, <1>2, PTL DEF RunDispatchSpec

\* A run is created for a version only when there is none.
LEMMA OnceStep ==
  ASSUME RunDispatchTypeOK, ScorecardIsRunOnce, [RunDispatchNext]_runDispatchVars
  PROVE  ScorecardIsRunOnce'
<1>1. \A r \in Started : run'[r].version = run[r].version
  BY RunRowsStep DEF RunRowsOnly
<1>2. ASSUME NEW r \in Started', r \notin Started
      PROVE  /\ run'[r].version = scorecard /\ RunsOfScorecard = {}
             /\ \A q \in Started' : q \notin Started => q = r
  <2>1. r \in Runs /\ run[r].version = 0 /\ run'[r].version # 0
    BY <1>2 DEF Started
  <2>2. ASSUME NEW c \in ApiProcesses, NEW k \in StartKeys, CreateRun(c, k)
        PROVE  /\ run'[r].version = scorecard /\ RunsOfScorecard = {}
               /\ \A q \in Started' : q \notin Started => q = r
    BY <2>1, <2>2 DEF CreateRun, Started, RunDispatchTypeOK
  <2>3. ASSUME NEW c \in ApiProcesses, ClearStart(c)
        PROVE  FALSE
    BY <2>1, <2>3 DEF ClearStart, RunDispatchTypeOK, RunRows
  <2>4. ASSUME NEW s \in Sweepers, ClaimRuns(s) \/ FinishRun(s)
        PROVE  FALSE
    BY <2>1, <2>4 DEF ClaimRuns, FinishRun, RunDispatchTypeOK, RunRows
  <2>5. ASSUME NEW q \in Runs, DeliverPlan(q) \/ EndRun(q)
        PROVE  FALSE
    BY <2>1, <2>5 DEF DeliverPlan, EndRun, RunDispatchTypeOK, RunRows
  <2> QED
    BY <2>1, <2>2, <2>3, <2>4, <2>5
    DEF RunDispatchNext, runDispatchVars, StartRequest, SweepRuns, ReplayStart, AdoptRun,
        PublishStart, StartOutage, StartDies, PublishRun, RunOutage, SweepDies,
        RunLeaseEnds, ConfirmScorecard
<1> SUFFICES ASSUME NEW r \in Started', NEW q \in Started',
                    run'[r].version = run'[q].version
             PROVE  r = q
  BY DEF ScorecardIsRunOnce
<1>3. CASE r \in Started /\ q \in Started
  BY <1>1, <1>3 DEF ScorecardIsRunOnce
<1>4. CASE r \notin Started
  BY <1>1, <1>2, <1>4 DEF RunsOfScorecard
<1>5. CASE q \notin Started
  BY <1>1, <1>2, <1>5 DEF RunsOfScorecard
<1> QED
  BY <1>3, <1>4, <1>5

\* Whatever keys recruiters use and repeat, whatever dies or is published twice,
\* a scorecard version is run once.
THEOREM RunOnce == RunDispatchSpec => []ScorecardIsRunOnce
<1>1. RunDispatchInit => ScorecardIsRunOnce
  BY DEF RunDispatchInit, ScorecardIsRunOnce, Started
<1>2. RunDispatchInv => RunDispatchTypeOK
  BY DEF RunDispatchInv
<1> QED
  BY <1>1, <1>2, OnceStep, RunDispatchInvariant, PTL DEF RunDispatchSpec

-----------------------------------------------------------------------------
(* On-demand requests *)

DemandClaims == [pending : BOOLEAN, holder : Holders \cup {NoOne}]
DemandRows == [status : {"none", "queued", "submitting", "over"}, due : BOOLEAN,
               tries : 0..MaxLimits - 1, claim : DemandClaims]

\* Whoever is at work is at work on a request, and a worker only while at work.
AtWorkOnDemands ==
  /\ \A a \in ApiProcesses : asking[a].at # "idle" => asking[a].request \in DemandRequests
  /\ \A s \in Sweepers : demandSweep[s].at # "publish" => demandSweep[s].item \in DemandRequests
  /\ \A w \in Workers : exec[w].at # "idle" <=> exec[w].request \in DemandRequests

\* A message of the request waits, or a worker is at it.
InHand(d) == d \in asked \/ \E w \in Workers : exec[w].request = d

\* Who is about to say that a request is dispatched, and still holds its claim,
\* has published it, and nobody has given the message up.
PublishedBeforeCompleted ==
  /\ \A a \in ApiProcesses, d \in DemandRequests :
       asking[a].at = "complete" /\ asking[a].request = d /\ demand[d].claim.holder = a
         => InHand(d) \/ demand[d].status \notin Open
  /\ \A s \in Sweepers, d \in DemandRequests :
       demandSweep[s].at = "complete" /\ demandSweep[s].item = d /\ demand[d].claim.holder = s
         => InHand(d) \/ demand[d].status \notin Open

DemandInv == /\ DemandDispatchTypeOK /\ AtWorkOnDemands /\ PublishedBeforeCompleted
             /\ DemandIsOnItsWay

\* What the claim operators make of a request.
LEMMA DemandClaimEdits ==
  ASSUME NEW row \in DemandRows, NEW h \in Holders
  PROVE  /\ row.claim \in DemandClaims
         /\ \A claim \in DemandClaims :
              /\ [row EXCEPT !.claim = claim] \in DemandRows
              /\ [row EXCEPT !.claim = claim].claim = claim
              /\ [row EXCEPT !.claim = claim].status = row.status
         /\ Claimed(row.claim, h) \in DemandClaims
         /\ Claimed(row.claim, h).pending = row.claim.pending
         /\ Claimed(row.claim, h).holder = h
         /\ Completed(row.claim, h) \in DemandClaims
         /\ Released(row.claim, h) \in DemandClaims
         /\ Released(row.claim, h).pending = row.claim.pending
         /\ Completed(row.claim, h).pending = row.claim.pending \/ Owns(row.claim, h)
         /\ Completed(row.claim, h).holder \in {row.claim.holder, NoOne}
         /\ Released(row.claim, h).holder \in {row.claim.holder, NoOne}
<1>1. row.claim \in DemandClaims /\ NoOne \notin Holders
  BY ClaimAssumption DEF DemandRows, Holders
<1>2. \A claim \in DemandClaims :
        /\ [row EXCEPT !.claim = claim] \in DemandRows
        /\ [row EXCEPT !.claim = claim].claim = claim
        /\ [row EXCEPT !.claim = claim].status = row.status
  BY DEF DemandRows
<1> QED
  BY <1>1, <1>2, ClaimChanges DEF DemandClaims

\* What a worker, and time, make of a request: it is over, ...
LEMMA OverRow ==
  ASSUME NEW row \in DemandRows
  PROVE  /\ Over(row) \in DemandRows /\ Over(row).status = "over"
         /\ [row EXCEPT !.status = "over"] \in DemandRows
         /\ [row EXCEPT !.status = "over"].status = "over"
<1>1. NoClaim \in DemandClaims
  BY DEF NoClaim, DemandClaims
<1> QED
  BY <1>1 DEF Over, DemandRows

\* ... or goes back to the outbox, ...
LEMMA PutBackRow ==
  ASSUME NEW row \in DemandRows
  PROVE  /\ PutBack(row) \in DemandRows /\ PutBack(row).status = row.status
         /\ PutBack(row).claim.holder = NoOne
         /\ PutBack(row).claim.pending <=> row.status \in Open
<1>1. [pending |-> row.status \in Open, holder |-> NoOne] \in DemandClaims
  BY DEF DemandClaims
<1> QED
  BY <1>1 DEF PutBack, DemandRows

\* ... or is submitted, or waits for another try.
LEMMA WorkedOnRow ==
  ASSUME NEW row \in DemandRows, NEW tries \in 0..MaxLimits - 1
  PROVE  /\ [row EXCEPT !.status = "submitting", !.due = FALSE] \in DemandRows
         /\ [row EXCEPT !.status = "submitting", !.due = FALSE].claim = row.claim
         /\ [row EXCEPT !.status = "queued", !.tries = tries] \in DemandRows
         /\ [row EXCEPT !.status = "queued", !.tries = tries].claim = row.claim
BY DEF DemandRows

\* What a step may do to the row of a request.
SameStatus(d) == demand'[d].status = demand[d].status
IsAsked(d) ==
  \E a \in ApiProcesses : Ask(a, d) /\ demand'[d].claim.pending /\ demand'[d].claim.holder = a
IsClaimed(d) ==
  \E s \in Sweepers : /\ ClaimDemands(s) /\ demand'[d].claim.holder = s
                      /\ demand'[d].claim.pending = demand[d].claim.pending /\ SameStatus(d)
KeepsClaimOf(d, h) ==
  /\ demand'[d].claim.holder \in {demand[d].claim.holder, NoOne} /\ SameStatus(d)
  /\ demand'[d].claim.pending = demand[d].claim.pending \/ Owns(demand[d].claim, h)
IsDispatched(d) ==
  \/ \E a \in ApiProcesses :
       asking[a].at \in {"complete", "release"} /\ asking[a].request = d /\ KeepsClaimOf(d, a)
         /\ (asking[a].at = "complete" \/ demand'[d].claim.pending = demand[d].claim.pending)
  \/ \E s \in Sweepers :
       demandSweep[s].at \in {"complete", "release"} /\ demandSweep[s].item = d
         /\ KeepsClaimOf(d, s)
         /\ (demandSweep[s].at = "complete" \/ demand'[d].claim.pending = demand[d].claim.pending)
IsWorkedOn(d) ==
  /\ demand'[d].claim = demand[d].claim
  /\ demand[d].status \in Open \/ \E w \in Workers : exec'[w].request = d
IsPutBack(d) ==
  /\ demand'[d].claim.holder = NoOne /\ SameStatus(d)
  /\ demand'[d].claim.pending <=> demand[d].status \in Open

DemandMoves(d) ==
  /\ demand'[d] \in DemandRows
  /\ \/ demand'[d] = demand[d]
     \/ demand'[d].status = "over"
     \/ IsAsked(d) \/ IsClaimed(d) \/ IsDispatched(d) \/ IsWorkedOn(d) \/ IsPutBack(d)

\* A recruiter's request claims the row it creates or finds, ...
LEMMA AskMoves ==
  ASSUME DemandDispatchTypeOK, NEW a \in ApiProcesses, NEW q \in DemandRequests, Ask(a, q),
         NEW d \in DemandRequests
  PROVE  DemandMoves(d)
<1>1. demand \in [DemandRequests -> DemandRows] /\ a \in Holders
  BY DEF DemandDispatchTypeOK, DemandRows, DemandClaims, Holders
<1>2. CASE d # q
  BY <1>1, <1>2 DEF Ask, DemandMoves
<1>3. CASE d = q
  <2> DEFINE fresh == [demand[q] EXCEPT !.status = "queued", !.claim.pending = TRUE]
             row == IF demand[q].status = "none" THEN fresh ELSE demand[q]
  <2>1. row.claim.pending /\ demand' = [demand EXCEPT ![q] = [row EXCEPT !.claim = Claimed(@, a)]]
    BY DEF Ask, Claimable
  <2>2. row \in DemandRows
    <3>1. fresh \in DemandRows
      BY <1>1 DEF DemandRows, DemandClaims
    <3> QED
      BY <1>1, <3>1
  <2> HIDE DEF row
  <2>3. /\ [row EXCEPT !.claim = Claimed(@, a)] \in DemandRows
        /\ [row EXCEPT !.claim = Claimed(@, a)].claim = Claimed(row.claim, a)
    BY <1>1, <2>2, DemandClaimEdits
  <2> QED
    BY <1>1, <1>3, <2>1, <2>2, <2>3, DemandClaimEdits DEF DemandMoves, IsAsked
<1> QED
  BY <1>2, <1>3

\* ... a maintenance task claims the rows that are ready, ...
LEMMA ClaimMoves ==
  ASSUME DemandDispatchTypeOK, NEW s \in Sweepers, ClaimDemands(s), NEW d \in DemandRequests
  PROVE  DemandMoves(d)
<1>1. demand[d] \in DemandRows /\ s \in Holders
  BY DEF DemandDispatchTypeOK, DemandRows, DemandClaims, Holders
<1>2. demand'[d] = demand[d] \/ demand'[d] = [demand[d] EXCEPT !.claim = Claimed(@, s)]
  BY DEF ClaimDemands
<1>3. CASE demand'[d] = [demand[d] EXCEPT !.claim = Claimed(@, s)]
  BY <1>1, <1>3, DemandClaimEdits DEF DemandMoves, IsClaimed, SameStatus
<1> QED
  BY <1>1, <1>2, <1>3 DEF DemandMoves

\* ... and a claim that is finished changes its own row only.
LEMMA FinishMoves ==
  ASSUME DemandDispatchTypeOK, NEW h \in Holders, NEW q, NEW at \in {"complete", "release"},
         \/ at = "complete" /\ demand' = [demand EXCEPT ![q].claim = Completed(@, h)]
         \/ at = "release" /\ demand' = [demand EXCEPT ![q].claim = Released(@, h)],
         NEW d \in DemandRequests
  PROVE  /\ demand'[d] \in DemandRows
         /\ \/ demand'[d] = demand[d]
            \/ /\ q = d /\ KeepsClaimOf(d, h)
               /\ at = "complete" \/ demand'[d].claim.pending = demand[d].claim.pending
<1>1. demand \in [DemandRequests -> DemandRows]
  BY DEF DemandDispatchTypeOK, DemandRows, DemandClaims
<1>2. CASE d # q
  BY <1>1, <1>2
<1>3. CASE d = q
  <2> DEFINE done == [demand[d] EXCEPT !.claim = Completed(@, h)]
             freed == [demand[d] EXCEPT !.claim = Released(@, h)]
  <2>1. /\ done \in DemandRows /\ done.status = demand[d].status
        /\ done.claim = Completed(demand[d].claim, h)
        /\ freed \in DemandRows /\ freed.status = demand[d].status
        /\ freed.claim = Released(demand[d].claim, h)
    BY <1>1, DemandClaimEdits
  <2>2. \/ at = "complete" /\ demand'[d] = done
        \/ demand'[d] = freed
    BY <1>1, <1>3
  <2> HIDE DEF done, freed
  <2> QED
    BY <1>1, <1>3, <2>1, <2>2, DemandClaimEdits DEF KeepsClaimOf, SameStatus
<1> QED
  BY <1>2, <1>3

\* A step of a worker on the request it was given.
LEMMA WorkerMovesDemand ==
  ASSUME DemandDispatchTypeOK, AtWorkOnDemands, NEW w \in Workers, WorkOn(w),
         NEW d \in DemandRequests
  PROVE  DemandMoves(d)
<1>0. PICK q : q = exec[w].request
  OBVIOUS
<1>1. demand \in [DemandRequests -> DemandRows]
  BY DEF DemandDispatchTypeOK, DemandRows, DemandClaims
<1>2. q \in DemandRequests
  BY <1>0 DEF WorkOn, CheckDemand, CallProvider, RecordAnswer, Requeue, AtWorkOnDemands
<1>d. demand[d] \in DemandRows
  BY <1>1
<1>3. CASE demand'[d] = demand[d]
  BY <1>1, <1>3 DEF DemandMoves
<1>4. CASE d = q /\ demand'[d] = Over(demand[d])
  BY <1>d, <1>4, OverRow DEF DemandMoves
<1>5. CASE d = q /\ demand'[d] = PutBack(demand[d])
  BY <1>d, <1>5, PutBackRow DEF DemandMoves, IsPutBack, SameStatus
<1>6. CASE d = q /\ demand[d].status = "queued"
           /\ demand'[d] = [demand[d] EXCEPT !.status = "submitting", !.due = FALSE]
  <2>1. 0 \in 0..MaxLimits - 1 /\ demand[d] \in DemandRows
    BY <1>1, DemandAssumption
  <2> QED
    BY <1>6, <2>1, WorkedOnRow DEF DemandMoves, IsWorkedOn, Open
<1>7. CASE /\ d = q /\ demand[d].tries + 1 < MaxLimits /\ exec'[w].request = d
           /\ demand'[d] = [demand[d] EXCEPT !.status = "queued", !.tries = @ + 1]
  <2>1. demand[d].tries + 1 \in 0..MaxLimits - 1
    BY <1>1, <1>7, DemandAssumption DEF DemandRows
  <2> QED
    BY <1>d, <1>7, <2>1, WorkedOnRow DEF DemandMoves, IsWorkedOn
<1> QED
  BY <1>0, <1>1, <1>2, <1>3, <1>4, <1>5, <1>6, <1>7
  DEF WorkOn, CheckDemand, CallProvider, RecordAnswer, Requeue, Step, DemandDispatchTypeOK

\* The row of a request keeps its type, and moves in one of these ways.
LEMMA DemandRowStep ==
  ASSUME DemandDispatchTypeOK, AtWorkOnDemands, [DemandDispatchNext]_demandVars,
         NEW d \in DemandRequests
  PROVE  DemandMoves(d)
<1>1. demand \in [DemandRequests -> DemandRows]
  BY DEF DemandDispatchTypeOK, DemandRows, DemandClaims
<1>2. CASE demand' = demand
  BY <1>1, <1>2 DEF DemandMoves
<1>3. ASSUME NEW a \in ApiProcesses, FinishDemand(a)
      PROVE  DemandMoves(d)
  BY <1>3, FinishMoves DEF FinishDemand, DemandMoves, IsDispatched, Holders
<1>4. ASSUME NEW s \in Sweepers, FinishClaimed(s)
      PROVE  DemandMoves(d)
  BY <1>4, FinishMoves DEF FinishClaimed, DemandMoves, IsDispatched, Holders
<1>5. ASSUME NEW q \in DemandRequests, BecomesDue(q)
      PROVE  DemandMoves(d)
  <2>1. demand[q].status \in {"none", "queued", "submitting", "over"}
    BY <1>1 DEF DemandRows
  <2>2. CASE d # q
    BY <1>1, <1>5, <2>2 DEF BecomesDue, DemandMoves
  <2>3. CASE d = q
    <3>1. demand'[d] = [demand[d] EXCEPT !.due = TRUE] /\ demand[d].status \in Open
      BY <1>1, <1>5, <2>3 DEF BecomesDue
    <3>2. /\ [demand[d] EXCEPT !.due = TRUE] \in DemandRows
          /\ [demand[d] EXCEPT !.due = TRUE].claim = demand[d].claim
      BY <1>1 DEF DemandRows
    <3> QED
      BY <3>1, <3>2 DEF DemandMoves, IsWorkedOn
  <2> QED
    BY <2>2, <2>3
<1>6. ASSUME NEW q \in DemandRequests, Webhook(q) \/ SweptOff(q)
      PROVE  DemandMoves(d)
  <2>1. /\ [demand[d] EXCEPT !.status = "over"] \in DemandRows
        /\ [demand[d] EXCEPT !.status = "over"].status = "over"
        /\ Over(demand[d]) \in DemandRows /\ Over(demand[d]).status = "over"
    BY <1>1, OverRow
  <2>2. \/ demand'[d] = demand[d] \/ demand'[d] = [demand[d] EXCEPT !.status = "over"]
        \/ demand'[d] = Over(demand[d])
    BY <1>1, <1>6 DEF Webhook, SweptOff
  <2> QED
    BY <1>1, <2>1, <2>2 DEF DemandMoves
<1> QED
  BY <1>2, <1>3, <1>4, <1>5, <1>6, AskMoves, ClaimMoves, WorkerMovesDemand
  DEF DemandDispatchNext, demandVars, AskRequest, SweepDemands, PublishDemand, DemandOutage,
      AskerDies, PublishClaimed, ClaimedOutage, DemandSweepDies, DemandLeaseEnds, TakeDemand,
      ExecDies

\* Who handles requests, maintenance tasks, workers and the broker keep their types.
LEMMA DemandTypeStep ==
  ASSUME DemandDispatchTypeOK, AtWorkOnDemands, [DemandDispatchNext]_demandVars
  PROVE  DemandDispatchTypeOK'
<1> DEFINE Places == [at : {"idle", "publish", "complete", "release"},
                      request : DemandRequests \cup {NoItem}]
           Tasks == [at : ExecLocked \cup {"idle", "requeue"},
                     request : DemandRequests \cup {NoItem}]
<1>1. demand' \in [DemandRequests -> DemandRows]
  <2>1. \A d \in DemandRequests : demand'[d] \in DemandRows
    BY DemandRowStep DEF DemandMoves
  <2>2. DOMAIN demand' = DemandRequests
    BY DEF DemandDispatchNext, demandVars, AskRequest, SweepDemands, PublishDemand,
       DemandOutage, AskerDies, PublishClaimed, ClaimedOutage, DemandSweepDies,
       DemandLeaseEnds, TakeDemand, ExecDies, Ask, FinishDemand, FinishClaimed,
       ClaimDemands, WorkOn, CheckDemand, CallProvider, RecordAnswer, Requeue, BecomesDue,
       Webhook, SweptOff, DemandDispatchTypeOK
  <2>3. demand' = [d \in DemandRequests |-> demand'[d]]
    BY <2>2 DEF DemandDispatchNext, demandVars, AskRequest, SweepDemands, PublishDemand,
       DemandOutage, AskerDies, PublishClaimed, ClaimedOutage, DemandSweepDies,
       DemandLeaseEnds, TakeDemand, ExecDies, Ask, FinishDemand, FinishClaimed,
       ClaimDemands, WorkOn, CheckDemand, CallProvider, RecordAnswer, Requeue, BecomesDue,
       Webhook, SweptOff, DemandDispatchTypeOK
  <2> QED
    BY <2>1, <2>3
<1>2. demandFaults' \in 0..MaxFaults
  <2>1. demandFaults' = demandFaults \/ Fault
    BY DEF DemandDispatchNext, demandVars, AskRequest, SweepDemands, PublishDemand,
       DemandOutage, AskerDies, PublishClaimed, ClaimedOutage, DemandSweepDies,
       DemandLeaseEnds, TakeDemand, ExecDies, Ask, FinishDemand, FinishClaimed,
       ClaimDemands, WorkOn, CheckDemand, CallProvider, RecordAnswer, Requeue, BecomesDue,
       Webhook, SweptOff
  <2> QED
    BY <2>1, ClaimAssumption DEF Fault, DemandDispatchTypeOK
<1>3. demandLease' \in [Holders -> SUBSET DemandRequests]
  <2>1. ASSUME NEW a \in ApiProcesses, NEW d \in DemandRequests, Ask(a, d)
        PROVE  demandLease' \in [Holders -> SUBSET DemandRequests]
    BY <2>1 DEF Ask, DemandDispatchTypeOK
  <2>2. ASSUME NEW s \in Sweepers, ClaimDemands(s)
        PROVE  demandLease' \in [Holders -> SUBSET DemandRequests]
    <3>1. PICK ready \in SUBSET DemandRequests :
            demandLease' = [demandLease EXCEPT ![s] = @ \cup ready]
      BY <2>2 DEF ClaimDemands
    <3> QED
      BY <3>1 DEF DemandDispatchTypeOK
  <2>3. ASSUME NEW a \in ApiProcesses, FinishDemand(a)
        PROVE  demandLease' \in [Holders -> SUBSET DemandRequests]
    BY <2>3 DEF FinishDemand, DemandDispatchTypeOK
  <2>4. ASSUME NEW s \in Sweepers, FinishClaimed(s)
        PROVE  demandLease' \in [Holders -> SUBSET DemandRequests]
    BY <2>4 DEF FinishClaimed, DemandDispatchTypeOK
  <2>5. ASSUME NEW h \in Holders, NEW d \in DemandRequests, DemandLeaseEnds(h, d)
        PROVE  demandLease' \in [Holders -> SUBSET DemandRequests]
    BY <2>5 DEF DemandLeaseEnds, DemandDispatchTypeOK
  <2>6. CASE demandLease' = demandLease
    BY <2>6 DEF DemandDispatchTypeOK
  <2> QED
    BY <2>1, <2>2, <2>3, <2>4, <2>5, <2>6
    DEF DemandDispatchNext, demandVars, AskRequest, SweepDemands, PublishDemand,
        DemandOutage, AskerDies, PublishClaimed, ClaimedOutage, DemandSweepDies,
        TakeDemand, ExecDies, WorkOn, CheckDemand, CallProvider, RecordAnswer, Requeue,
        BecomesDue, Webhook, SweptOff
<1>4. asked' \subseteq DemandRequests
  <2>1. ASSUME NEW a \in ApiProcesses, PublishDemand(a)
        PROVE  asked' \subseteq DemandRequests
    BY <2>1 DEF PublishDemand, AtWorkOnDemands, DemandDispatchTypeOK
  <2>2. ASSUME NEW s \in Sweepers, PublishClaimed(s)
        PROVE  asked' \subseteq DemandRequests
    BY <2>2 DEF PublishClaimed, DemandDispatchTypeOK, Sweeps
  <2>3. ASSUME NEW w \in Workers, ExecDies(w)
        PROVE  asked' \subseteq DemandRequests
    BY <2>3 DEF ExecDies, AtWorkOnDemands, DemandDispatchTypeOK
  <2>4. ASSUME NEW w \in Workers, NEW d \in DemandRequests, TakeDemand(w, d)
        PROVE  asked' \subseteq DemandRequests
    BY <2>4 DEF TakeDemand, DemandDispatchTypeOK
  <2>5. CASE asked' = asked
    BY <2>5 DEF DemandDispatchTypeOK
  <2> QED
    BY <2>1, <2>2, <2>3, <2>4, <2>5
    DEF DemandDispatchNext, demandVars, AskRequest, SweepDemands, DemandOutage, AskerDies,
        ClaimedOutage, DemandSweepDies, DemandLeaseEnds, Ask, FinishDemand, FinishClaimed,
        ClaimDemands, WorkOn, CheckDemand, CallProvider, RecordAnswer, Requeue, BecomesDue,
        Webhook, SweptOff
<1>5. asking' \in [ApiProcesses -> Places]
  <2>1. asking \in [ApiProcesses -> Places] /\ IdleAsking \in Places
    BY DEF DemandDispatchTypeOK, IdleAsking
  <2>2. \A place \in Places : \A at \in {"complete", "release"} :
          [place EXCEPT !.at = at] \in Places
    OBVIOUS
  <2>3. ASSUME NEW a \in ApiProcesses, NEW d \in DemandRequests, Ask(a, d)
        PROVE  asking' \in [ApiProcesses -> Places]
    BY <2>1, <2>3 DEF Ask
  <2>4. ASSUME NEW a \in ApiProcesses,
               PublishDemand(a) \/ DemandOutage(a) \/ FinishDemand(a) \/ AskerDies(a)
        PROVE  asking' \in [ApiProcesses -> Places]
    <3>1. \/ asking' = [asking EXCEPT ![a] = IdleAsking]
          \/ asking' = [asking EXCEPT ![a] = [asking[a] EXCEPT !.at = "complete"]]
          \/ asking' = [asking EXCEPT ![a] = [asking[a] EXCEPT !.at = "release"]]
      BY <2>4 DEF PublishDemand, DemandOutage, FinishDemand, AskerDies
    <3>2. /\ [asking[a] EXCEPT !.at = "complete"] \in Places
          /\ [asking[a] EXCEPT !.at = "release"] \in Places
      BY <2>1, <2>2
    <3> HIDE DEF Places
    <3> QED
      BY <2>1, <3>1, <3>2
  <2>5. CASE asking' = asking
    BY <2>1, <2>5
  <2> QED
    BY <2>3, <2>4, <2>5
    DEF DemandDispatchNext, demandVars, AskRequest, SweepDemands, PublishClaimed,
        ClaimedOutage, DemandSweepDies, DemandLeaseEnds, TakeDemand, ExecDies,
        FinishClaimed, ClaimDemands, WorkOn, CheckDemand, CallProvider, RecordAnswer,
        Requeue, BecomesDue, Webhook, SweptOff
<1>6. demandSweep' \in [Sweepers -> Sweeps(DemandRequests)]
  <2>1. demandSweep \in [Sweepers -> Sweeps(DemandRequests)]
    BY DEF DemandDispatchTypeOK
  <2>2. NoSweep \in Sweeps(DemandRequests)
    BY DEF NoSweep, SweepOf, Sweeps
  <2>3. ASSUME NEW s \in Sweepers, ClaimDemands(s)
        PROVE  demandSweep' \in [Sweepers -> Sweeps(DemandRequests)]
    <3>1. PICK ready \in SUBSET DemandRequests :
            demandSweep' = [demandSweep EXCEPT ![s] = SweepOf(ready)]
      BY <2>3 DEF ClaimDemands
    <3>2. SweepOf(ready) \in Sweeps(DemandRequests)
      BY DEF SweepOf, Sweeps
    <3> QED
      BY <2>1, <3>1, <3>2
  <2>4. ASSUME NEW s \in Sweepers, PublishClaimed(s) \/ ClaimedOutage(s)
        PROVE  demandSweep' \in [Sweepers -> Sweeps(DemandRequests)]
    <3>1. PICK d \in demandSweep[s].left :
            \/ demandSweep' = [demandSweep EXCEPT ![s] = Sent(demandSweep[s], d)]
            \/ demandSweep' = [demandSweep EXCEPT ![s] = Refused(demandSweep[s], d)]
      BY <2>4 DEF PublishClaimed, ClaimedOutage
    <3>2. demandSweep[s] \in Sweeps(DemandRequests) /\ d \in DemandRequests
      BY <2>1 DEF Sweeps
    <3>3. /\ Sent(demandSweep[s], d) \in Sweeps(DemandRequests)
          /\ Refused(demandSweep[s], d) \in Sweeps(DemandRequests)
      BY <3>2, SweepChanges
    <3> QED
      BY <2>1, <3>1, <3>3
  <2>5. ASSUME NEW s \in Sweepers, FinishClaimed(s) \/ DemandSweepDies(s)
        PROVE  demandSweep' \in [Sweepers -> Sweeps(DemandRequests)]
    <3>1. Finished(demandSweep[s]) \in Sweeps(DemandRequests)
      BY <2>1 DEF Finished, SweepOf, Sweeps
    <3> QED
      BY <2>1, <2>2, <2>5, <3>1 DEF FinishClaimed, DemandSweepDies
  <2>6. CASE demandSweep' = demandSweep
    BY <2>1, <2>6
  <2> QED
    BY <2>3, <2>4, <2>5, <2>6
    DEF DemandDispatchNext, demandVars, AskRequest, SweepDemands, PublishDemand,
        DemandOutage, AskerDies, DemandLeaseEnds, TakeDemand, ExecDies, Ask, FinishDemand,
        WorkOn, CheckDemand, CallProvider, RecordAnswer, Requeue, BecomesDue, Webhook,
        SweptOff
<1>7. exec' \in [Workers -> Tasks]
  <2>1. exec \in [Workers -> Tasks] /\ IdleAsking \in Tasks
    BY DEF DemandDispatchTypeOK, IdleAsking
  <2>2. ASSUME NEW at \in {"check", "call", "record", "requeue_locked", "requeue"},
               NEW d \in DemandRequests
        PROVE  [at |-> at, request |-> d] \in Tasks
    BY DEF ExecLocked
  <2>3. ASSUME NEW w \in Workers, NEW d \in DemandRequests, TakeDemand(w, d)
        PROVE  exec' \in [Workers -> Tasks]
    <3>1. /\ [at |-> "requeue", request |-> d] \in Tasks
          /\ [at |-> "check", request |-> d] \in Tasks
      BY <2>2
    <3> HIDE DEF Tasks
    <3> QED
      BY <2>1, <2>3, <3>1 DEF TakeDemand, Step
  <2>4. ASSUME NEW w \in Workers, WorkOn(w) \/ ExecDies(w)
        PROVE  exec' \in [Workers -> Tasks]
    <3>1. exec[w].request \in DemandRequests
      BY <2>4 DEF WorkOn, CheckDemand, CallProvider, RecordAnswer, Requeue, ExecDies,
         AtWorkOnDemands
    <3>2. /\ [at |-> "requeue_locked", request |-> exec[w].request] \in Tasks
          /\ [at |-> "call", request |-> exec[w].request] \in Tasks
          /\ [at |-> "record", request |-> exec[w].request] \in Tasks
      BY <2>2, <3>1
    <3> HIDE DEF Tasks
    <3> QED
      BY <2>1, <2>4, <3>2
      DEF WorkOn, CheckDemand, CallProvider, RecordAnswer, Requeue, ExecDies, Step, Leave
  <2>5. CASE exec' = exec
    BY <2>1, <2>5
  <2> QED
    BY <2>3, <2>4, <2>5
    DEF DemandDispatchNext, demandVars, AskRequest, SweepDemands, PublishDemand,
        DemandOutage, AskerDies, PublishClaimed, ClaimedOutage, DemandSweepDies,
        DemandLeaseEnds, Ask, FinishDemand, FinishClaimed, ClaimDemands, BecomesDue,
        Webhook, SweptOff
<1> QED
  BY <1>1, <1>2, <1>3, <1>4, <1>5, <1>6, <1>7
  DEF DemandDispatchTypeOK, DemandRows, DemandClaims

\* Work on a request begins with a request, and ends with the worker idle.
LEMMA AtWorkOnDemandsStep ==
  ASSUME DemandDispatchTypeOK, AtWorkOnDemands, [DemandDispatchNext]_demandVars
  PROVE  AtWorkOnDemands'
<1>1. ASSUME NEW a \in ApiProcesses, asking'[a].at # "idle"
      PROVE  asking'[a].request \in DemandRequests
  <2>1. ASSUME NEW b \in ApiProcesses, NEW d \in DemandRequests, Ask(b, d)
        PROVE  asking'[a].request \in DemandRequests
    <3>1. asking' = [asking EXCEPT ![b] = [at |-> "publish", request |-> d]]
      BY <2>1 DEF Ask
    <3>2. asking \in [ApiProcesses -> [at : {"idle", "publish", "complete", "release"},
                                       request : DemandRequests \cup {NoItem}]]
      BY DEF DemandDispatchTypeOK
    <3>3. CASE a = b
      BY <3>1, <3>2, <3>3
    <3>4. CASE a # b
      <4>1. asking'[a] = asking[a]
        BY <3>1, <3>2, <3>4
      <4> QED
        BY <1>1, <4>1 DEF AtWorkOnDemands
    <3> QED
      BY <3>3, <3>4
  <2>2. ASSUME NEW b \in ApiProcesses, AskRequest(b) \/ DemandOutage(b) \/ AskerDies(b)
        PROVE  asking'[a].request \in DemandRequests
    <3>1. asking \in [ApiProcesses -> [at : {"idle", "publish", "complete", "release"},
                                       request : DemandRequests \cup {NoItem}]]
      BY DEF DemandDispatchTypeOK
    <3>2. CASE asking'[a] = asking[a]
      BY <1>1, <3>2 DEF AtWorkOnDemands
    <3>3. asking[b].at # "idle"
      BY <2>2 DEF AskRequest, PublishDemand, FinishDemand, DemandOutage, AskerDies
    <3>4. CASE asking' = [asking EXCEPT ![b] = IdleAsking]
      BY <1>1, <3>1, <3>2, <3>4 DEF IdleAsking
    <3>5. ASSUME NEW at \in {"complete", "release"}, asking' = [asking EXCEPT ![b].at = at]
          PROVE  asking'[a].request \in DemandRequests
      <4>1. asking'[a].request = asking[a].request
        BY <3>1, <3>5
      <4> QED
        BY <1>1, <3>2, <3>3, <3>5, <4>1, <3>1 DEF AtWorkOnDemands
    <3> QED
      BY <2>2, <3>4, <3>5
      DEF AskRequest, PublishDemand, FinishDemand, DemandOutage, AskerDies
  <2>3. CASE asking' = asking
    BY <1>1, <2>3 DEF AtWorkOnDemands
  <2> QED
    BY <2>1, <2>2, <2>3
    DEF DemandDispatchNext, demandVars, SweepDemands, PublishClaimed, ClaimedOutage,
        DemandSweepDies, DemandLeaseEnds, TakeDemand, ExecDies, FinishClaimed,
        ClaimDemands, WorkOn, CheckDemand, CallProvider, RecordAnswer, Requeue, BecomesDue,
        Webhook, SweptOff
<1>2. ASSUME NEW s \in Sweepers, demandSweep'[s].at # "publish"
      PROVE  demandSweep'[s].item \in DemandRequests
  <2>1. CASE demandSweep'[s] = demandSweep[s]
    BY <1>2, <2>1 DEF AtWorkOnDemands
  <2>2. CASE PublishClaimed(s) \/ ClaimedOutage(s)
    <3>1. PICK d \in demandSweep[s].left :
            demandSweep'[s] \in {Sent(demandSweep[s], d), Refused(demandSweep[s], d)}
      BY <2>2 DEF PublishClaimed, ClaimedOutage, DemandDispatchTypeOK
    <3> QED
      BY <3>1 DEF Sent, Refused, DemandDispatchTypeOK, Sweeps
  <2>3. CASE ClaimDemands(s) \/ FinishClaimed(s) \/ DemandSweepDies(s)
    BY <1>2, <2>3 DEF ClaimDemands, FinishClaimed, DemandSweepDies, Finished, NoSweep,
       SweepOf, DemandDispatchTypeOK
  <2> QED
    BY <2>1, <2>2, <2>3
    DEF DemandDispatchNext, demandVars, AskRequest, SweepDemands, PublishDemand,
        DemandOutage, AskerDies, DemandLeaseEnds, TakeDemand, ExecDies, Ask, FinishDemand,
        WorkOn, CheckDemand, CallProvider, RecordAnswer, Requeue, BecomesDue, Webhook,
        SweptOff, ClaimDemands, PublishClaimed, ClaimedOutage, FinishClaimed,
        DemandSweepDies, DemandDispatchTypeOK
<1>3. \A w \in Workers : exec'[w].at # "idle" <=> exec'[w].request \in DemandRequests
  <2> SUFFICES ASSUME NEW w \in Workers
               PROVE  exec'[w].at # "idle" <=> exec'[w].request \in DemandRequests
    OBVIOUS
  <2>1. CASE exec'[w] = exec[w]
    BY <2>1 DEF AtWorkOnDemands
  <2>2. CASE exec'[w] = IdleAsking
    BY <2>2, DemandAssumption DEF IdleAsking
  <2>3. ASSUME NEW d \in DemandRequests, NEW at \in ExecLocked \cup {"requeue"},
               exec'[w] = [at |-> at, request |-> d]
        PROVE  exec'[w].at # "idle" <=> exec'[w].request \in DemandRequests
    BY <2>3 DEF ExecLocked
  <2>4. ASSUME NEW d \in DemandRequests, TakeDemand(w, d)
        PROVE  exec'[w].at # "idle" <=> exec'[w].request \in DemandRequests
    BY <2>3, <2>4 DEF TakeDemand, Step, ExecLocked, DemandDispatchTypeOK
  <2>5. CASE WorkOn(w) \/ ExecDies(w)
    <3>1. exec[w].request \in DemandRequests
      BY <2>5 DEF WorkOn, CheckDemand, CallProvider, RecordAnswer, Requeue, ExecDies,
         AtWorkOnDemands
    <3>2. \/ exec'[w] = IdleAsking
          \/ \E at \in ExecLocked : exec'[w] = [at |-> at, request |-> exec[w].request]
      BY <2>5 DEF WorkOn, CheckDemand, CallProvider, RecordAnswer, Requeue, ExecDies,
         Step, Leave, ExecLocked, DemandDispatchTypeOK
    <3> QED
      BY <2>2, <2>3, <3>1, <3>2
  <2>6. ASSUME NEW v \in Workers, v # w,
               WorkOn(v) \/ ExecDies(v) \/ \E d \in DemandRequests : TakeDemand(v, d)
        PROVE  exec'[w] = exec[w]
    BY <2>6 DEF WorkOn, CheckDemand, CallProvider, RecordAnswer, Requeue, ExecDies,
       TakeDemand, Step, Leave, DemandDispatchTypeOK
  <2>7. CASE exec' = exec
    BY <2>1, <2>7
  <2> QED
    BY <2>1, <2>4, <2>5, <2>6, <2>7
    DEF DemandDispatchNext, demandVars, AskRequest, SweepDemands, PublishDemand,
        DemandOutage, AskerDies, PublishClaimed, ClaimedOutage, DemandSweepDies,
        DemandLeaseEnds, Ask, FinishDemand, FinishClaimed, ClaimDemands, BecomesDue,
        Webhook, SweptOff
<1> QED
  BY <1>1, <1>2, <1>3 DEF AtWorkOnDemands

\* A message is given up only by a worker that ends the request, or puts it back.
LEMMA InHandStays ==
  ASSUME DemandDispatchTypeOK, AtWorkOnDemands, [DemandDispatchNext]_demandVars,
         NEW d \in DemandRequests, InHand(d)
  PROVE  \/ InHand(d)'
         \/ demand'[d].status \notin Open
         \/ demand'[d].claim.pending /\ demand'[d].claim.holder = NoOne
<1>1. CASE d \in asked
  <2>1. ASSUME NEW w \in Workers, NEW q \in DemandRequests, TakeDemand(w, q)
        PROVE  InHand(d)'
    <3>1. CASE d \in asked'
      BY <3>1 DEF InHand
    <3>2. CASE d \notin asked'
      <4>1. d = q
        BY <1>1, <2>1, <3>2 DEF TakeDemand
      <4>2. exec'[w].request = d
        BY <2>1, <4>1 DEF TakeDemand, Step, DemandDispatchTypeOK
      <4> QED
        BY <4>2 DEF InHand
    <3> QED
      BY <3>1, <3>2
  <2>2. CASE asked \subseteq asked'
    BY <1>1, <2>2 DEF InHand
  <2> QED
    BY <2>1, <2>2
    DEF DemandDispatchNext, demandVars, AskRequest, SweepDemands, PublishDemand,
        DemandOutage, AskerDies, PublishClaimed, ClaimedOutage, DemandSweepDies,
        DemandLeaseEnds, ExecDies, Ask, FinishDemand, FinishClaimed, ClaimDemands, WorkOn,
        CheckDemand, CallProvider, RecordAnswer, Requeue, BecomesDue, Webhook, SweptOff
<1>2. ASSUME NEW w \in Workers, exec[w].request = d
      PROVE  \/ InHand(d)'
             \/ demand'[d].status \notin Open
             \/ demand'[d].claim.pending /\ demand'[d].claim.holder = NoOne
  <2>0. exec[w].at # "idle"
    BY <1>2 DEF AtWorkOnDemands
  <2>1. CASE exec'[w].request = d
    BY <2>1 DEF InHand
  <2>2. CASE ExecDies(w)
    BY <1>2, <2>2 DEF ExecDies, InHand
  <2>3. CASE WorkOn(w)
    <3>1. demand[d] \in DemandRows /\ demand \in [DemandRequests -> DemandRows]
      BY DEF DemandDispatchTypeOK, DemandRows, DemandClaims
    <3>2. CASE demand'[d] = Over(demand[d]) \/ demand'[d] = PutBack(demand[d])
      <4>1. Over(demand[d]).status \notin Open
        BY <3>1, OverRow DEF Open
      <4> QED
        BY <3>1, <3>2, <4>1, PutBackRow
    <3>3. CASE demand'[d] = demand[d] /\ demand[d].status = "over"
      BY <3>3 DEF Open
    <3>4. CheckDemand(w) => \/ exec'[w].request = d \/ demand'[d] = Over(demand[d])
                            \/ demand'[d] = demand[d] /\ demand[d].status = "over"
      BY <1>2, <3>1 DEF CheckDemand, Step, DemandDispatchTypeOK
    <3>5. CallProvider(w) => exec'[w].request = d \/ demand'[d] = Over(demand[d])
      BY <1>2, <3>1 DEF CallProvider, Step, DemandDispatchTypeOK
    <3>6. RecordAnswer(w) => demand'[d] = Over(demand[d])
      BY <1>2, <3>1 DEF RecordAnswer
    <3>7. Requeue(w) => demand'[d] = PutBack(demand[d])
      BY <1>2, <3>1 DEF Requeue
    <3> QED
      BY <2>1, <2>3, <3>2, <3>3, <3>4, <3>5, <3>6, <3>7 DEF WorkOn
  <2>4. ASSUME NEW v \in Workers, v # w,
               WorkOn(v) \/ ExecDies(v) \/ \E q \in DemandRequests : TakeDemand(v, q)
        PROVE  exec'[w] = exec[w]
    BY <2>4 DEF WorkOn, CheckDemand, CallProvider, RecordAnswer, Requeue, ExecDies,
       TakeDemand, Step, Leave, DemandDispatchTypeOK
  <2>5. CASE exec' = exec
    BY <1>2, <2>1, <2>5
  <2>6. \A q \in DemandRequests : ~ TakeDemand(w, q)
    BY <2>0 DEF TakeDemand
  <2> QED
    BY <1>2, <2>1, <2>2, <2>3, <2>4, <2>5, <2>6
    DEF DemandDispatchNext, demandVars, AskRequest, SweepDemands, PublishDemand,
        DemandOutage, AskerDies, PublishClaimed, ClaimedOutage, DemandSweepDies,
        DemandLeaseEnds, Ask, FinishDemand, FinishClaimed, ClaimDemands, BecomesDue,
        Webhook, SweptOff
<1> QED
  BY <1>1, <1>2 DEF InHand

\* Whoever holds the claim of a request it has published knows it in hand.
LEMMA HeldInHand ==
  ASSUME DemandDispatchTypeOK, AtWorkOnDemands, [DemandDispatchNext]_demandVars,
         NEW d \in DemandRequests, NEW h \in Holders, demand'[d].claim.holder = h,
         \A a \in ApiProcesses : Ask(a, d) => a # h,
         \A s \in Sweepers : ClaimDemands(s) => s # h,
         demand[d].claim.holder = h => InHand(d) \/ demand[d].status \notin Open
  PROVE  InHand(d)' \/ demand'[d].status \notin Open
<1>1. DemandMoves(d) /\ h # NoOne
  BY DemandRowStep, ClaimAssumption DEF Holders
<1>2. CASE demand[d].claim.holder = h /\ SameStatus(d)
  <2>1. CASE InHand(d)
    BY <1>1, <2>1, InHandStays
  <2>2. CASE demand[d].status \notin Open
    BY <1>2, <2>2 DEF SameStatus
  <2> QED
    BY <1>2, <2>1, <2>2
<1>3. CASE demand'[d] = demand[d]
  BY <1>2, <1>3 DEF SameStatus
<1>4. CASE demand'[d].status = "over"
  BY <1>4 DEF Open
<1>5. CASE IsDispatched(d)
  BY <1>1, <1>2, <1>5 DEF IsDispatched, KeepsClaimOf
<1>6. CASE IsWorkedOn(d)
  <2>1. CASE \E w \in Workers : exec'[w].request = d
    BY <2>1 DEF InHand
  <2>2. CASE demand[d].status \in Open
    <3>1. InHand(d)
      BY <1>6, <2>2 DEF IsWorkedOn
    <3> QED
      BY <1>1, <3>1, InHandStays
  <2> QED
    BY <1>6, <2>1, <2>2 DEF IsWorkedOn
<1> QED
  BY <1>1, <1>3, <1>4, <1>5, <1>6 DEF DemandMoves, IsAsked, IsClaimed, IsPutBack

\* The publication comes before the mark, for the API and for maintenance.
LEMMA DispatchedStep ==
  ASSUME DemandInv, [DemandDispatchNext]_demandVars
  PROVE  PublishedBeforeCompleted'
<1> USE DEF DemandInv
<1>1. ASSUME NEW a \in ApiProcesses, NEW d \in DemandRequests, asking'[a].at = "complete",
             asking'[a].request = d, demand'[d].claim.holder = a
      PROVE  InHand(d)' \/ demand'[d].status \notin Open
  <2>3. asking[a].request = d /\ (asking[a].at = "complete" \/ PublishDemand(a))
    <3>1. asking \in [ApiProcesses -> [at : {"idle", "publish", "complete", "release"},
                                       request : DemandRequests \cup {NoItem}]]
      BY DEF DemandDispatchTypeOK
    <3>2. ASSUME NEW b \in ApiProcesses, NEW q \in DemandRequests, Ask(b, q)
          PROVE  asking'[a] = asking[a]
      <4>1. asking' = [asking EXCEPT ![b] = [at |-> "publish", request |-> q]]
        BY <3>2 DEF Ask
      <4>2. a # b
        BY <1>1, <3>1, <4>1
      <4> QED
        BY <3>1, <4>1, <4>2
    <3>3. ASSUME NEW b \in ApiProcesses, asking' = [asking EXCEPT ![b] = IdleAsking]
          PROVE  asking'[a] = asking[a]
      <4>1. a # b
        BY <1>1, <3>1, <3>3 DEF IdleAsking
      <4> QED
        BY <3>1, <3>3, <4>1
    <3>4. ASSUME NEW b \in ApiProcesses, asking' = [asking EXCEPT ![b].at = "release"]
          PROVE  asking'[a] = asking[a]
      <4>1. a # b
        BY <1>1, <3>1, <3>4
      <4> QED
        BY <3>1, <3>4, <4>1
    <3>5. ASSUME NEW b \in ApiProcesses, b # a, PublishDemand(b)
          PROVE  asking'[a] = asking[a]
      BY <3>1, <3>5 DEF PublishDemand
    <3>6. CASE PublishDemand(a)
      BY <1>1, <3>1, <3>6 DEF PublishDemand
    <3>7. CASE asking'[a] = asking[a]
      BY <1>1, <3>7
    <3> QED
      BY <3>2, <3>3, <3>4, <3>5, <3>6, <3>7
      DEF DemandDispatchNext, demandVars, AskRequest, FinishDemand, DemandOutage,
          AskerDies, SweepDemands, PublishClaimed, ClaimedOutage, DemandSweepDies,
          DemandLeaseEnds, TakeDemand, ExecDies, FinishClaimed, ClaimDemands, WorkOn,
          CheckDemand, CallProvider, RecordAnswer, Requeue, BecomesDue, Webhook, SweptOff
  <2>4. InHand(d)' \/ demand'[d].status \notin Open
    <3>1. CASE PublishDemand(a)
      BY <2>3, <3>1 DEF PublishDemand, InHand
    <3>2. CASE asking[a].at = "complete"
      <4>1. a \in Holders /\ demand'[d].claim.holder = a
        BY <1>1 DEF Holders
      <4>2. \A b \in ApiProcesses : Ask(b, d) => b # a
        BY <3>2 DEF Ask
      <4>3. \A s \in Sweepers : ClaimDemands(s) => s # a
        BY ClaimAssumption
      <4>4. demand[d].claim.holder = a => InHand(d) \/ demand[d].status \notin Open
        BY <2>3, <3>2 DEF PublishedBeforeCompleted
      <4> QED
        BY <4>1, <4>2, <4>3, <4>4, HeldInHand
    <3> QED
      BY <2>3, <3>1, <3>2
  <2> QED
    BY <2>4
<1>2. ASSUME NEW s \in Sweepers, NEW d \in DemandRequests, demandSweep'[s].at = "complete",
             demandSweep'[s].item = d, demand'[d].claim.holder = s
      PROVE  InHand(d)' \/ demand'[d].status \notin Open
  <2>3. \/ demandSweep[s].item = d /\ demandSweep[s].at = "complete"
        \/ PublishClaimed(s) /\ d \in asked'
    <3>1. demandSweep \in [Sweepers -> Sweeps(DemandRequests)]
      BY DEF DemandDispatchTypeOK
    <3>2. CASE PublishClaimed(s)
      <4>1. PICK q \in demandSweep[s].left :
              /\ demandSweep' = [demandSweep EXCEPT ![s] = Sent(@, q)] /\ q \in asked'
        BY <3>2 DEF PublishClaimed
      <4>2. demandSweep'[s] = Sent(demandSweep[s], q)
        BY <3>1, <4>1
      <4> QED
        BY <1>2, <3>2, <4>1, <4>2 DEF Sent
    <3>3. CASE ClaimDemands(s) \/ ClaimedOutage(s) \/ FinishClaimed(s) \/ DemandSweepDies(s)
      BY <1>2, <3>1, <3>3 DEF ClaimDemands, ClaimedOutage, FinishClaimed, DemandSweepDies,
         Refused, Finished, NoSweep, SweepOf
    <3>4. CASE demandSweep'[s] = demandSweep[s]
      BY <1>2, <3>4
    <3> QED
      BY <3>1, <3>2, <3>3, <3>4
      DEF DemandDispatchNext, demandVars, AskRequest, PublishDemand, FinishDemand,
          DemandOutage, AskerDies, SweepDemands, PublishClaimed, ClaimedOutage,
          DemandSweepDies, DemandLeaseEnds, TakeDemand, ExecDies, FinishClaimed,
          ClaimDemands, WorkOn, CheckDemand, CallProvider, RecordAnswer, Requeue,
          BecomesDue, Webhook, SweptOff, Ask
  <2>4. InHand(d)' \/ demand'[d].status \notin Open
    <3>1. CASE d \in asked'
      BY <3>1 DEF InHand
    <3>2. CASE demandSweep[s].item = d /\ demandSweep[s].at = "complete"
      <4>1. s \in Holders /\ demand'[d].claim.holder = s
        BY <1>2 DEF Holders
      <4>2. \A b \in ApiProcesses : Ask(b, d) => b # s
        BY ClaimAssumption
      <4>3. \A b \in Sweepers : ClaimDemands(b) => b # s
        BY <3>2 DEF ClaimDemands, NoSweep, SweepOf
      <4>4. demand[d].claim.holder = s => InHand(d) \/ demand[d].status \notin Open
        BY <3>2 DEF PublishedBeforeCompleted
      <4> QED
        BY <4>1, <4>2, <4>3, <4>4, HeldInHand
    <3> QED
      BY <2>3, <3>1, <3>2
  <2> QED
    BY <2>4
<1> QED
  BY <1>1, <1>2 DEF PublishedBeforeCompleted

\* A request leaves the outbox only when its message is in hand.
LEMMA DemandOnItsWayStep ==
  ASSUME DemandInv, [DemandDispatchNext]_demandVars
  PROVE  DemandIsOnItsWay'
<1> USE DEF DemandInv
<1> SUFFICES ASSUME NEW d \in DemandRequests, demand'[d].status \in Open
             PROVE  demand'[d].claim.pending \/ InHand(d)'
  BY DEF DemandIsOnItsWay, InHand
<1>1. DemandMoves(d)
  BY DemandRowStep
<1>2. CASE InHand(d)
  BY <1>2, InHandStays
<1>3. CASE demand[d].status \in Open /\ demand'[d].claim.pending = demand[d].claim.pending
  <2>1. demand[d].claim.pending \/ InHand(d)
    BY <1>3 DEF DemandIsOnItsWay, InHand
  <2> QED
    BY <1>2, <1>3, <2>1
<1>4. CASE IsDispatched(d)
  <2>1. SameStatus(d)
    BY <1>4 DEF IsDispatched, KeepsClaimOf
  <2>2. ASSUME NEW a \in ApiProcesses, asking[a].at = "complete", asking[a].request = d,
               Owns(demand[d].claim, a)
        PROVE  InHand(d)
    BY <2>1, <2>2 DEF PublishedBeforeCompleted, Owns, SameStatus
  <2>3. ASSUME NEW s \in Sweepers, demandSweep[s].at = "complete", demandSweep[s].item = d,
               Owns(demand[d].claim, s)
        PROVE  InHand(d)
    BY <2>1, <2>3 DEF PublishedBeforeCompleted, Owns, SameStatus
  <2> QED
    BY <1>2, <1>3, <1>4, <2>1, <2>2, <2>3 DEF IsDispatched, KeepsClaimOf, SameStatus
<1>5. CASE IsWorkedOn(d)
  <2>1. CASE \E w \in Workers : exec'[w].request = d
    BY <2>1 DEF InHand
  <2> QED
    BY <1>3, <1>5, <2>1 DEF IsWorkedOn
<1> QED
  BY <1>1, <1>3, <1>4, <1>5 DEF DemandMoves, IsAsked, IsClaimed, IsPutBack, SameStatus, Open

\* The dispatch of on-demand requests: types, and no request is forgotten.
LEMMA DemandInvariant == DemandDispatchSpec => []DemandInv
<1>1. DemandDispatchInit => DemandInv
  <2> SUFFICES ASSUME DemandDispatchInit PROVE DemandInv
    OBVIOUS
  <2>1. DemandDispatchTypeOK
    <3>1. demand \in [DemandRequests -> DemandRows]
      BY DemandAssumption DEF DemandDispatchInit, DemandRows, DemandClaims, NoClaim
    <3> QED
      BY <3>1, ClaimAssumption DEF DemandDispatchInit, DemandDispatchTypeOK, DemandRows,
         DemandClaims, IdleAsking, NoSweep, SweepOf, Sweeps
  <2>2. AtWorkOnDemands
    BY DemandAssumption DEF DemandDispatchInit, AtWorkOnDemands, IdleAsking, NoSweep, SweepOf
  <2>3. PublishedBeforeCompleted
    BY DEF DemandDispatchInit, PublishedBeforeCompleted, IdleAsking, NoSweep, SweepOf
  <2>4. DemandIsOnItsWay
    BY DEF DemandDispatchInit, DemandIsOnItsWay, Open
  <2> QED
    BY <2>1, <2>2, <2>3, <2>4 DEF DemandInv
<1>2. DemandInv /\ [DemandDispatchNext]_demandVars => DemandInv'
  <2> SUFFICES ASSUME DemandInv, [DemandDispatchNext]_demandVars PROVE DemandInv'
    OBVIOUS
  <2>1. DemandDispatchTypeOK /\ AtWorkOnDemands
    BY DEF DemandInv
  <2>2. DemandDispatchTypeOK' /\ AtWorkOnDemands'
    BY <2>1, DemandTypeStep, AtWorkOnDemandsStep
  <2>3. PublishedBeforeCompleted' /\ DemandIsOnItsWay'
    BY DispatchedStep, DemandOnItsWayStep
  <2> QED
    BY <2>2, <2>3 DEF DemandInv
<1> QED
  BY <1>1, <1>2, PTL DEF DemandDispatchSpec

-----------------------------------------------------------------------------
(* The three outboxes side by side *)

\* A behaviour of the three is a behaviour of each of them.
LEMMA LanesAreDispatches ==
  Spec => RunDispatchSpec /\ DemandDispatchSpec /\ RetryDispatchSpec
<1>1. Init => RunDispatchInit /\ DemandDispatchInit /\ RetryDispatchInit
  BY DEF Init
<1>2. [Next]_vars => /\ [RunDispatchNext]_runDispatchVars
                     /\ [DemandDispatchNext]_demandVars
                     /\ [RetryDispatchNext]_retryVars
  BY DEF Next, vars
<1> QED
  BY <1>1, <1>2, PTL DEF Spec, RunDispatchSpec, DemandDispatchSpec, RetryDispatchSpec

\* The three outboxes keep their types and the CHECK constraints of their tables.
THEOREM DispatchTypeCorrect == Spec => []DispatchTypeOK
<1>1. RunDispatchInv /\ DemandInv /\ RetryInv => DispatchTypeOK
  BY DEF RunDispatchInv, DemandInv, RetryInv, DispatchTypeOK
<1> QED
  BY <1>1, LanesAreDispatches, RunDispatchInvariant, DemandInvariant, RetryInvInvariant, PTL

\* Work that was committed is in an outbox, in the broker or with a worker,
\* provided recruiters' requests stay off the lock of the run that tries again.
THEOREM NothingForgotten ==
  ASSUME ~ OnDemandToo
  PROVE  Spec => []NothingIsForgotten
<1>1. RunDispatchInv /\ DemandInv /\ RetriedWorkIsDurable => NothingIsForgotten
  BY DEF RunDispatchInv, DemandInv, NothingIsForgotten
<1>2. RetryDispatchSpec => []RetriedWorkIsDurable
  BY RetriesAreDurable
<1> QED
  BY <1>1, <1>2, LanesAreDispatches, RunDispatchInvariant, DemandInvariant, PTL

\* A scorecard version is run once, and a completed generation of retries is never
\* active again, also while the other outboxes are dispatched.
THEOREM DispatchStaysDone == Spec => []ScorecardIsRunOnce /\ CompletedStaysCompleted
BY LanesAreDispatches, RunOnce, CompletedRetriesStay, PTL
=============================================================================
