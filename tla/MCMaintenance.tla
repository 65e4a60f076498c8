--------------------------- MODULE MCMaintenance ---------------------------
(***************************************************************************)
(* What maintenance is handed, and must bring to an end: the three outboxes *)
(* and the deletions of privacy requests.  They share no row and no         *)
(* message, so a behaviour moves in one of them, as in MCDispatch.  In the  *)
(* lane of the deletions nobody is ingested, no card is written and no      *)
(* snapshot expires.                                                        *)
(***************************************************************************)
EXTENDS RunDispatch, DemandDispatch, RetryDispatch

CONSTANTS Rows, Keys, Urls, Emails, Requests, MaxLost, Asks, Managers, Cleaners,
          MaxTroubles, NoRow, NoUrl, NoAsk, NoRequest

VARIABLES identity, row, emails, suppressed, evidence, card, requested, object, reference,
          work, lost, ask, call, targets, ordered, cleaner, leased, troubles, lane

Privacy == INSTANCE PrivacyDeletion WITH asked <- requested

deletionVars == <<identity, row, emails, suppressed, evidence, card, requested, object,
                  reference, work, lost, ask, call, targets, ordered, cleaner, leased, troubles>>
vars == <<lane, runDispatchVars, demandVars, retryVars, deletionVars>>

\* Somebody was found and scored; the deletion of that person is approved.
Approved ==
  /\ \E key \in [Rows -> Keys] :
       identity = [k \in Keys |->
         [row |-> IF \E r \in Rows : key[r] = k THEN CHOOSE r \in Rows : key[r] = k ELSE NoRow,
          url |-> NoUrl]]
  /\ row = [r \in Rows |-> "person"] /\ emails = [r \in Rows |-> {}]
  /\ evidence = [r \in Rows |-> "personal"] /\ card = [r \in Rows |-> "none"]
  /\ suppressed = {}
  /\ requested = [q \in Requests |-> {}] /\ object = [q \in Requests |-> {}]
  /\ reference = [q \in Requests |-> Privacy!NoReference] /\ lost = {}
  /\ work = [w \in Workers |-> Privacy!Idle]
  /\ \E of \in [Asks -> Rows] :
       ask = [p \in Asks |-> [Privacy!NoRequestRow EXCEPT
                              !.row = of[p], !.kind = "deletion", !.state = "approved"]]
  /\ Privacy!PrivacyInitBesidesAsk

Init ==
  /\ lane \in {"runs", "demands", "retries", "deletions"}
  /\ RunDispatchInit /\ DemandDispatchInit /\ RetryDispatchInit /\ Approved

Next ==
  /\ UNCHANGED lane
  /\ \/ /\ lane = "runs" /\ RunDispatchNext
        /\ UNCHANGED <<demandVars, retryVars, deletionVars>>
     \/ /\ lane = "demands" /\ DemandDispatchNext
        /\ UNCHANGED <<runDispatchVars, retryVars, deletionVars>>
     \/ /\ lane = "retries" /\ RetryDispatchNext
        /\ UNCHANGED <<runDispatchVars, demandVars, deletionVars>>
     \/ /\ lane = "deletions" /\ Privacy!DeletionNext
        /\ \A w \in Workers : work'[w].at \in {"idle", "read", "apply"}
        /\ \A q \in Requests : reference'[q].at # "expired"
        /\ UNCHANGED <<runDispatchVars, demandVars, retryVars>>

\* Nothing fair is enabled in the lanes that stand still.
FairSpec ==
  /\ Init /\ [][Next]_vars
  /\ RunDispatchFairness /\ DemandDispatchFairness /\ RetryDispatchFairness
  /\ Privacy!DeletionFairness

\* Work that was committed is done, without anybody asking again: a run is
\* planned, a recruiter's request ends, and what waits for a retry is settled.
CommittedWorkIsDone == QueuedRunsArePlanned /\ DemandsEnd /\ RetriesEnd

\* A deletion that began completes, whatever fails in between.
ExecutingDeletionsComplete == Privacy!ExecutingDeletionsComplete
=============================================================================
