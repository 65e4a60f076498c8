-------------------------- MODULE EnrichmentProofs --------------------------
(***************************************************************************)
(* Theorems about Enrichment for every number of requests, attempts and     *)
(* lost workers, every budget and every set of answers.                     *)
(***************************************************************************)
EXTENDS Enrichment, TLAPS

-----------------------------------------------------------------------------
(* Rows *)

\* Reconciling keeps the status and the attempts of a row.
LEMMA SettleRow ==
  ASSUME NEW row \in Rows, NEW charge \in BOOLEAN
  PROVE  /\ Settle(row, "charged") \in Rows
         /\ Settle(row, "released") \in Rows
         /\ Settle(row, Units(charge)) \in Rows
         /\ Settle(row, Units(charge)).status = row.status
         /\ Settle(row, Units(charge)).tries = row.tries
         /\ Settle(row, "charged").status = row.status
         /\ Settle(row, "charged").tries = row.tries
         /\ Settle(row, "released").status = row.status
         /\ Settle(row, "released").tries = row.tries
BY DEF Settle, Rows, Units

\* Failing a row keeps its attempts.
LEMMA FailedRow ==
  ASSUME NEW row \in Rows, NEW charge \in BOOLEAN
  PROVE  /\ Failed(row, charge) \in Rows
         /\ Failed(row, charge).status = "failed"
         /\ Failed(row, charge).tries = row.tries
         /\ FailedUnlessOver(row, charge) \in Rows
         /\ FailedUnlessOver(row, charge).status \in Over
         /\ FailedUnlessOver(row, charge).tries = row.tries
<1> DEFINE over == [row EXCEPT !.status = "failed"]
<1>1. over \in Rows /\ over.status = "failed" /\ over.tries = row.tries
  BY DEF Rows, Over
<1>2. Failed(row, charge) \in Rows /\ Failed(row, charge).status = "failed"
      /\ Failed(row, charge).tries = row.tries
  <2> HIDE DEF over
  <2>1. Failed(row, charge) = Settle(over, Units(charge))
    BY DEF Failed, over
  <2> QED
    BY <1>1, <2>1, SettleRow
<1> QED
  BY <1>2 DEF FailedUnlessOver, Failable, Rows, Over

\* A row of which only the status changes.
LEMMA StatusRow ==
  ASSUME NEW row \in Rows, NEW status \in Open \cup Over \cup {"none"}
  PROVE  /\ [row EXCEPT !.status = status] \in Rows
         /\ [row EXCEPT !.status = status].status = status
         /\ [row EXCEPT !.status = status].tries = row.tries
BY DEF Rows

\* A row that waits once more.
LEMMA TriedRow ==
  ASSUME NEW row \in Rows, row.tries < MaxAttempts
  PROVE  /\ [row EXCEPT !.tries = @ + 1] \in Rows
         /\ [row EXCEPT !.tries = @ + 1].tries = row.tries + 1
         /\ [row EXCEPT !.tries = @ + 1].status = row.status
BY BoundAssumption DEF Rows

\* One row changes, and every other stays as it is.
LEMMA SetType ==
  ASSUME TypeOK, NEW q \in Requests, NEW row \in Rows, Set(q, row)
  PROVE  /\ request' \in [Requests -> Rows]
         /\ request'[q] = row
         /\ \A p \in Requests \ {q} : request'[p] = request[p]
BY DEF TypeOK, Set

LEMMA FinalizedType ==
  ASSUME TypeOK, NEW now
  PROVE  Finalized(now) \in RunStates
BY DEF TypeOK, Finalized, RunStates

LEMMA IdleType == Idle \in Passes /\ Idle.at = "idle" /\ Idle.mine = {}
BY DEF Idle, Passes, Steps

LEMMA GotoType ==
  ASSUME TypeOK, NEW where \in Steps, Goto(where)
  PROVE  /\ pass' \in Passes /\ pass'.at = where
         /\ pass'.todo = pass.todo /\ pass'.mine = pass.mine
         /\ pass'.left = pass.left
BY DEF TypeOK, Goto, Passes

-----------------------------------------------------------------------------
(* The invariant *)

\* What somebody polls or applies was submitted.
Followed ==
  \A q \in Requests : poll[q] # "none" \/ applying = q =>
                        request[q].status \in {"pending"} \cup Over

\* A request that is not over has attempts left, and so has one whose poll has
\* just been told to wait.
AttemptsLeft ==
  \A q \in Requests : request[q].status \notin Over \/ poll[q] = "pending" =>
                        request[q].tries < MaxAttempts

\* What was never submitted was not accepted.
Unsent ==
  \A q \in Requests : /\ accepted[q] <= 1
                      /\ request[q].status \in {"none", "queued"} => accepted[q] = 0

Fresh(q) == request[q].status = "submitting" /\ accepted[q] = 0

\* The requests a pass holds before it calls the provider for them.
Held ==
  /\ pass.at = "select" => pass.mine = {}
  /\ pass.at \in {"prepare", "expired"} =>
       pass.mine \cap pass.todo = {} /\ \A q \in pass.mine : Fresh(q)
  /\ pass.at \in {"dispatch", "call", "exhausted", "pause"} =>
       \A q \in pass.left : Fresh(q)
  /\ pass.at = "record" =>
       \A q \in pass.left : /\ request[q].status = "submitting"
                            /\ Fresh(q) \/ (Current(q) /\ pass.answer # "rate_limited")

Submissions == TypeOK /\ Followed /\ AttemptsLeft /\ Unsent /\ Held

\* A pass about to call the provider has not done so after a cancellation.
Lateness == /\ late <= 1
            /\ late > 0 => Cancelled /\ ~ At("call")

-----------------------------------------------------------------------------
(* Steps that keep the invariant *)

\* Where a pass holds requests it has not submitted.
Tight == {"select", "prepare", "expired", "dispatch", "call", "exhausted", "pause",
          "record"}

LEMMA HeldLoose == ASSUME pass'.at \notin Tight PROVE Held'
BY DEF Held, Tight

\* Somebody else changes a row: not one that the pass holds.
LEMMA HeldElsewhere ==
  ASSUME Submissions, NEW q \in Requests, NEW row \in Rows, Set(q, row),
         request[q].status # "submitting" \/ pass.at \notin Tight,
         UNCHANGED <<pass, accepted>>
  PROVE  Held'
<1>1. ASSUME NEW p \in Requests, Fresh(p), pass.at \in Tight
      PROVE  Fresh(p)'
  BY <1>1 DEF Submissions, TypeOK, Set, Fresh
<1>2. ASSUME NEW p \in Requests, request[p].status = "submitting", pass.at \in Tight
      PROVE  request'[p].status = "submitting"
  BY <1>2 DEF Submissions, TypeOK, Set
<1>3. pass.mine \subseteq Requests /\ pass.left \subseteq Requests
  BY DEF Submissions, TypeOK, Passes
<1>4. \A p : Current(p)' = Current(p)
  BY DEF Current, First
<1> QED
  BY <1>1, <1>2, <1>3, <1>4 DEF Submissions, Held, Tight

\* The pass moves, and no row changes.
LEMMA MoveKeeps ==
  ASSUME Submissions, pass' \in Passes, Held',
         state' \in RunStates, enabled' \in BOOLEAN, wake' \in BOOLEAN,
         UNCHANGED <<request, poll, payload, accepted, late>>, crashes' \in Nat
  PROVE  Submissions'
<1>1. TypeOK'
  BY DEF Submissions, TypeOK, payload
<1>2. Followed' /\ AttemptsLeft' /\ Unsent'
  BY DEF Submissions, Followed, AttemptsLeft, Unsent, payload
<1> QED
  BY <1>1, <1>2 DEF Submissions

\* One row changes.
LEMMA RowKeeps ==
  ASSUME Submissions, NEW q \in Requests, NEW row \in Rows, Set(q, row),
         poll' \in [Requests -> Polls], \A p \in Requests \ {q} : poll'[p] = poll[p],
         applying' \in {applying, q, NoRequest}, lastOne' \in BOOLEAN,
         poll'[q] # "none" \/ applying' = q => row.status \in {"pending"} \cup Over,
         row.status \notin Over \/ poll'[q] = "pending" => row.tries < MaxAttempts,
         row.status \in {"none", "queued"} => accepted[q] = 0,
         pass' \in Passes, Held',
         state' \in RunStates, enabled' \in BOOLEAN, wake' \in BOOLEAN,
         crashes' \in Nat, UNCHANGED <<accepted, late>>
  PROVE  Submissions'
<1>1. /\ request' \in [Requests -> Rows] /\ request'[q] = row
      /\ \A p \in Requests \ {q} : request'[p] = request[p]
  BY SetType DEF Submissions
<1>2. TypeOK'
  BY <1>1 DEF Submissions, TypeOK
<1>3. Followed'
  BY <1>1, RequestAssumption DEF Submissions, Followed
<1>4. AttemptsLeft'
  BY <1>1 DEF Submissions, AttemptsLeft
<1>5. Unsent'
  BY <1>1 DEF Submissions, Unsent
<1> QED
  BY <1>2, <1>3, <1>4, <1>5 DEF Submissions

-----------------------------------------------------------------------------
(* The initial states *)

LEMMA InitSubmissions == Init => Submissions
<1> SUFFICES ASSUME Init PROVE Submissions
  OBVIOUS
<1>1. NoRow \in Rows /\ NoRow.tries < MaxAttempts /\ Idle \in Passes
  BY BoundAssumption DEF NoRow, Rows, Idle, Passes, Steps, Open, Over
<1>2. TypeOK
  BY <1>1 DEF Init, TypeOK, RunStates, Polls
<1> QED
  BY <1>1, <1>2, RequestAssumption
  DEF Init, Submissions, Followed, AttemptsLeft, Unsent, Held, Idle, NoRow

-----------------------------------------------------------------------------
(* Steps of the pass alone *)

\* The steps that leave the rows to themselves and hold no request after.
LEMMA LooseMoves ==
  ASSUME Submissions,
         \/ DispatchDone \/ Unauthorized \/ AbortDone \/ Disable
         \/ MarkOff \/ EndPass \/ CrashPass
  PROVE  Submissions'
<1>1. /\ pass' \in Passes /\ pass'.at \notin Tight
      /\ state' \in RunStates /\ enabled' \in BOOLEAN /\ wake' \in BOOLEAN
      /\ UNCHANGED <<request, poll, payload, accepted, late>> /\ crashes' \in Nat
  <2> USE DEF Submissions, TypeOK, Passes, Steps, At, Idle, Tight, payload, history
  <2>2. CASE DispatchDone
    BY <2>2 DEF DispatchDone, Goto
  <2>3. CASE Unauthorized
    BY <2>3 DEF Unauthorized, Answer
  <2>4. CASE AbortDone
    BY <2>4 DEF AbortDone, Goto
  <2>5. CASE Disable
    <3>1. Goto("sweep") \/ pass' = Idle
      BY <2>5 DEF Disable
    <3>2. pass' \in Passes /\ pass'.at \notin Tight
      BY <3>1, IdleType, GotoType
    <3> QED
      BY <2>5, <3>2 DEF Disable
  <2>6. CASE MarkOff
    BY <2>6 DEF MarkOff, RunStates
  <2>7. CASE EndPass
    BY <2>7 DEF EndPass, OfRun, Retries
  <2>8. CASE CrashPass
    BY <2>8 DEF CrashPass, OfRun
  <2> QED
    BY <2>2, <2>3, <2>4, <2>5, <2>6, <2>7, <2>8
<1>2. Held'
  BY <1>1, HeldLoose
<1> QED
  BY <1>1, <1>2, MoveKeeps

\* The steps into a place where the pass holds requests.
LEMMA TightMoves ==
  ASSUME Submissions,
         \/ BeginPass \/ Select \/ PrepareDone
         \/ \E q \in Batches : PrepareNothing(q) \/ PrepareWait(q)
         \/ \E q \in Requests : Dispatch(q)
  PROVE  Submissions'
<1> USE DEF Submissions, TypeOK, Passes, Steps, At, payload, history
<1>1. CASE BeginPass
  <2>1. pass' \in Passes /\ pass'.mine = {} /\ pass'.at \in {"select", "sweep"}
    BY <1>1 DEF BeginPass, Idle
  <2>2. Held'
    BY <2>1 DEF Held
  <2> QED
    BY <1>1, <2>1, <2>2, MoveKeeps DEF BeginPass
<1>2. CASE Select
  <2>1. \/ /\ pass' = [pass EXCEPT !.at = "prepare", !.todo = Batches]
           /\ pass.mine = {}
        \/ pass' = Idle
    BY <1>2 DEF Select, Held
  <2>2. pass' \in Passes /\ pass'.at \in {"idle", "prepare"} /\ pass'.mine = {}
    <3>1. CASE pass' = Idle
      BY <3>1, IdleType
    <3>2. CASE pass' # Idle
      BY <2>1, <3>2
    <3> QED
      BY <3>1, <3>2
  <2>3. Held'
    BY <2>2 DEF Held
  <2> QED
    BY <1>2, <2>2, <2>3, MoveKeeps DEF Select
<1>3. CASE PrepareDone
  <2>1. pass' \in Passes /\ pass'.at = "dispatch" /\ pass'.left = pass.mine
    BY <1>3 DEF PrepareDone, Requests
  <2>2. Held'
    BY <1>3, <2>1 DEF PrepareDone, Held, Fresh
  <2> QED
    BY <1>3, <2>1, <2>2, MoveKeeps DEF PrepareDone
<1>4. ASSUME NEW q \in Batches, PrepareNothing(q) \/ PrepareWait(q)
      PROVE  Submissions'
  <2>1. /\ pass' \in Passes /\ pass'.at = "prepare" /\ pass'.mine = pass.mine
        /\ pass'.todo \subseteq pass.todo
    BY <1>4 DEF PrepareNothing, PrepareWait, Prepared
  <2>2. Held'
    BY <1>4, <2>1 DEF PrepareNothing, PrepareWait, Held, Fresh
  <2> QED
    BY <1>4, <2>1, <2>2, MoveKeeps DEF PrepareNothing, PrepareWait
<1>5. ASSUME NEW q \in Requests, Dispatch(q)
      PROVE  Submissions'
  <2>1. pass' \in Passes /\ pass'.at = "call" /\ pass'.left = pass.left
    BY <1>5 DEF Dispatch, Goto
  <2>2. Held'
    BY <1>5, <2>1 DEF Dispatch, Held, Fresh
  <2> QED
    BY <1>5, <2>1, <2>2, MoveKeeps DEF Dispatch
<1> QED
  BY <1>1, <1>2, <1>3, <1>4, <1>5

\* _finalize_if_terminal moves the run and the pass, and no request.
LEMMA FinalizeKeeps == ASSUME Submissions, Finalize PROVE Submissions'
<1>1. state' \in RunStates
  BY FinalizedType DEF Finalize, FinalizeIfTerminal, Submissions, TypeOK
<1>2. \/ pass' = Idle
      \/ \E where \in {"disable", "mark_off", "schedule"} : Goto(where)
      \/ At("expired") /\ Goto("prepare")
      \/ At("exhausted") /\ Goto("pause")
  BY DEF Finalize
<1>3. pass' \in Passes
  BY <1>2, IdleType, GotoType DEF Submissions, Steps
<1>4. Held'
  <2>1. CASE pass' = Idle
    BY <2>1 DEF Idle, Held
  <2>2. CASE \E where \in {"disable", "mark_off", "schedule"} : Goto(where)
    BY <2>2 DEF Goto, Held, Submissions, TypeOK, Passes
  <2>3. CASE At("expired") /\ Goto("prepare")
    BY <2>3 DEF At, Goto, Held, Fresh, Submissions, TypeOK, Passes, Finalize, history
  <2>4. CASE At("exhausted") /\ Goto("pause")
    BY <2>4 DEF At, Goto, Held, Fresh, Submissions, TypeOK, Passes, Finalize, history
  <2> QED
    BY <1>2, <2>1, <2>2, <2>3, <2>4
<1> QED
  BY <1>1, <1>3, <1>4, MoveKeeps DEF Finalize, history, Submissions, TypeOK

-----------------------------------------------------------------------------
(* Steps of the pass that change a row *)

\* A request that the pass may open or resume was never sent, polled or applied.
LEMMA UnsentRow ==
  ASSUME Submissions, NEW q \in Requests,
         request[q].status \in {"none", "queued", "submitting"}
  PROVE  /\ request[q] \in Rows /\ request[q].tries < MaxAttempts
         /\ poll[q] = "none" /\ applying # q
         /\ request[q].status # "submitting" => accepted[q] = 0
BY DEF Submissions, TypeOK, Followed, AttemptsLeft, Unsent, Over

LEMMA OpenKeeps ==
  ASSUME Submissions, NEW q \in Batches, PrepareOpen(q) \/ PrepareResume(q)
  PROVE  Submissions'
<1> DEFINE row == IF PrepareOpen(q)
                  THEN [request[q] EXCEPT !.status = "submitting", !.usage = "reserved"]
                  ELSE [request[q] EXCEPT !.status = "submitting"]
<1>1. q \in Requests /\ request[q].status \in {"none", "queued"}
      /\ request[q].status # "submitting"
  BY DEF PrepareOpen, PrepareResume, Resumable, Requests
<1>2. request[q] \in Rows /\ request[q].tries < MaxAttempts /\ poll[q] = "none"
      /\ applying # q /\ accepted[q] = 0
  BY <1>1, UnsentRow
<1>3. row \in Rows /\ row.status = "submitting" /\ row.tries < MaxAttempts
  BY <1>2 DEF Rows, Open
<1>4. Set(q, row)
  BY DEF PrepareOpen, PrepareResume
<1>5. /\ pass.at = "prepare" /\ q \in pass.todo
      /\ pass' = [Prepared(q) EXCEPT !.mine = @ \cup {q}]
      /\ UNCHANGED <<state, enabled, wake, poll, payload, history>>
  BY DEF PrepareOpen, PrepareResume, At, Batch, First
<1> HIDE DEF row
<1>6. /\ pass' \in Passes /\ pass'.at = "prepare"
      /\ pass'.mine = pass.mine \cup {q} /\ pass'.todo = pass.todo \ {q}
  BY <1>1, <1>5 DEF Prepared, Submissions, TypeOK, Passes
<1>7. request'[q] = row /\ \A p \in Requests \ {q} : request'[p] = request[p]
  BY <1>1, <1>3, <1>4, SetType DEF Submissions
<1>8. Held'
  <2>1. pass.mine \subseteq Requests
    BY DEF Submissions, TypeOK, Passes
  <2>2. \A p \in pass.mine \cup {q} : Fresh(p)'
    BY <1>2, <1>3, <1>5, <1>7, <2>1 DEF Submissions, Held, Fresh, history
  <2> QED
    BY <1>5, <1>6, <2>2 DEF Submissions, Held
<1> QED
  BY <1>1, <1>2, <1>3, <1>4, <1>5, <1>6, <1>8, RowKeeps
  DEF payload, history, Submissions, TypeOK

LEMMA OthersFresh ==
  ASSUME Submissions, pass.at \in {"dispatch", "record"}, NEW q, Current(q),
         NEW p \in pass.left \ {q}
  PROVE  Fresh(p)
<1>1. q \in Nat /\ p \in Nat /\ q \in pass.left /\ q <= p
  BY RequestAssumption DEF Submissions, TypeOK, Passes, Requests, Current, First
<1>2. ~ Current(p)
  BY <1>1 DEF Current, First
<1> QED
  BY <1>2 DEF Submissions, Held

\* The pass is done with the request it held first.
LEMMA DispatchedKeeps ==
  ASSUME Submissions, NEW q \in Requests, Current(q),
         pass.at \in {"dispatch", "record"},
         NEW row \in Rows, Set(q, row),
         row.status \in {"none", "queued"} => accepted[q] = 0,
         row.status \notin Over => row.tries < MaxAttempts,
         pass' \in Passes, pass'.at \in {"dispatch", "exhausted", "pause"},
         pass'.left = pass.left \ {q}, state' \in RunStates,
         UNCHANGED <<enabled, wake, poll, payload, history>>
  PROVE  Submissions'
<1>1. request'[q] = row /\ \A p \in Requests \ {q} : request'[p] = request[p]
  BY SetType DEF Submissions
<1>2. q \in pass.left /\ pass.left \subseteq Requests
  BY DEF Submissions, TypeOK, Passes, Current, First
<1>3. poll[q] = "none" /\ applying # q
  BY <1>2, UnsentRow DEF Submissions, Held, Fresh
<1>4. Held'
  <2>1. ASSUME NEW p \in pass.left \ {q} PROVE Fresh(p)'
    BY <1>1, <1>2, <2>1, OthersFresh DEF Fresh, history
  <2> QED
    BY <2>1 DEF Held
<1> QED
  BY <1>3, <1>4, RowKeeps DEF Submissions, TypeOK, payload, history

LEMMA DispatchedType ==
  ASSUME Submissions, NEW q \in Requests, NEW where \in Steps
  PROVE  /\ Dispatched(q, where) \in Passes
         /\ Dispatched(q, where).at = where
         /\ Dispatched(q, where).left = pass.left \ {q}
BY DEF Submissions, TypeOK, Passes, Dispatched

\* What the pass holds first is still to be answered.
LEMMA HeldRow ==
  ASSUME Submissions, NEW q \in Requests, Current(q),
         pass.at \in {"dispatch", "record"}
  PROVE  /\ request[q] \in Rows /\ request[q].status = "submitting"
         /\ request[q].tries < MaxAttempts
         /\ pass.at = "record" /\ pass.answer = "rate_limited" => accepted[q] = 0
<1>1. request[q].status = "submitting"
  BY DEF Submissions, Held, Fresh, Current, First
<1> QED
  BY <1>1, UnsentRow DEF Submissions, Held, Fresh, Current, First

LEMMA WithdrawKeeps ==
  ASSUME Submissions, NEW q \in Requests, Withdraw(q) PROVE Submissions'
<1> DEFINE row == Settle([request[q] EXCEPT !.status = "cancelled"], "released")
<1>1. pass.at = "dispatch" /\ Current(q) /\ Set(q, row)
  BY DEF Withdraw, At
<1>2. row \in Rows /\ row.status = "cancelled"
  <2> DEFINE new == [request[q] EXCEPT !.status = "cancelled"]
  <2>1. request[q] \in Rows
    BY <1>1, HeldRow
  <2>2. new \in Rows /\ new.status = "cancelled"
    BY <2>1, StatusRow DEF Over
  <2> HIDE DEF new
  <2>3. Settle(new, "released") \in Rows /\ Settle(new, "released").status = new.status
    BY <2>2, SettleRow
  <2>4. row = Settle(new, "released")
    BY DEF new
  <2> HIDE DEF row
  <2> QED
    BY <2>2, <2>3, <2>4
<1>3. pass' \in Passes /\ pass'.at = "dispatch" /\ pass'.left = pass.left \ {q}
  BY DispatchedType DEF Withdraw, Steps
<1> HIDE DEF row
<1> QED
  BY <1>1, <1>2, <1>3, DispatchedKeeps DEF Withdraw, Submissions, TypeOK, Over

LEMMA AmbiguousKeeps ==
  ASSUME Submissions, NEW q \in Requests, Ambiguous(q) PROVE Submissions'
<1> DEFINE row == Settle(request[q], "charged")
<1>1. pass.at = "record" /\ Current(q) /\ Set(q, row)
  BY DEF Ambiguous, Answer, At
<1>2. row \in Rows /\ row.status = "submitting" /\ row.tries < MaxAttempts
  <2>1. /\ request[q] \in Rows /\ request[q].status = "submitting"
        /\ request[q].tries < MaxAttempts
    BY <1>1, HeldRow
  <2>2. /\ row \in Rows /\ row.status = request[q].status
        /\ row.tries = request[q].tries
    BY <2>1, SettleRow
  <2> HIDE DEF row
  <2> QED
    BY <2>1, <2>2
<1>3. pass' \in Passes /\ pass'.at = "dispatch" /\ pass'.left = pass.left \ {q}
  <2> DEFINE next == Dispatched(q, "dispatch")
  <2>1. /\ next \in Passes /\ next.at = "dispatch" /\ next.left = pass.left \ {q}
    BY DispatchedType DEF Steps
  <2>2. pass' = [next EXCEPT !.deferred = TRUE]
    BY DEF Ambiguous
  <2> HIDE DEF next
  <2> QED
    BY <2>1, <2>2 DEF Passes
<1> HIDE DEF row
<1> QED
  BY <1>1, <1>2, <1>3, DispatchedKeeps DEF Ambiguous, Submissions, TypeOK

LEMMA RefusedKeeps ==
  ASSUME Submissions, NEW q \in Requests, Refused(q) PROVE Submissions'
<1> DEFINE row == FailedUnlessOver(request[q], TRUE)
<1>1. pass.at = "record" /\ Current(q) /\ Set(q, row)
  BY DEF Refused, Answer, At
<1>2. row \in Rows /\ row.status \in Over
  BY <1>1, HeldRow, FailedRow
<1>3. pass' \in Passes /\ pass'.at = "dispatch" /\ pass'.left = pass.left \ {q}
  BY DispatchedType DEF Refused, Steps
<1> HIDE DEF row
<1> QED
  BY <1>1, <1>2, <1>3, DispatchedKeeps DEF Refused, Submissions, TypeOK, Over

LEMMA ReceiptKeeps ==
  ASSUME Submissions, NEW q \in Requests, Receipt(q) PROVE Submissions'
<1> DEFINE known == [request[q] EXCEPT !.known = TRUE]
           row == IF Cancelled
                  THEN Settle([known EXCEPT !.status = "cancelled"], "charged")
                  ELSE IF Answer("pending") THEN [known EXCEPT !.status = "pending"]
                  ELSE Settle([known EXCEPT !.status = "completed"], "charged")
<1>1. pass.at = "record" /\ Current(q) /\ Set(q, row)
  BY DEF Receipt, Answer, At, Set
<1>2. known \in Rows /\ known.tries < MaxAttempts
  BY <1>1, HeldRow DEF Rows
<1>3. row \in Rows /\ row.status \in {"pending"} \cup Over /\ row.tries < MaxAttempts
  <2> HIDE DEF known
  <2>1. \A status \in {"cancelled", "pending", "completed"} :
          /\ [known EXCEPT !.status = status] \in Rows
          /\ [known EXCEPT !.status = status].status = status
          /\ [known EXCEPT !.status = status].tries < MaxAttempts
    BY <1>2, StatusRow DEF Open, Over
  <2> QED
    BY <2>1, SettleRow DEF Over
<1>4. pass' \in Passes /\ pass'.at = "dispatch" /\ pass'.left = pass.left \ {q}
  BY DispatchedType DEF Receipt, Steps, Passes
<1>5. state' \in RunStates
  BY FinalizedType DEF Receipt, Submissions, TypeOK
<1>6. UNCHANGED <<enabled, wake, poll, payload, history>>
  BY DEF Receipt
<1> HIDE DEF row
<1> QED
  BY <1>1, <1>3, <1>4, <1>5, <1>6, DispatchedKeeps DEF Over

LEMMA RateLimitedKeeps ==
  ASSUME Submissions, NEW q \in Requests, RateLimited(q) PROVE Submissions'
<1> DEFINE row == [request[q] EXCEPT !.status = "queued", !.tries = @ + 1]
           gone == AttemptsUsed(row.tries)
           new == IF gone THEN Failed(row, FALSE) ELSE row
<1>1. /\ pass.at = "record" /\ pass.answer = "rate_limited" /\ Current(q)
      /\ Set(q, new)
  BY DEF RateLimited, Answer, At
<1>2. /\ request[q] \in Rows /\ request[q].tries < MaxAttempts /\ accepted[q] = 0
  BY <1>1, HeldRow
<1>3. row \in Rows /\ row.status = "queued" /\ row.tries \in 0..MaxAttempts
  <2> DEFINE tried == [request[q] EXCEPT !.tries = @ + 1]
  <2>1. tried \in Rows
    BY <1>2, TriedRow
  <2>2. row = [tried EXCEPT !.status = "queued"]
    BY <1>2 DEF Rows
  <2> HIDE DEF tried
  <2>3. row \in Rows /\ row.status = "queued"
    BY <2>1, <2>2, StatusRow DEF Open
  <2> HIDE DEF row
  <2> QED
    BY <2>3 DEF Rows
<1>4. gone \in BOOLEAN /\ (~ gone => row.tries < MaxAttempts)
  <2> HIDE DEF row
  <2> QED
    BY <1>3, BoundAssumption DEF AttemptsUsed
<1>5. /\ pass' \in Passes /\ pass'.at \in {"exhausted", "pause"}
      /\ pass'.left = pass.left \ {q}
  <2> DEFINE where == IF gone THEN "exhausted" ELSE "pause"
             next == Dispatched(q, where)
             deferred == pass.deferred \/ ~ gone
  <2>1. pass' = [next EXCEPT !.deferred = deferred]
    BY DEF RateLimited
  <2> HIDE DEF gone
  <2>2. where \in Steps /\ where \in {"exhausted", "pause"} /\ deferred \in BOOLEAN
    BY <1>4 DEF Steps
  <2> HIDE DEF where, deferred
  <2>3. next \in Passes /\ next.at = where /\ next.left = pass.left \ {q}
    BY <2>2, DispatchedType
  <2> HIDE DEF next
  <2> QED
    BY <2>1, <2>2, <2>3 DEF Passes
<1>6. UNCHANGED <<state, enabled, wake, poll, payload, history>>
  BY DEF RateLimited
<1> HIDE DEF row, gone
<1>7. /\ new \in Rows /\ new.status \in {"queued", "failed"}
      /\ new.status \notin Over => new.tries < MaxAttempts
  <2>1. CASE gone
    BY <1>3, <2>1, FailedRow DEF Over
  <2>2. CASE ~ gone
    BY <1>3, <1>4, <2>2
  <2> QED
    BY <2>1, <2>2
<1> HIDE DEF new
<1> QED
  BY <1>1, <1>2, <1>5, <1>6, <1>7, DispatchedKeeps DEF Submissions, TypeOK

\* A batch is over before the pass has taken it.
LEMMA PrepareOver ==
  ASSUME Submissions, NEW q \in Batches, PrepareExhausted(q) \/ PrepareExpired(q)
  PROVE  Submissions'
<1> DEFINE row == IF PrepareExhausted(q)
                  THEN [request[q] EXCEPT !.status = "failed"]
                  ELSE Expire(request[q])
<1>1. /\ q \in Requests /\ q \in pass.todo /\ pass.at = "prepare"
      /\ request[q].status \in {"none", "submitting"}
  BY DEF PrepareExhausted, PrepareExpired, Requests, At, Batch, First
<1>2. request[q] \in Rows /\ poll[q] = "none" /\ applying # q
  BY <1>1, UnsentRow
<1>3. row \in Rows /\ row.status = "failed"
  <2>1. CASE PrepareExhausted(q)
    <3> DEFINE new == [request[q] EXCEPT !.status = "failed"]
    <3>1. new \in Rows /\ new.status = "failed"
      BY <1>2, StatusRow DEF Over
    <3> QED
      BY <2>1, <3>1
  <2>2. CASE ~ PrepareExhausted(q)
    BY <1>2, <2>2, FailedRow DEF Expire
  <2> QED
    BY <2>1, <2>2
<1>4. Set(q, row)
  BY DEF PrepareExhausted, PrepareExpired
<1>5. state' \in RunStates
  BY DEF PrepareExhausted, PrepareExpired, Submissions, TypeOK, RunStates
<1>6. /\ pass' \in Passes /\ pass'.at \in {"prepare", "expired"}
      /\ pass'.mine = pass.mine /\ pass'.todo = pass.todo \ {q}
  BY <1>1 DEF PrepareExhausted, PrepareExpired, Prepared, Submissions, TypeOK,
              Passes, Steps
<1>7. UNCHANGED <<enabled, wake, poll, payload, history>>
  BY DEF PrepareExhausted, PrepareExpired
<1> HIDE DEF row
<1>8. Held'
  <2>1. pass.mine \subseteq Requests \ {q}
    BY <1>1 DEF Submissions, TypeOK, Passes, Held
  <2>2. \A p \in Requests \ {q} : request'[p] = request[p]
    BY <1>1, <1>3, <1>4, SetType DEF Submissions
  <2>3. \A p \in pass.mine : Fresh(p)'
    BY <1>1, <1>7, <2>1, <2>2 DEF Submissions, Held, Fresh, history
  <2> QED
    BY <1>1, <1>6, <2>3 DEF Submissions, Held
<1> QED
  BY <1>1, <1>2, <1>3, <1>4, <1>5, <1>6, <1>7, <1>8, RowKeeps
  DEF Over, payload, history, Submissions, TypeOK

\* A row is over, whoever holds no request ends it.
LEMMA OverKeeps ==
  ASSUME Submissions, NEW q \in Requests, NEW row \in Rows, Set(q, row),
         row.status \in Over, row.tries = request[q].tries,
         poll' \in [Requests -> Polls], \A p \in Requests \ {q} : poll'[p] = poll[p],
         poll'[q] = "pending" => poll[q] = "pending",
         applying' \in {applying, NoRequest}, lastOne' \in BOOLEAN,
         pass' \in Passes, Held', state' \in RunStates,
         UNCHANGED <<enabled, wake, history>>
  PROVE  Submissions'
<1>1. row.status \notin Over \/ poll'[q] = "pending" => row.tries < MaxAttempts
  BY DEF Submissions, AttemptsLeft
<1>2. row.status \in {"none", "queued"} => accepted[q] = 0
  BY DEF Over
<1> QED
  BY <1>1, <1>2, RowKeeps DEF history, Submissions, TypeOK

LEMMA AbortKeeps ==
  ASSUME Submissions, NEW q \in Requests, Abort(q) PROVE Submissions'
<1> DEFINE charge == OfRun /\ Submitted(request[q])
           row == FailedUnlessOver(request[q], charge)
<1>1. request[q] \in Rows /\ charge \in BOOLEAN
  BY DEF Submissions, TypeOK, OfRun, Submitted, Rows
<1>2. Set(q, row)
  BY DEF Abort
<1> HIDE DEF charge
<1>3. row \in Rows /\ row.status \in Over /\ row.tries = request[q].tries
  BY <1>1, FailedRow
<1>4. pass' \in Passes /\ pass'.at = "abort"
  BY DispatchedType DEF Abort, Steps
<1>5. Held'
  BY <1>4, HeldLoose DEF Tight
<1>6. UNCHANGED <<state, enabled, wake, poll, payload, history>>
  BY DEF Abort
<1> HIDE DEF row
<1> QED
  BY <1>2, <1>3, <1>4, <1>5, <1>6, OverKeeps DEF payload, Submissions, TypeOK

LEMMA PauseKeeps == ASSUME Submissions, Pause PROVE Submissions'
<1>1. pass.at = "pause" /\ pass.left \subseteq Requests
  BY DEF Pause, At, Submissions, TypeOK, Passes
<1>2. ASSUME NEW q \in pass.left
      PROVE  /\ request[q] \in Rows /\ request[q].tries < MaxAttempts
             /\ poll[q] = "none" /\ applying # q /\ accepted[q] = 0
  BY <1>1, <1>2, UnsentRow DEF Submissions, Held, Fresh
<1>3. ASSUME NEW q \in pass.left
      PROVE  /\ request'[q] \in Rows /\ request'[q].tries < MaxAttempts
             /\ request'[q].status = "queued"
  <2>1. request'[q] = [request[q] EXCEPT !.status = "queued"]
    BY <1>1 DEF Pause
  <2> QED
    BY <1>2, <2>1, StatusRow DEF Open
<1>4. \A q \in Requests \ pass.left : request'[q] = request[q]
  BY DEF Pause
<1>5. request' \in [Requests -> Rows]
  <2>1. \A q \in Requests : request'[q] \in Rows
    BY <1>3, <1>4 DEF Submissions, TypeOK
  <2> QED
    BY <2>1 DEF Pause
<1>6. pass' \in Passes /\ pass'.at = "finish"
  BY DEF Pause, Submissions, TypeOK, Passes, Steps
<1>7. Held'
  BY <1>6, HeldLoose DEF Tight
<1>8. UNCHANGED <<state, enabled, wake, poll, payload, history>>
  BY DEF Pause
<1>9. TypeOK'
  BY <1>5, <1>6, <1>8 DEF Submissions, TypeOK, payload, history
<1>10. Followed' /\ AttemptsLeft' /\ Unsent'
  BY <1>2, <1>3, <1>4, <1>8
  DEF Submissions, Followed, AttemptsLeft, Unsent, payload, history
<1> QED
  BY <1>7, <1>9, <1>10 DEF Submissions

LEMMA SweepKeeps == ASSUME Submissions, Sweep PROVE Submissions'
<1>1. ASSUME NEW q \in OpenRequests
      PROVE  /\ request'[q] \in Rows /\ request'[q].status = "failed"
             /\ request'[q].tries = request[q].tries
  <2> DEFINE charge == Submitted(request[q])
  <2>1. request'[q] = Failed(request[q], charge)
    BY DEF Sweep, OpenRequests
  <2>2. request[q] \in Rows /\ charge \in BOOLEAN
    BY DEF Submissions, TypeOK, OpenRequests, Submitted, Rows
  <2> HIDE DEF charge
  <2> QED
    BY <2>1, <2>2, FailedRow
<1>2. \A q \in Requests \ OpenRequests : request'[q] = request[q]
  BY DEF Sweep
<1>3. request' \in [Requests -> Rows]
  <2>1. \A q \in Requests : request'[q] \in Rows
    BY <1>1, <1>2 DEF Submissions, TypeOK
  <2> QED
    BY <2>1 DEF Sweep
<1>4. pass' \in Passes /\ pass'.at = "swept"
  BY GotoType DEF Sweep, Submissions, Steps
<1>5. Held'
  BY <1>4, HeldLoose DEF Tight
<1>6. UNCHANGED <<state, enabled, wake, poll, payload, history>>
  BY DEF Sweep
<1>7. TypeOK'
  BY <1>3, <1>4, <1>6 DEF Submissions, TypeOK, payload, history
<1>8. Followed'
  BY <1>1, <1>2, <1>6 DEF Submissions, Followed, payload, Over
<1>9. AttemptsLeft'
  <2>1. \A q \in OpenRequests : request[q].tries < MaxAttempts
    BY DEF Submissions, AttemptsLeft, OpenRequests, Open, Over
  <2> QED
    BY <1>1, <1>2, <1>6, <2>1 DEF Submissions, AttemptsLeft
<1>10. Unsent'
  BY <1>1, <1>2, <1>6 DEF Submissions, Unsent, history
<1> QED
  BY <1>5, <1>7, <1>8, <1>9, <1>10 DEF Submissions

\* The provider gets a request that it has not had.
LEMMA CallKeeps ==
  ASSUME Submissions, NEW q \in Requests, Call(q) PROVE Submissions'
<1>1. /\ pass.at = "call" /\ Current(q) /\ q \in pass.left
      /\ pass.left \subseteq Requests /\ \A p \in pass.left : Fresh(p)
  BY DEF Call, At, Current, First, Submissions, TypeOK, Passes, Held
<1>2. PICK answer \in SubmitAnswers, taken \in BOOLEAN :
        /\ answer \in {"rate_limited", "auth"} => ~ taken
        /\ accepted' = IF taken THEN [accepted EXCEPT ![q] = @ + 1] ELSE accepted
        /\ pass' = [pass EXCEPT !.at = "record", !.answer = answer]
  BY DEF Call
<1>3. /\ pass' \in Passes /\ pass'.at = "record" /\ pass'.answer = answer
      /\ pass'.left = pass.left
  BY <1>2 DEF Submissions, TypeOK, Passes, Steps
<1>4. /\ accepted' \in [Requests -> Nat]
      /\ \A p \in Requests \ {q} : accepted'[p] = accepted[p]
      /\ accepted'[q] \in {0, 1}
      /\ answer = "rate_limited" => accepted'[q] = 0
  BY <1>1, <1>2 DEF Submissions, TypeOK, Fresh
<1>5. UNCHANGED <<state, request, enabled, wake, poll, payload, crashes>>
  BY DEF Call
<1>6. TypeOK'
  <2>1. late' \in Nat
    BY DEF Call, Submissions, TypeOK
  <2> QED
    BY <1>3, <1>4, <1>5, <2>1 DEF Submissions, TypeOK, payload
<1>7. Followed' /\ AttemptsLeft'
  BY <1>5 DEF Submissions, Followed, AttemptsLeft, payload
<1>8. Unsent'
  BY <1>1, <1>4, <1>5 DEF Submissions, Unsent, Fresh
<1>9. Held'
  <2>1. Current(q)'
    BY <1>1, <1>3 DEF Current, First
  <2>2. ASSUME NEW p \in pass.left
        PROVE  /\ request'[p].status = "submitting"
               /\ Fresh(p)' \/ (Current(p)' /\ pass'.answer # "rate_limited")
    BY <1>1, <1>3, <1>4, <1>5, <2>1, <2>2 DEF Fresh
  <2> QED
    BY <1>3, <2>2 DEF Held
<1> QED
  BY <1>6, <1>7, <1>8, <1>9 DEF Submissions

\* The polls of what is pending are sent.
LEMMA ScheduleKeeps == ASSUME Submissions, Schedule PROVE Submissions'
<1>1. PICK q \in pass.submitted :
        /\ poll' = [poll EXCEPT ![q] = IF Polled(q) THEN "due" ELSE @]
        /\ pass' = [pass EXCEPT !.submitted = @ \ {q}]
  BY DEF Schedule
<1>2. q \in Requests
  BY DEF Submissions, TypeOK, Passes
<1>3. pass' \in Passes /\ pass'.at = "schedule"
  BY <1>1 DEF Schedule, At, Submissions, TypeOK, Passes
<1>4. Held'
  BY <1>3, HeldLoose DEF Tight
<1>5. UNCHANGED <<state, request, enabled, wake, payload, history>>
  BY DEF Schedule
<1>6. /\ poll' \in [Requests -> Polls]
      /\ \A p \in Requests \ {q} : poll'[p] = poll[p]
      /\ poll'[q] = poll[q] \/ (poll'[q] = "due" /\ request[q].status = "pending")
  BY <1>1, <1>2 DEF Submissions, TypeOK, Polled, Polls
<1>7. TypeOK'
  BY <1>3, <1>5, <1>6 DEF Submissions, TypeOK, payload, history
<1>8. Followed' /\ AttemptsLeft' /\ Unsent'
  BY <1>2, <1>5, <1>6
  DEF Submissions, Followed, AttemptsLeft, Unsent, payload, history
<1> QED
  BY <1>4, <1>7, <1>8 DEF Submissions

-----------------------------------------------------------------------------
(* Steps of the other actors *)

\* What moves neither the pass nor a row leaves the pass what it holds.
LEMMA HeldStays ==
  ASSUME Submissions, UNCHANGED <<pass, request, accepted>> PROVE Held'
BY DEF Submissions, Held, Fresh, Current, First

LEMMA OutsideKeeps ==
  ASSUME Submissions, Cancel \/ DisabledElsewhere \/ ResetConnector \/ UNCHANGED vars
  PROVE  Submissions'
<1>1. /\ state' \in RunStates /\ enabled' \in BOOLEAN
      /\ UNCHANGED <<request, wake, pass, poll, payload, history>>
  BY DEF Cancel, DisabledElsewhere, ResetConnector, vars, payload, history,
         Submissions, TypeOK, RunStates
<1>2. Held'
  BY <1>1, HeldStays DEF history
<1> QED
  BY <1>1, <1>2, MoveKeeps DEF Submissions, TypeOK, history

LEMMA BeginRequestKeeps ==
  ASSUME Submissions, NEW q \in Demands, BeginRequest(q) PROVE Submissions'
<1> DEFINE row == [request[q] EXCEPT !.status = "submitting"]
<1>1. q \in Requests /\ request[q].status = "queued" /\ Set(q, row)
  BY DEF BeginRequest, Requests
<1>2. /\ request[q] \in Rows /\ request[q].tries < MaxAttempts /\ poll[q] = "none"
      /\ applying # q /\ accepted[q] = 0
  BY <1>1, UnsentRow
<1>3. row \in Rows /\ row.status = "submitting" /\ row.tries < MaxAttempts
  BY <1>2, StatusRow DEF Open
<1>4. pass' \in Passes /\ pass'.at = "call" /\ pass'.left = {q}
  BY <1>1 DEF BeginRequest, Idle, Passes, Steps
<1>5. UNCHANGED <<state, enabled, wake, poll, payload, history>>
  BY DEF BeginRequest
<1> HIDE DEF row
<1>6. request'[q] = row
  BY <1>1, <1>3, SetType DEF Submissions
<1>7. Held'
  BY <1>2, <1>3, <1>4, <1>5, <1>6 DEF Held, Fresh, history
<1> QED
  BY <1>1, <1>2, <1>3, <1>4, <1>5, <1>7, RowKeeps
  DEF payload, history, Submissions, TypeOK

LEMMA RequestOverKeeps ==
  ASSUME Submissions, NEW q \in Demands, RequestExpired(q) \/ RequestWithdrawn(q)
  PROVE  Submissions'
<1> DEFINE known == request[q].known
           cancelled == [request[q] EXCEPT !.status = "cancelled"]
<1>1. q \in Requests /\ pass.at = "idle"
  BY DEF RequestExpired, RequestWithdrawn, Requests, At
<1>2. request[q] \in Rows /\ known \in BOOLEAN
  BY <1>1 DEF Submissions, TypeOK, Rows
<1>3. cancelled \in Rows /\ cancelled.status = "cancelled"
      /\ cancelled.tries = request[q].tries
  BY <1>2, StatusRow DEF Over
<1>4. \/ Set(q, Failed(request[q], TRUE))
      \/ Set(q, Failed(request[q], known))
      \/ Set(q, Settle(cancelled, "released"))
  BY DEF RequestExpired, RequestWithdrawn, Expire
<1>5. UNCHANGED <<state, enabled, wake, poll, payload, history>>
  BY DEF RequestExpired, RequestWithdrawn
<1>6. pass' \in Passes /\ pass'.at \in {"idle", "expired"}
      /\ (pass'.at = "expired" => pass'.mine = {})
  <2>1. \/ UNCHANGED pass
        \/ pass' = [Idle EXCEPT !.at = "expired", !.task = q]
    BY DEF RequestExpired, RequestWithdrawn
  <2>2. CASE UNCHANGED pass
    BY <1>1, <2>2 DEF Submissions, TypeOK
  <2>3. CASE pass' = [Idle EXCEPT !.at = "expired", !.task = q]
    BY <2>3 DEF Idle, Passes, Steps
  <2> QED
    BY <2>1, <2>2, <2>3
<1> HIDE DEF known, cancelled
<1>7. \E row \in Rows : /\ Set(q, row) /\ row.status \in Over
                        /\ row.tries = request[q].tries
  <2>1. CASE Set(q, Failed(request[q], TRUE))
    BY <1>2, <2>1, FailedRow DEF Over
  <2>2. CASE Set(q, Failed(request[q], known))
    BY <1>2, <2>2, FailedRow DEF Over
  <2>3. CASE Set(q, Settle(cancelled, "released"))
    <3>1. /\ Settle(cancelled, "released") \in Rows
          /\ Settle(cancelled, "released").status = cancelled.status
          /\ Settle(cancelled, "released").tries = cancelled.tries
      BY <1>3, SettleRow
    <3> QED
      BY <1>3, <2>3, <3>1 DEF Over
  <2> QED
    BY <1>4, <2>1, <2>2, <2>3
<1>8. Held'
  BY <1>6 DEF Held
<1> QED
  BY <1>1, <1>5, <1>6, <1>7, <1>8, OverKeeps DEF payload, Submissions, TypeOK

LEMMA QueueOnDemandKeeps ==
  ASSUME Submissions, NEW q \in Demands, QueueOnDemand(q) PROVE Submissions'
<1> DEFINE row == [request[q] EXCEPT !.status = "queued", !.usage = "reserved"]
<1>1. q \in Requests /\ request[q].status = "none" /\ Set(q, row)
  BY DEF QueueOnDemand, Requests
<1>2. /\ request[q] \in Rows /\ request[q].tries < MaxAttempts /\ poll[q] = "none"
      /\ applying # q /\ accepted[q] = 0
  BY <1>1, UnsentRow
<1>3. row \in Rows /\ row.status = "queued" /\ row.tries < MaxAttempts
  BY <1>2 DEF Rows, Open
<1>4. UNCHANGED <<state, enabled, wake, pass, poll, payload, history>>
  BY DEF QueueOnDemand
<1> HIDE DEF row
<1>5. Held'
  BY <1>1, <1>3, <1>4, HeldElsewhere DEF history
<1> QED
  BY <1>1, <1>2, <1>3, <1>4, <1>5, RowKeeps DEF payload, history, Submissions, TypeOK

\* A polled request was submitted.
LEMMA PolledRow ==
  ASSUME Submissions, NEW q \in Requests, poll[q] # "none" \/ applying = q
  PROVE  /\ request[q] \in Rows /\ request[q].status \in {"pending"} \cup Over
         /\ request[q].status # "submitting"
         /\ poll[q] = "pending" => request[q].tries < MaxAttempts
BY DEF Submissions, TypeOK, Followed, AttemptsLeft, Over

\* A step of a poll that changes no row.
LEMMA PollMoves ==
  ASSUME Submissions, NEW q \in Requests, poll[q] # "none" \/ applying' = q,
         request[q].status \in {"pending"} \cup Over, NEW where \in Polls,
         PollGoto(q, where), where = "pending" => request[q].status \notin Over,
         applying' \in {applying, q, NoRequest}, lastOne' \in BOOLEAN,
         state' \in RunStates, enabled' \in BOOLEAN, crashes' \in Nat,
         UNCHANGED <<request, wake, pass, accepted, late>>
  PROVE  Submissions'
<1>1. /\ poll' \in [Requests -> Polls] /\ poll'[q] = where
      /\ \A p \in Requests \ {q} : poll'[p] = poll[p]
  BY DEF PollGoto, Submissions, TypeOK
<1>2. TypeOK'
  BY <1>1 DEF Submissions, TypeOK
<1>3. Followed'
  BY <1>1, RequestAssumption DEF Submissions, Followed
<1>4. AttemptsLeft'
  BY <1>1 DEF Submissions, AttemptsLeft
<1>5. Unsent' /\ Held'
  BY HeldStays DEF Submissions, Unsent
<1> QED
  BY <1>2, <1>3, <1>4, <1>5 DEF Submissions

LEMMA PollMovesKeep ==
  ASSUME Submissions, NEW q \in Requests,
         \/ PollAsk(q) \/ PollFinalize(q) \/ PollDisables(q) \/ PollApply(q)
         \/ Webhook(q) \/ CrashPoll(q)
  PROVE  Submissions'
<1>1. CASE PollAsk(q)
  <2>1. PICK answer \in PollAnswers :
          PollGoto(q, IF request[q].status \in Over THEN "none" ELSE answer)
    BY <1>1 DEF PollAsk
  <2> DEFINE where == IF request[q].status \in Over THEN "none" ELSE answer
  <2>2. where \in Polls /\ (where = "pending" => request[q].status \notin Over)
    BY DEF Polls
  <2>3. poll[q] # "none" /\ PollGoto(q, where)
    BY <1>1, <2>1 DEF PollAsk, PollAt
  <2> HIDE DEF where
  <2> QED
    BY <1>1, <2>2, <2>3, PolledRow, PollMoves
    DEF PollAsk, payload, history, Submissions, TypeOK
<1>2. CASE PollFinalize(q)
  <2>1. state' \in RunStates
    BY <1>2, FinalizedType DEF PollFinalize, FinalizeIfTerminal, Submissions, TypeOK
  <2>2. poll[q] # "none" /\ \E where \in {"none", "off"} : PollGoto(q, where)
    BY <1>2 DEF PollFinalize, PollAt
  <2> QED
    BY <1>2, <2>1, <2>2, PolledRow, PollMoves
    DEF PollFinalize, payload, history, Submissions, TypeOK, Polls
<1>3. CASE PollDisables(q)
  BY <1>3, PolledRow, PollMoves
  DEF PollDisables, PollAt, payload, history, Submissions, TypeOK, Polls
<1>4. CASE PollApply(q)
  <2>1. \/ PollGoto(q, "applying") /\ applying' = q /\ lastOne' \in BOOLEAN
        \/ PollGoto(q, "none") /\ UNCHANGED payload
    BY <1>4 DEF PollApply, BeginApply
  <2>2. poll[q] # "none"
    BY <1>4 DEF PollApply, PollAt
  <2>3. UNCHANGED <<state, request, enabled, wake, pass, history>>
    BY <1>4 DEF PollApply
  <2> QED
    BY <2>1, <2>2, <2>3, PolledRow, PollMoves
    DEF payload, history, Submissions, TypeOK, Polls
<1>5. CASE Webhook(q)
  <2> DEFINE where == poll[q]
  <2>1. /\ applying' = q /\ lastOne' \in BOOLEAN /\ request[q].status = "pending"
        /\ UNCHANGED <<state, request, enabled, wake, pass, poll, history>>
    BY <1>5 DEF Webhook, BeginApply
  <2>2. where \in Polls /\ PollGoto(q, where)
    BY <2>1 DEF PollGoto, Submissions, TypeOK
  <2> HIDE DEF where
  <2> QED
    BY <2>1, <2>2, PollMoves DEF history, Submissions, TypeOK, Over
<1>6. CASE CrashPoll(q)
  <2>1. poll[q] # "none" /\ PollGoto(q, "due") /\ crashes' \in Nat
    BY <1>6 DEF CrashPoll, Submissions, TypeOK
  <2> QED
    BY <1>6, <2>1, PolledRow, PollMoves
    DEF CrashPoll, payload, Submissions, TypeOK, Polls
<1> QED
  BY <1>1, <1>2, <1>3, <1>4, <1>5, <1>6

LEMMA PollOverKeeps ==
  ASSUME Submissions, NEW q \in Requests, PollDisabled(q) \/ PollRefused(q)
  PROVE  Submissions'
<1> DEFINE known == request[q].known
<1>1. /\ poll[q] # "none"
      /\ UNCHANGED <<state, enabled, wake, pass, payload, history>>
  BY DEF PollDisabled, PollRefused, PollAt
<1>2. request[q] \in Rows /\ known \in BOOLEAN /\ request[q].status # "submitting"
  BY <1>1, PolledRow DEF Rows
<1>3. \E charge \in BOOLEAN : Set(q, FailedUnlessOver(request[q], charge))
  BY <1>2 DEF PollDisabled, PollRefused
<1>4. PICK row \in Rows : /\ Set(q, row) /\ row.status \in Over
                          /\ row.tries = request[q].tries
  BY <1>2, <1>3, FailedRow
<1>5. /\ poll' \in [Requests -> Polls] /\ poll'[q] # "pending"
      /\ \A p \in Requests \ {q} : poll'[p] = poll[p]
  <2>1. \E where \in {"none", "finalize", "finalize_off"} : PollGoto(q, where)
    BY DEF PollDisabled, PollRefused
  <2> QED
    BY <2>1 DEF PollGoto, Submissions, TypeOK, Polls
<1>6. Held'
  BY <1>1, <1>2, <1>4, HeldElsewhere DEF history
<1> QED
  BY <1>1, <1>4, <1>5, <1>6, OverKeeps DEF payload, Submissions, TypeOK

LEMMA PollPendingKeeps ==
  ASSUME Submissions, NEW q \in Requests, PollPending(q) PROVE Submissions'
<1> DEFINE row == [request[q] EXCEPT !.tries = @ + 1]
           gone == AttemptsUsed(row.tries)
           new == IF gone THEN Failed(row, TRUE) ELSE row
           where == IF gone THEN "finalize" ELSE "due"
<1>1. /\ poll[q] = "pending" /\ Set(q, new) /\ PollGoto(q, where)
      /\ UNCHANGED <<state, enabled, wake, pass, payload, history>>
  BY DEF PollPending, PollAt
<1>2. /\ request[q] \in Rows /\ request[q].tries < MaxAttempts
      /\ request[q].status \in {"pending"} \cup Over
      /\ request[q].status # "submitting"
  BY <1>1, PolledRow
<1>3. /\ row \in Rows /\ row.status = request[q].status
      /\ row.tries = request[q].tries + 1
  BY <1>2, TriedRow
<1> HIDE DEF row
<1>4. ~ gone => row.tries < MaxAttempts
  BY <1>3, BoundAssumption DEF AttemptsUsed, Rows
<1> HIDE DEF gone
<1>5. /\ new \in Rows /\ new.status \in {"pending"} \cup Over
      /\ new.status \notin Over => new.tries < MaxAttempts
  <2>1. CASE gone
    BY <1>3, <2>1, FailedRow DEF Over
  <2>2. CASE ~ gone
    BY <1>2, <1>3, <1>4, <2>2
  <2> QED
    BY <2>1, <2>2
<1> HIDE DEF new
<1>6. where \in Polls /\ where \in {"finalize", "due"}
  BY DEF Polls
<1> HIDE DEF where
<1>7. /\ poll' \in [Requests -> Polls] /\ poll'[q] # "pending"
      /\ \A p \in Requests \ {q} : poll'[p] = poll[p]
  BY <1>1, <1>6 DEF PollGoto, Submissions, TypeOK
<1>8. Held'
  BY <1>1, <1>2, <1>5, HeldElsewhere DEF history
<1>9. new.status \in {"none", "queued"} => accepted[q] = 0
  BY <1>5 DEF Over
<1> QED
  BY <1>1, <1>5, <1>7, <1>8, <1>9, RowKeeps
  DEF payload, history, Submissions, TypeOK

\* The transaction that applies a payload commits.
LEMMA CommitApplyKeeps ==
  ASSUME Submissions, NEW q \in Requests, CommitApply(q) PROVE Submissions'
<1> DEFINE completed == [request[q] EXCEPT !.status = "completed"]
           row == Settle(completed, "charged")
<1>1. /\ applying = q /\ applying' = NoRequest /\ lastOne' = FALSE
      /\ UNCHANGED <<enabled, wake, pass, history>>
  BY DEF CommitApply
<1>2. request[q] \in Rows /\ request[q].status # "submitting"
  BY <1>1, PolledRow
<1>3. /\ completed \in Rows /\ completed.status = "completed"
      /\ completed.tries = request[q].tries
  BY <1>2, StatusRow DEF Over
<1>4. Set(q, row)
  BY DEF CommitApply, Set, Submissions, TypeOK
<1> HIDE DEF completed
<1>5. /\ row \in Rows /\ row.status = completed.status
      /\ row.tries = completed.tries
  BY <1>3, SettleRow
<1> HIDE DEF row
<1>6. row.status \in Over /\ row.tries = request[q].tries
  BY <1>3, <1>5 DEF Over
<1>7. state' \in RunStates
  BY FinalizedType DEF CommitApply, Submissions, TypeOK
<1>8. /\ poll' \in [Requests -> Polls] /\ poll'[q] \in {"none", poll[q]}
      /\ \A p \in Requests \ {q} : poll'[p] = poll[p]
  <2>1. \E where \in {"none", poll[q]} : PollGoto(q, where)
    BY DEF CommitApply
  <2> QED
    BY <2>1 DEF PollGoto, Submissions, TypeOK, Polls
<1>9. Held'
  BY <1>1, <1>2, <1>4, <1>5, HeldElsewhere DEF history
<1> QED
  BY <1>1, <1>4, <1>5, <1>6, <1>7, <1>8, <1>9, OverKeeps
  DEF Submissions, TypeOK

-----------------------------------------------------------------------------
(* Every step *)

LEMMA NextKeeps == ASSUME Submissions, [Next]_vars PROVE Submissions'
<1>1. CASE Moving
  BY <1>1, LooseMoves, TightMoves, PauseKeeps, SweepKeeps, FinalizeKeeps,
     ScheduleKeeps DEF Moving
<1>2. ASSUME NEW q \in Batches, Preparing(q) PROVE Submissions'
  BY <1>2, TightMoves, OpenKeeps, PrepareOver DEF Preparing
<1>3. ASSUME NEW q \in Requests, Dispatching(q) PROVE Submissions'
  BY <1>3, TightMoves, WithdrawKeeps, CallKeeps, ReceiptKeeps, AmbiguousKeeps,
     RefusedKeeps, RateLimitedKeeps, AbortKeeps DEF Dispatching
<1>4. CASE Cancel \/ DisabledElsewhere \/ ResetConnector \/ UNCHANGED vars
  BY <1>4, OutsideKeeps
<1>5. CASE CrashPass
  BY <1>5, LooseMoves
<1>6. ASSUME NEW q \in Demands, RequestTask(q) \/ QueueOnDemand(q)
      PROVE  Submissions'
  BY <1>6, BeginRequestKeeps, RequestOverKeeps, QueueOnDemandKeeps DEF RequestTask
<1>7. ASSUME NEW q \in Requests,
             PollTask(q) \/ Webhook(q) \/ CommitApply(q) \/ CrashPoll(q)
      PROVE  Submissions'
  BY <1>7, PollMovesKeep, PollOverKeeps, PollPendingKeeps, CommitApplyKeeps
  DEF PollTask
<1> QED
  BY <1>1, <1>2, <1>3, <1>4, <1>5, <1>6, <1>7 DEF Next, Pass

LEMMA AlwaysSubmissions == Spec => []Submissions
<1>1. Submissions /\ [Next]_vars => Submissions'
  BY NextKeeps
<1> QED
  BY InitSubmissions, <1>1, PTL DEF Spec

\* The rows, the pass, the polls and the open transaction keep their types for
\* every set of requests and answers; retry_count stays within the attempts
\* (enrichment.py, tasks.py).
THEOREM EnrichmentTypeCorrect == Spec => []TypeOK
<1>1. Submissions => TypeOK
  BY DEF Submissions
<1> QED
  BY AlwaysSubmissions, <1>1, PTL

\* The provider accepts no request twice, whatever it answers, whoever crashes
\* and whoever else works on the run (_prepare_request, _record_receipt,
\* execute_queued_enrichment_request).
THEOREM NoRequestSubmittedTwice == Spec => []SubmittedOnce
<1>1. Submissions => SubmittedOnce
  BY DEF Submissions, Unsent, SubmittedOnce
<1> QED
  BY AlwaysSubmissions, <1>1, PTL

-----------------------------------------------------------------------------
(* After a cancellation *)

LEMMA FinalizedKeepsCancelled == ASSUME NEW now, Cancelled PROVE Finalized(now) = state
BY DEF Finalized, Cancelled

LEMMA CancelledStays ==
  ASSUME Submissions, [Next]_vars, Cancelled PROVE Cancelled'
<1> USE DEF Cancelled
<1>1. CASE Moving
  BY <1>1, FinalizedKeepsCancelled
  DEF Moving, BeginPass, Select, PrepareDone, DispatchDone, Pause, Unauthorized,
      AbortDone, Disable, Sweep, MarkOff, Finalize, FinalizeIfTerminal, Schedule,
      EndPass
<1>2. ASSUME NEW q \in Batches, Preparing(q) PROVE Cancelled'
  BY <1>2 DEF Preparing, PrepareNothing, PrepareOpen, PrepareExhausted,
              PrepareResume, PrepareWait, PrepareExpired
<1>3. ASSUME NEW q \in Requests, Dispatching(q) PROVE Cancelled'
  <2>1. CASE Receipt(q)
    BY <2>1, FinalizedKeepsCancelled DEF Receipt
  <2>2. CASE ~ Receipt(q)
    BY <1>3, <2>2 DEF Dispatching, Dispatch, Withdraw, Call, Ambiguous, Refused,
                      RateLimited, Abort
  <2> QED
    BY <2>1, <2>2
<1>4. CASE Cancel \/ DisabledElsewhere \/ ResetConnector \/ CrashPass
           \/ UNCHANGED vars
  BY <1>4 DEF Cancel, DisabledElsewhere, ResetConnector, CrashPass, vars
<1>5. ASSUME NEW q \in Demands, RequestTask(q) \/ QueueOnDemand(q)
      PROVE  Cancelled'
  BY <1>5 DEF RequestTask, BeginRequest, RequestExpired, RequestWithdrawn,
              QueueOnDemand
<1>6. ASSUME NEW q \in Requests,
             PollTask(q) \/ Webhook(q) \/ CommitApply(q) \/ CrashPoll(q)
      PROVE  Cancelled'
  <2>1. CASE CommitApply(q) \/ PollFinalize(q)
    BY <2>1, FinalizedKeepsCancelled DEF CommitApply, PollFinalize, FinalizeIfTerminal
  <2>2. CASE ~ (CommitApply(q) \/ PollFinalize(q))
    BY <1>6, <2>2 DEF PollTask, PollAsk, PollDisabled, PollPending, PollRefused,
                      PollDisables, PollApply, Webhook, CrashPoll
  <2> QED
    BY <2>1, <2>2
<1> QED
  BY <1>1, <1>2, <1>3, <1>4, <1>5, <1>6 DEF Next, Pass

\* Only the call itself counts, and a call is entered only before a cancellation.
LEMMA LateSteps ==
  ASSUME Submissions, [Next]_vars
  PROVE  \/ UNCHANGED late /\ (At("call")' => At("call") \/ ~ Cancelled)
         \/ /\ At("call") /\ ~ At("call")'
            /\ late' = IF Cancelled THEN late + 1 ELSE late
<1> USE DEF At, history
<1>1. CASE Moving
  <2>1. UNCHANGED late
    BY <1>1 DEF Moving, BeginPass, Select, PrepareDone, DispatchDone, Pause,
                Unauthorized, AbortDone, Disable, Sweep, MarkOff, Finalize, Schedule,
                EndPass
  <2>2. pass'.at # "call"
    <3>1. CASE BeginPass \/ Select \/ MarkOff \/ EndPass
      BY <3>1, IdleType
      DEF BeginPass, Select, MarkOff, EndPass, Idle, Submissions, TypeOK, Passes
    <3>2. CASE Disable \/ Finalize
      <4>1. pass' = Idle \/ \E where \in Steps \ {"call"} : Goto(where)
        BY <3>2 DEF Disable, Finalize, Steps
      <4> QED
        BY <4>1, IdleType, GotoType DEF Submissions
    <3>3. CASE PrepareDone \/ DispatchDone \/ Pause \/ Unauthorized \/ AbortDone
               \/ Sweep \/ Schedule
      BY <3>3 DEF PrepareDone, DispatchDone, Pause, Unauthorized, AbortDone, Sweep,
                  Schedule, Goto, Submissions, TypeOK, Passes
    <3> QED
      BY <1>1, <3>1, <3>2, <3>3 DEF Moving
  <2> QED
    BY <2>1, <2>2
<1>2. ASSUME NEW q \in Batches, Preparing(q)
      PROVE  UNCHANGED late /\ pass'.at # "call"
  BY <1>2 DEF Preparing, PrepareNothing, PrepareOpen, PrepareExhausted,
              PrepareResume, PrepareWait, PrepareExpired, Prepared, Submissions,
              TypeOK, Passes
<1>3. ASSUME NEW q \in Requests, Dispatch(q)
      PROVE  UNCHANGED late /\ ~ Cancelled
  BY <1>3 DEF Dispatch, Wanted
<1>4. ASSUME NEW q \in Requests, Call(q)
      PROVE  /\ pass.at = "call" /\ pass'.at = "record"
             /\ late' = IF Cancelled THEN late + 1 ELSE late
  BY <1>4 DEF Call, Submissions, TypeOK, Passes
<1>5. ASSUME NEW q \in Requests,
             \/ Withdraw(q) \/ Receipt(q) \/ Ambiguous(q) \/ Refused(q)
             \/ RateLimited(q) \/ Abort(q)
      PROVE  UNCHANGED late /\ pass'.at # "call"
  <2>1. UNCHANGED late
    BY <1>5 DEF Withdraw, Receipt, Ambiguous, Refused, RateLimited, Abort
  <2>2. pass'.at # "call"
    BY <1>5 DEF Withdraw, Receipt, Ambiguous, Refused, RateLimited, Abort,
                Dispatched, Submissions, TypeOK, Passes
  <2> QED
    BY <2>1, <2>2
<1>6. CASE Cancel \/ DisabledElsewhere \/ ResetConnector \/ UNCHANGED vars
  BY <1>6 DEF Cancel, DisabledElsewhere, ResetConnector, vars
<1>7. CASE CrashPass
  BY <1>7, IdleType DEF CrashPass
<1>8. ASSUME NEW q \in Demands, BeginRequest(q)
      PROVE  UNCHANGED late /\ ~ Cancelled
  BY <1>8 DEF BeginRequest
<1>9. ASSUME NEW q \in Demands,
             RequestExpired(q) \/ RequestWithdrawn(q) \/ QueueOnDemand(q)
      PROVE  UNCHANGED late /\ (pass'.at = "call" => pass.at = "call")
  BY <1>9 DEF RequestExpired, RequestWithdrawn, QueueOnDemand, Idle
<1>10. ASSUME NEW q \in Requests,
              PollTask(q) \/ Webhook(q) \/ CommitApply(q) \/ CrashPoll(q)
       PROVE  UNCHANGED late /\ UNCHANGED pass
  BY <1>10 DEF PollTask, PollAsk, PollDisabled, PollPending, PollRefused,
               PollFinalize, PollDisables, PollApply, Webhook, CommitApply, CrashPoll
<1> QED
  BY <1>1, <1>2, <1>3, <1>4, <1>5, <1>6, <1>7, <1>8, <1>9, <1>10
  DEF Next, Pass, Dispatching, RequestTask

\* A cancelled run has at most the submission that was already under way: the
\* pass looks at the run before every call (_request_dispatchable, enrich_request).
THEOREM CancellationStopsSubmissions == Spec => []AtMostOneSubmissionAfterCancel
<1>1. Init => Lateness
  BY DEF Init, Lateness
<1>2. Submissions /\ Lateness /\ [Next]_vars => Lateness'
  <2> SUFFICES ASSUME Submissions, Lateness, [Next]_vars PROVE Lateness'
    OBVIOUS
  <2>1. late \in Nat /\ late' \in Nat
    BY NextKeeps DEF Submissions, TypeOK
  <2>2. Cancelled => Cancelled'
    BY CancelledStays
  <2>3. CASE UNCHANGED late /\ (At("call")' => At("call") \/ ~ Cancelled)
    BY <2>2, <2>3 DEF Lateness
  <2>4. CASE /\ At("call") /\ ~ At("call")'
             /\ late' = IF Cancelled THEN late + 1 ELSE late
    BY <2>1, <2>2, <2>4 DEF Lateness
  <2> QED
    BY <2>3, <2>4, LateSteps
<1>3. Lateness => AtMostOneSubmissionAfterCancel
  BY DEF Lateness, AtMostOneSubmissionAfterCancel
<1> QED
  BY AlwaysSubmissions, <1>1, <1>2, <1>3, PTL DEF Spec

-----------------------------------------------------------------------------
(* Answers and their charge                                                 *)

\* A payload is applied to a request that waits for it.
Applied == \A q \in Requests : applying = q => request[q].status = "pending"

\* Every submission and every poll is authorized, and no other run is refused.
Authorized == ~ OtherRuns /\ "auth" \notin SubmitAnswers \cup PollAnswers

\* Then the connector stays enabled, and nobody acts as if it were not.
Connected ==
  /\ enabled
  /\ pass.at \notin {"abort", "aborted", "disable", "sweep", "swept", "mark_off"}
  /\ \A q \in Requests : poll[q] \notin {"finalize_off", "off"}

\* An open request has its unit, and one that was accepted keeps it.
Billed ==
  \A q \in Requests :
    /\ request[q].status \in Open => request[q].usage \in {"reserved", "charged"}
    /\ request[q].status \in Over /\ accepted[q] > 0 => request[q].usage = "charged"

\* Whoever changes a row waits for the transaction that applies a payload to it
\* (the row locks of apply_enrichment_payload).
LEMMA RowsWait ==
  ASSUME Submissions, Applied, [Next]_vars, NEW q \in Requests, applying = q
  PROVE  request'[q] = request[q] \/ CommitApply(q)
<1> USE RequestAssumption DEF RunFree, RowFree, SettleFree, Set
<1>1. request \in [Requests -> Rows] /\ ~ RunFree
  BY DEF Submissions, TypeOK
<1>2. CASE Moving
  <2>1. CASE Pause
    <3>1. q \notin pass.left
      BY <2>1 DEF Pause, At, Submissions, Held, Fresh, Applied
    <3> QED
      BY <2>1, <3>1 DEF Pause
  <2>2. CASE Sweep
    BY <1>1, <2>2 DEF Sweep
  <2> QED
    BY <1>2, <2>1, <2>2
    DEF Moving, BeginPass, Select, PrepareDone, DispatchDone, Unauthorized, AbortDone,
        Disable, MarkOff, Finalize, Schedule, EndPass
<1>3. ASSUME NEW p \in Batches, Preparing(p) PROVE request'[q] = request[q]
  BY <1>1, <1>3
  DEF Preparing, PrepareNothing, PrepareOpen, PrepareExhausted, PrepareResume,
      PrepareWait, PrepareExpired
<1>4. ASSUME NEW p \in Requests, Dispatching(p) PROVE request'[q] = request[q]
  BY <1>1, <1>4
  DEF Dispatching, Dispatch, Withdraw, Call, Receipt, Ambiguous, Refused, RateLimited,
      Abort
<1>5. CASE Cancel \/ DisabledElsewhere \/ ResetConnector \/ CrashPass \/ UNCHANGED vars
  BY <1>5 DEF Cancel, DisabledElsewhere, ResetConnector, CrashPass, vars
<1>6. ASSUME NEW p \in Demands, RequestTask(p) \/ QueueOnDemand(p)
      PROVE  request'[q] = request[q]
  BY <1>1, <1>6
  DEF RequestTask, BeginRequest, RequestExpired, RequestWithdrawn, QueueOnDemand
<1>7. ASSUME NEW p \in Requests,
             PollTask(p) \/ Webhook(p) \/ CommitApply(p) \/ CrashPoll(p)
      PROVE  request'[q] = request[q] \/ CommitApply(q)
  <2>1. CASE CommitApply(p)
    BY <2>1 DEF CommitApply
  <2>2. CASE ~ CommitApply(p)
    BY <1>1, <1>7, <2>2
    DEF PollTask, PollAsk, PollDisabled, PollPending, PollRefused, PollFinalize,
        PollDisables, PollApply, Webhook, BeginApply, CrashPoll
  <2> QED
    BY <2>1, <2>2
<1> QED
  BY <1>2, <1>3, <1>4, <1>5, <1>6, <1>7 DEF Next, Pass

\* A payload is begun for a request that waits for it, and then committed.
LEMMA PayloadSteps ==
  ASSUME Submissions, [Next]_vars
  PROVE  \/ UNCHANGED payload
         \/ \E q \in Requests : BeginApply(q) /\ UNCHANGED <<request, state>>
         \/ \E q \in Requests : CommitApply(q)
<1>1. CASE Moving
  BY <1>1
  DEF Moving, BeginPass, Select, PrepareDone, DispatchDone, Pause, Unauthorized,
      AbortDone, Disable, Sweep, MarkOff, Finalize, Schedule, EndPass
<1>2. ASSUME NEW q \in Batches, Preparing(q) PROVE UNCHANGED payload
  BY <1>2 DEF Preparing, PrepareNothing, PrepareOpen, PrepareExhausted,
              PrepareResume, PrepareWait, PrepareExpired
<1>3. ASSUME NEW q \in Requests, Dispatching(q) PROVE UNCHANGED payload
  BY <1>3 DEF Dispatching, Dispatch, Withdraw, Call, Receipt, Ambiguous, Refused,
              RateLimited, Abort
<1>4. CASE Cancel \/ DisabledElsewhere \/ ResetConnector \/ CrashPass
           \/ UNCHANGED vars
  BY <1>4 DEF Cancel, DisabledElsewhere, ResetConnector, CrashPass, vars, payload
<1>5. ASSUME NEW q \in Demands, RequestTask(q) \/ QueueOnDemand(q)
      PROVE  UNCHANGED payload
  BY <1>5 DEF RequestTask, BeginRequest, RequestExpired, RequestWithdrawn,
              QueueOnDemand
<1>6. ASSUME NEW q \in Requests,
             PollTask(q) \/ Webhook(q) \/ CommitApply(q) \/ CrashPoll(q)
      PROVE  \/ UNCHANGED payload
             \/ BeginApply(q) /\ UNCHANGED <<request, state>>
             \/ CommitApply(q)
  BY <1>6 DEF PollTask, PollAsk, PollDisabled, PollPending, PollRefused, PollFinalize,
              PollDisables, PollApply, Webhook, CrashPoll
<1> QED
  BY <1>1, <1>2, <1>3, <1>4, <1>5, <1>6 DEF Next, Pass

LEMMA AppliedKeeps ==
  ASSUME Submissions, Applied, [Next]_vars PROVE Applied'
<1>1. CASE UNCHANGED payload
  <2> SUFFICES ASSUME NEW q \in Requests, applying' = q
               PROVE  request'[q].status = "pending"
    BY DEF Applied
  <2>1. applying = q /\ ~ CommitApply(q)
    BY <1>1, RequestAssumption DEF payload, CommitApply
  <2> QED
    BY <2>1, RowsWait DEF Applied
<1>2. ASSUME NEW q \in Requests, BeginApply(q), UNCHANGED request PROVE Applied'
  BY <1>2 DEF BeginApply, Applied
<1>3. ASSUME NEW q \in Requests, CommitApply(q) PROVE Applied'
  BY <1>3, RequestAssumption DEF CommitApply, Applied
<1> QED
  BY <1>1, <1>2, <1>3, PayloadSteps

\* Failing a request leaves an answer alone.
LEMMA AnswerIsLeft ==
  ASSUME NEW row \in Rows, NEW charge \in BOOLEAN, row.status \in Over
  PROVE  FailedUnlessOver(row, charge).status = row.status
BY FailedRow DEF FailedUnlessOver, Failable, Over

\* Only a poll that is told to wait touches a request that is over.
LEMMA OverStays ==
  ASSUME Submissions, Applied, "pending" \notin PollAnswers, [Next]_vars,
         NEW q \in Requests, request[q].status \in Over
  PROVE  request'[q].status = request[q].status
<1> USE DEF Set
<1>1. request \in [Requests -> Rows] /\ request[q] \in Rows
  BY DEF Submissions, TypeOK
<1>2. request[q].status \notin {"none"} \cup Open
  BY DEF Over, Open
<1>3. CASE Moving
  <2>1. CASE Pause
    <3>1. q \notin pass.left
      BY <2>1, <1>2 DEF Pause, At, Submissions, Held, Fresh, Open
    <3> QED
      BY <2>1, <3>1 DEF Pause
  <2>2. CASE Sweep
    BY <1>2, <2>2 DEF Sweep, OpenRequests
  <2> QED
    BY <1>3, <2>1, <2>2
    DEF Moving, BeginPass, Select, PrepareDone, DispatchDone, Unauthorized, AbortDone,
        Disable, MarkOff, Finalize, Schedule, EndPass
<1>4. ASSUME NEW p \in Batches, Preparing(p) PROVE request'[q].status = request[q].status
  BY <1>1, <1>2, <1>4
  DEF Preparing, PrepareNothing, PrepareOpen, PrepareExhausted, PrepareResume,
      PrepareWait, PrepareExpired, Resumable, Open
<1>5. ASSUME NEW p \in Requests, Dispatching(p)
      PROVE  request'[q].status = request[q].status
  <2>1. CASE Dispatch(p) \/ Call(p)
    BY <2>1 DEF Dispatch, Call
  <2>2. CASE Abort(p)
    <3>1. CASE p = q
      <4>1. PICK charge \in BOOLEAN : request'[q] = FailedUnlessOver(request[q], charge)
        BY <1>1, <2>2, <3>1 DEF Abort, OfRun, Submitted
      <4> QED
        BY <1>1, <4>1, AnswerIsLeft
    <3> QED
      BY <1>1, <2>2, <3>1 DEF Abort
  <2>3. CASE Withdraw(p) \/ Receipt(p) \/ Ambiguous(p) \/ Refused(p) \/ RateLimited(p)
    <3>1. Current(p) /\ pass.at \in {"dispatch", "record"}
      BY <2>3 DEF Withdraw, Receipt, Ambiguous, Refused, RateLimited, Answer, At
    <3>2. p # q
      BY <1>2, <3>1, HeldRow DEF Open
    <3> QED
      BY <1>1, <2>3, <3>2 DEF Withdraw, Receipt, Ambiguous, Refused, RateLimited
  <2> QED
    BY <1>5, <2>1, <2>2, <2>3 DEF Dispatching
<1>6. CASE Cancel \/ DisabledElsewhere \/ ResetConnector \/ CrashPass \/ UNCHANGED vars
  BY <1>6 DEF Cancel, DisabledElsewhere, ResetConnector, CrashPass, vars
<1>7. ASSUME NEW p \in Demands, RequestTask(p) \/ QueueOnDemand(p)
      PROVE  request'[q].status = request[q].status
  BY <1>1, <1>2, <1>7
  DEF RequestTask, BeginRequest, RequestExpired, RequestWithdrawn, QueueOnDemand, Open
<1>8. ASSUME NEW p \in Requests,
             PollTask(p) \/ Webhook(p) \/ CommitApply(p) \/ CrashPoll(p)
      PROVE  request'[q].status = request[q].status
  <2>1. CASE PollDisabled(p) \/ PollRefused(p)
    <3>1. CASE p = q
      <4>1. PICK charge \in BOOLEAN : request'[q] = FailedUnlessOver(request[q], charge)
        <5>1. request[q].known \in BOOLEAN
          BY <1>1 DEF Rows
        <5> QED
          BY <1>1, <2>1, <3>1, <5>1 DEF PollDisabled, PollRefused
      <4> QED
        BY <1>1, <4>1, AnswerIsLeft
    <3> QED
      BY <1>1, <2>1, <3>1 DEF PollDisabled, PollRefused
  <2>2. CASE PollPending(p)
    BY <2>2 DEF PollPending, PollAt, Submissions, TypeOK, Polls
  <2>3. CASE CommitApply(p)
    <3>1. p # q
      BY <1>2, <2>3 DEF CommitApply, Applied, Open
    <3> QED
      BY <1>1, <2>3, <3>1 DEF CommitApply
  <2> QED
    BY <1>8, <2>1, <2>2, <2>3
    DEF PollTask, PollAsk, PollFinalize, PollDisables, PollApply, Webhook, CrashPoll
<1> QED
  BY <1>3, <1>4, <1>5, <1>6, <1>7, <1>8 DEF Next, Pass

\* The answer of a request is final, whichever of the pass, its poll, a webhook, the
\* API, a deadline or another run's trouble with the connector comes later, as
\* long as no poll is told to wait in vain (webhooks.py, enrichment.py).
THEOREM AnswersStay ==
  ASSUME "pending" \notin PollAnswers
  PROVE  Spec => AnswersAreFinal
<1>1. Init => Applied
  BY RequestAssumption DEF Init, Applied
<1>2. Submissions /\ Applied /\ [Next]_vars => Applied'
  BY AppliedKeeps
<1>3. Submissions /\ Applied /\ [Next]_vars
        => [\A q \in Requests : request[q].status \in Over =>
                                  request'[q].status = request[q].status]_vars
  BY OverStays
<1> QED
  BY AlwaysSubmissions, <1>1, <1>2, <1>3, PTL DEF Spec, AnswersAreFinal

-----------------------------------------------------------------------------
(* The connector stays enabled.                                             *)

\* Nobody disables the connector, or goes where a pass or a poll goes after an
\* authentication error.
LEMMA ConnectedKeeps ==
  ASSUME Submissions, Authorized, Connected, [Next]_vars PROVE Connected'
<1> DEFINE Off == {"abort", "aborted", "disable", "sweep", "swept", "mark_off"}
<1> USE DEF At, Connected, Submissions, TypeOK
<1>0. pass \in Passes /\ pass.answer # "auth" /\ \A q \in Requests : poll[q] # "auth"
  BY DEF Authorized, Passes, Polls
<1>1. CASE Moving
  <2>1. enabled' /\ poll' \in [Requests -> Polls]
        /\ \A q \in Requests : poll'[q] \in {poll[q], "due"}
    BY <1>1 DEF Moving, BeginPass, Select, PrepareDone, DispatchDone, Pause, Unauthorized,
                AbortDone, Disable, Sweep, MarkOff, Finalize, Schedule, EndPass, Polls
  <2>2. pass'.at \notin Off
    <3>1. CASE BeginPass \/ Select \/ EndPass
      BY <1>0, <3>1, IdleType DEF BeginPass, Select, EndPass, Idle, Passes
    <3>2. CASE Finalize
      <4>1. pass' = Idle \/ \E where \in {"prepare", "pause", "schedule"} : Goto(where)
        BY <3>2 DEF Finalize
      <4> QED
        BY <4>1, IdleType, GotoType DEF Steps
    <3>3. CASE PrepareDone \/ DispatchDone \/ Pause \/ Schedule
      BY <1>0, <3>3 DEF PrepareDone, DispatchDone, Pause, Schedule, Goto, Passes
    <3>4. ~ (Unauthorized \/ AbortDone \/ Disable \/ Sweep \/ MarkOff)
      BY <1>0 DEF Unauthorized, Answer, AbortDone, Disable, Sweep, MarkOff
    <3> QED
      BY <1>1, <3>1, <3>2, <3>3, <3>4 DEF Moving
  <2> QED
    BY <2>1, <2>2
<1>2. ASSUME NEW q \in Batches, Preparing(q) PROVE Connected'
  BY <1>0, <1>2 DEF Preparing, PrepareNothing, PrepareOpen, PrepareExhausted,
              PrepareResume, PrepareWait, PrepareExpired, Prepared, Passes
<1>3. ASSUME NEW q \in Requests, Dispatching(q) PROVE Connected'
  <2>1. ~ Abort(q)
    BY DEF Abort
  <2>2. enabled' /\ poll' = poll
    BY <1>3 DEF Dispatching, Dispatch, Withdraw, Call, Receipt, Ambiguous, Refused,
                RateLimited, Abort
  <2>3. pass'.at \notin Off
    <3>1. CASE Dispatch(q) \/ Call(q)
      BY <1>0, <3>1 DEF Dispatch, Call, Goto, Passes
    <3>2. CASE Withdraw(q) \/ Refused(q)
      BY <1>0, <3>2 DEF Withdraw, Refused, Dispatched, Passes
    <3>3. CASE Receipt(q)
      BY <1>0, <3>3 DEF Receipt, Dispatched, Passes
    <3>4. CASE Ambiguous(q)
      BY <1>0, <3>4 DEF Ambiguous, Dispatched, Passes
    <3>5. CASE RateLimited(q)
      BY <1>0, <3>5 DEF RateLimited, Dispatched, Passes
    <3> QED
      BY <1>3, <2>1, <3>1, <3>2, <3>3, <3>4, <3>5 DEF Dispatching
  <2> QED
    BY <2>2, <2>3
<1>4. CASE Cancel \/ DisabledElsewhere \/ ResetConnector \/ UNCHANGED vars
  BY <1>4 DEF Cancel, DisabledElsewhere, ResetConnector, vars, Authorized
<1>5. CASE CrashPass
  BY <1>5, IdleType DEF CrashPass
<1>6. ASSUME NEW q \in Demands, RequestTask(q) \/ QueueOnDemand(q) PROVE Connected'
  BY <1>6 DEF RequestTask, BeginRequest, RequestExpired, RequestWithdrawn,
              QueueOnDemand, Idle
<1>7. ASSUME NEW q \in Requests,
             PollTask(q) \/ Webhook(q) \/ CommitApply(q) \/ CrashPoll(q)
      PROVE  Connected'
  <2>1. enabled' /\ pass' = pass
    BY <1>7 DEF PollTask, PollAsk, PollDisabled, PollPending, PollRefused, PollFinalize,
                PollDisables, PollApply, Webhook, CommitApply, CrashPoll, PollAt
  <2>2. \/ UNCHANGED poll
        \/ \E where \in {"none", "due", "applying", "finalize"} \cup PollAnswers \cup {poll[q]} :
             PollGoto(q, where)
    BY <1>0, <1>7
    DEF PollTask, PollAsk, PollDisabled, PollPending, PollRefused, PollFinalize,
        PollDisables, PollApply, Webhook, CommitApply, CrashPoll, PollAt
  <2>3. PollAnswers \cap {"finalize_off", "off"} = {}
    BY BoundAssumption
  <2> QED
    BY <2>1, <2>2, <2>3 DEF PollGoto
<1> QED
  BY <1>1, <1>2, <1>3, <1>4, <1>5, <1>6, <1>7 DEF Next, Pass

LEMMA AlwaysConnected ==
  ASSUME Authorized PROVE Spec => []Connected
<1>1. Init => Connected
  BY DEF Init, Connected, Idle
<1>2. Submissions /\ Connected /\ [Next]_vars => Connected'
  BY ConnectedKeeps
<1> QED
  BY AlwaysSubmissions, <1>1, <1>2, PTL DEF Spec

-----------------------------------------------------------------------------
(* The charge of what was accepted                                          *)

\* A row with its unit, and one whose unit is spent.
Paid(row) == row.usage \in {"reserved", "charged"}
Spent(row) == row.usage = "charged"

\* Failing or settling a row that has its unit spends it, when that is charged.
LEMMA SpendingRow ==
  ASSUME NEW row \in Rows, Paid(row)
  PROVE  /\ Spent(Settle(row, "charged"))
         /\ Spent(Failed(row, TRUE))
         /\ \A status : Spent(Settle([row EXCEPT !.status = status], "charged"))
BY DEF Paid, Spent, Settle, Failed, Units, Rows

\* What is spent stays so.
LEMMA SpentRow ==
  ASSUME NEW row \in Rows, Spent(row), NEW charge \in BOOLEAN
  PROVE  /\ Spent(Failed(row, charge))
         /\ Spent(FailedUnlessOver(row, charge))
BY DEF Spent, Settle, Failed, FailedUnlessOver, Units, Rows

\* Whoever changes a row leaves an open one paid and an accepted one spent.
LEMMA BilledRow ==
  ASSUME Submissions, Billed, UNCHANGED accepted, NEW q \in Requests, NEW row \in Rows,
         Set(q, row),
         row.status \in Open => Paid(row),
         row.status \in Over /\ accepted[q] > 0 => Spent(row)
  PROVE  Billed'
<1>1. request'[q] = row /\ \A p \in Requests \ {q} : request'[p] = request[p]
  BY SetType DEF Submissions
<1> QED
  BY <1>1 DEF Billed, Paid, Spent

\* A row that is failed and charged.
LEMMA BilledFailure ==
  ASSUME Submissions, Billed, UNCHANGED accepted, NEW q \in Requests,
         NEW row \in Rows, row.status = request[q].status, row.usage = request[q].usage,
         request[q].status # "none",
         Set(q, Failed(row, TRUE)) \/ Set(q, FailedUnlessOver(row, TRUE))
  PROVE  Billed'
<1>1. request[q] \in Rows /\ (accepted[q] > 0 => Paid(row))
      /\ (row.status \in Open => Paid(row))
      /\ (row.status \in Over /\ accepted[q] > 0 => Spent(row))
  BY DEF Submissions, TypeOK, Billed, Paid, Spent, Rows
<1>2. Failed(row, TRUE) \in Rows /\ Failed(row, TRUE).status = "failed"
  BY FailedRow
<1>3. accepted[q] > 0 => Spent(Failed(row, TRUE))
  BY <1>1, SpendingRow
<1>4. CASE Set(q, Failed(row, TRUE))
  <2> DEFINE new == Failed(row, TRUE)
  <2>1. new \in Rows /\ new.status \notin Open /\ (accepted[q] > 0 => Spent(new)) /\ Set(q, new)
    BY <1>2, <1>3, <1>4 DEF Open
  <2> HIDE DEF new
  <2> QED
    BY <2>1, BilledRow
<1>5. CASE Set(q, FailedUnlessOver(row, TRUE)) /\ Failable(row)
  BY <1>4, <1>5 DEF FailedUnlessOver
<1>6. CASE Set(q, FailedUnlessOver(row, TRUE)) /\ ~ Failable(row)
  <2>1. Set(q, row) /\ row.status \in Over
    BY <1>6 DEF FailedUnlessOver, Failable, Over
  <2> QED
    BY <1>1, <2>1, BilledRow
<1> QED
  BY <1>4, <1>5, <1>6

\* The rows stay, and with them what they say.
LEMMA BilledSame ==
  ASSUME Billed, UNCHANGED <<request, accepted>> PROVE Billed'
BY DEF Billed

\* Each batch is opened with its unit, and charged when its deadline passes.
LEMMA BilledPreparing ==
  ASSUME Submissions, Billed, NEW q \in Batches, Preparing(q) PROVE Billed'
<1>0. q \in Requests /\ UNCHANGED accepted
  BY DEF Requests, Preparing, PrepareNothing, PrepareOpen, PrepareExhausted,
         PrepareResume, PrepareWait, PrepareExpired, history
<1>1. request[q] \in Rows
  BY <1>0 DEF Submissions, TypeOK
<1>2. CASE PrepareNothing(q) \/ PrepareWait(q)
  BY <1>0, <1>2, BilledSame DEF PrepareNothing, PrepareWait
<1>3. CASE PrepareOpen(q)
  <2> DEFINE row == [request[q] EXCEPT !.status = "submitting", !.usage = "reserved"]
  <2>1. row \in Rows /\ row.status \notin Over /\ Paid(row) /\ Set(q, row)
    BY <1>1, <1>3 DEF PrepareOpen, Rows, Open, Over, Paid
  <2> HIDE DEF row
  <2> QED
    BY <1>0, <2>1, BilledRow
<1>4. CASE PrepareExhausted(q)
  <2> DEFINE row == [request[q] EXCEPT !.status = "failed"]
  <2>1. row \in Rows /\ row.status \notin Open /\ Set(q, row) /\ accepted[q] = 0
    BY <1>0, <1>1, <1>4 DEF PrepareExhausted, Rows, Open, Over, Submissions, Unsent
  <2> HIDE DEF row
  <2> QED
    BY <1>0, <2>1, BilledRow
<1>5. CASE PrepareResume(q)
  <2> DEFINE row == [request[q] EXCEPT !.status = "submitting"]
  <2>1. row \in Rows /\ row.status \notin Over /\ Paid(row) /\ Set(q, row)
    BY <1>0, <1>1, <1>5
    DEF PrepareResume, Resumable, Rows, Open, Over, Paid, Billed
  <2> HIDE DEF row
  <2> QED
    BY <1>0, <2>1, BilledRow
<1>6. CASE PrepareExpired(q)
  BY <1>0, <1>1, <1>6, BilledFailure DEF PrepareExpired, Expire
<1> QED
  BY <1>2, <1>3, <1>4, <1>5, <1>6 DEF Preparing

\* A submission: refused it is given back only if it was not accepted.
LEMMA BilledDispatching ==
  ASSUME Submissions, Connected, Billed, NEW q \in Requests, Dispatching(q) PROVE Billed'
<1> USE DEF At, Answer
<1>0. request[q] \in Rows
  BY DEF Submissions, TypeOK
<1>1. CASE Dispatch(q)
  BY <1>1, BilledSame DEF Dispatch, history
<1>2. CASE Call(q)
  <2>1. request[q].status = "submitting" /\ UNCHANGED request
        /\ \A p \in Requests \ {q} : accepted'[p] = accepted[p]
    BY <1>2 DEF Call, Current, First, Submissions, TypeOK, Held, Fresh
  <2> QED
    BY <2>1 DEF Billed, Over
<1>3. CASE Abort(q)
  BY <1>3 DEF Abort, Connected
<1>4. CASE Withdraw(q) \/ Receipt(q) \/ Ambiguous(q) \/ Refused(q) \/ RateLimited(q)
  <2>1. Current(q) /\ pass.at \in {"dispatch", "record"} /\ UNCHANGED accepted
    BY <1>4 DEF Withdraw, Receipt, Ambiguous, Refused, RateLimited, history
  <2>2. request[q].status = "submitting" /\ Paid(request[q])
        /\ request[q].tries < MaxAttempts
        /\ (pass.at = "record" /\ pass.answer = "rate_limited" => accepted[q] = 0)
    BY <2>1, HeldRow DEF Billed, Paid, Open
  <2>3. CASE Withdraw(q)
    <3> DEFINE over == [request[q] EXCEPT !.status = "cancelled"]
               row == Settle(over, "released")
    <3>1. over \in Rows /\ over.status = "cancelled"
      BY <1>0, StatusRow DEF Over
    <3>2. accepted[q] = 0
      BY <2>1, <2>3 DEF Withdraw, Submissions, Held, Fresh, Current, First
    <3>3. Set(q, row)
      BY <2>3 DEF Withdraw
    <3> HIDE DEF over
    <3>4. row \in Rows /\ row.status = "cancelled"
      BY <3>1, SettleRow
    <3> HIDE DEF row
    <3> QED
      BY <2>1, <3>2, <3>3, <3>4, BilledRow DEF Open
  <2>4. CASE Receipt(q)
    <3> DEFINE known == [request[q] EXCEPT !.known = TRUE]
    <3>1. known \in Rows /\ Paid(known) /\ known.status = "submitting"
      BY <1>0, <2>2 DEF Rows, Paid
    <3> HIDE DEF known
    <3>2. PICK row : /\ Set(q, row)
                     /\ \/ row = Settle([known EXCEPT !.status = "cancelled"], "charged")
                        \/ row = [known EXCEPT !.status = "pending"]
                        \/ row = Settle([known EXCEPT !.status = "completed"], "charged")
      BY <2>4 DEF Receipt, Set, known
    <3>3. CASE row = [known EXCEPT !.status = "pending"]
      <4>1. row \in Rows /\ row.status = "pending" /\ Paid(row)
        BY <3>1, <3>3 DEF Rows, Open, Paid
      <4> QED
        BY <2>1, <3>2, <4>1, BilledRow DEF Over
    <3>4. CASE row # [known EXCEPT !.status = "pending"]
      <4>1. PICK status \in {"cancelled", "completed"} :
              row = Settle([known EXCEPT !.status = status], "charged")
        BY <3>2, <3>4
      <4> DEFINE over == [known EXCEPT !.status = status]
      <4>2. over \in Rows /\ over.status = status
        BY <3>1, StatusRow DEF Over
      <4>3. Spent(row)
        BY <3>1, <4>1, SpendingRow
      <4> HIDE DEF over
      <4>4. row \in Rows /\ row.status = status
        <5>1. row = Settle(over, "charged")
          BY <4>1 DEF over
        <5> QED
          BY <4>2, <5>1, SettleRow
      <4> QED
        BY <2>1, <3>2, <4>3, <4>4, BilledRow DEF Open
    <3> QED
      BY <3>3, <3>4
  <2>5. CASE Ambiguous(q)
    <3> DEFINE row == Settle(request[q], "charged")
    <3>1. row \in Rows /\ row.status = "submitting" /\ Spent(row) /\ Set(q, row)
      BY <1>0, <2>2, <2>5, SettleRow, SpendingRow DEF Ambiguous
    <3> HIDE DEF row
    <3> QED
      BY <2>1, <3>1, BilledRow DEF Over, Paid, Spent
  <2>6. CASE Refused(q)
    BY <1>0, <2>1, <2>2, <2>6, BilledFailure DEF Refused
  <2>7. CASE RateLimited(q)
    <3> DEFINE row == [request[q] EXCEPT !.status = "queued", !.tries = @ + 1]
    <3>1. accepted[q] = 0
      BY <2>2, <2>7 DEF RateLimited
    <3>2. row \in Rows /\ row.status = "queued" /\ Paid(row)
      <4> DEFINE tried == [request[q] EXCEPT !.tries = @ + 1]
      <4>1. tried \in Rows /\ Paid(tried)
        BY <1>0, <2>2, TriedRow DEF Rows, Paid
      <4>2. row = [tried EXCEPT !.status = "queued"]
        BY <1>0 DEF Rows
      <4> HIDE DEF tried
      <4> QED
        BY <4>1, <4>2 DEF Rows, Open, Paid
    <3>3. Set(q, row) \/ Set(q, Failed(row, FALSE))
      <4>1. request' = [request EXCEPT ![q] = IF AttemptsUsed(row.tries)
                                               THEN Failed(row, FALSE) ELSE row]
        BY <2>7 DEF RateLimited, Set
      <4> HIDE DEF row
      <4> QED
        BY <4>1 DEF Set
    <3> HIDE DEF row
    <3>4. CASE Set(q, row)
      BY <2>1, <3>2, <3>4, BilledRow DEF Over
    <3>5. CASE Set(q, Failed(row, FALSE))
      <4> DEFINE new == Failed(row, FALSE)
      <4>1. new \in Rows /\ new.status = "failed" /\ Set(q, new)
        BY <3>2, <3>5, FailedRow
      <4> HIDE DEF new
      <4> QED
        BY <2>1, <3>1, <4>1, BilledRow DEF Open
    <3> QED
      BY <3>3, <3>4, <3>5
  <2> QED
    BY <1>4, <2>3, <2>4, <2>5, <2>6, <2>7
<1> QED
  BY <1>1, <1>2, <1>3, <1>4 DEF Dispatching

\* A pause puts back what it has not sent; a disabled connector would sweep.
LEMMA BilledMoving ==
  ASSUME Submissions, Connected, Billed, Moving PROVE Billed'
<1>1. CASE Pause
  <2>1. pass.left \subseteq Requests /\ \A q \in pass.left : Fresh(q)
    BY <1>1 DEF Pause, At, Submissions, TypeOK, Passes, Held
  <2>2. \A q \in Requests : /\ q \in pass.left => request'[q] = [request[q] EXCEPT !.status = "queued"]
                            /\ q \notin pass.left => request'[q] = request[q]
    BY <1>1 DEF Pause
  <2>3. \A q \in Requests : request[q] \in Rows
    BY DEF Submissions, TypeOK
  <2>4. ASSUME NEW q \in pass.left
        PROVE  request'[q].status = "queued" /\ request'[q].usage = request[q].usage
    <3>1. request'[q] = [request[q] EXCEPT !.status = "queued"] /\ request[q] \in Rows
      BY <2>1, <2>2, <2>3
    <3> QED
      BY <3>1 DEF Rows
  <2>5. UNCHANGED accepted
    BY <1>1 DEF Pause, history
  <2> QED
    BY <2>1, <2>2, <2>4, <2>5 DEF Billed, Fresh, Open, Over
<1>2. ~ Sweep
  BY DEF Sweep, At, Connected
<1> QED
  BY <1>1, <1>2, BilledSame
  DEF Moving, BeginPass, Select, PrepareDone, DispatchDone, Unauthorized, AbortDone,
      Disable, MarkOff, Finalize, Schedule, EndPass, history

\* What a recruiter asks for is reserved, and given back before it is sent.
LEMMA BilledRequest ==
  ASSUME Submissions, Connected, Billed, NEW q \in Demands,
         RequestTask(q) \/ QueueOnDemand(q)
  PROVE  Billed'
<1>0. q \in Requests /\ request[q] \in Rows /\ UNCHANGED accepted
  BY DEF Requests, Submissions, TypeOK, RequestTask, BeginRequest, RequestExpired,
         RequestWithdrawn, QueueOnDemand, history
<1>1. CASE BeginRequest(q) \/ QueueOnDemand(q)
  <2> DEFINE begun == [request[q] EXCEPT !.status = "submitting"]
             asked == [request[q] EXCEPT !.status = "queued", !.usage = "reserved"]
  <2>1. begun \in Rows /\ begun.status = "submitting" /\ asked \in Rows
        /\ asked.status = "queued" /\ Paid(asked)
    BY <1>0 DEF Rows, Open, Paid
  <2>2. BeginRequest(q) => Paid(begun)
    BY <1>0 DEF BeginRequest, Billed, Rows, Open, Paid
  <2>3. (BeginRequest(q) /\ Set(q, begun)) \/ Set(q, asked)
    BY <1>1 DEF BeginRequest, QueueOnDemand
  <2> HIDE DEF begun, asked
  <2> QED
    BY <1>0, <2>1, <2>2, <2>3, BilledRow DEF Over
<1>2. CASE RequestExpired(q)
  BY <1>0, <1>2, BilledFailure DEF RequestExpired, Expire
<1>3. CASE RequestWithdrawn(q)
  <2> DEFINE over == [request[q] EXCEPT !.status = "cancelled"]
             row == Settle(over, "released")
  <2>1. Set(q, row) /\ accepted[q] = 0
    BY <1>0, <1>3 DEF RequestWithdrawn, Connected, Submissions, Unsent
  <2>2. over \in Rows /\ over.status = "cancelled"
    BY <1>0, StatusRow DEF Over
  <2> HIDE DEF over
  <2>3. row \in Rows /\ row.status = "cancelled"
    BY <2>2, SettleRow
  <2> HIDE DEF row
  <2> QED
    BY <1>0, <2>1, <2>3, BilledRow DEF Open
<1> QED
  BY <1>1, <1>2, <1>3 DEF RequestTask

\* A poll charges what it ends, and a payload what it completes.
LEMMA BilledPoll ==
  ASSUME Submissions, Connected, Billed, NEW q \in Requests,
         PollTask(q) \/ Webhook(q) \/ CommitApply(q) \/ CrashPoll(q)
  PROVE  Billed'
<1>0. request[q] \in Rows /\ UNCHANGED accepted
  BY DEF Submissions, TypeOK, PollTask, PollAsk, PollDisabled, PollPending, PollRefused,
         PollFinalize, PollDisables, PollApply, Webhook, CommitApply, CrashPoll, history
<1>1. ~ PollDisabled(q)
  BY DEF PollDisabled, Connected
<1>2. CASE PollRefused(q)
  <2>1. request[q].status # "none"
    BY <1>2, BoundAssumption DEF PollRefused, PollAt, Submissions, Followed, Over
  <2> QED
    BY <1>0, <1>2, <2>1, BilledFailure DEF PollRefused
<1>3. CASE PollPending(q)
  <2> DEFINE row == [request[q] EXCEPT !.tries = @ + 1]
  <2>1. row \in Rows /\ row.status = request[q].status /\ row.usage = request[q].usage
    <3>1. request[q].tries < MaxAttempts
      BY <1>3 DEF PollPending, PollAt, Submissions, AttemptsLeft
    <3> QED
      BY <1>0, <3>1, TriedRow DEF Rows
  <2>2. request[q].status # "none"
    BY <1>3 DEF PollPending, PollAt, Submissions, Followed, Over
  <2>3. Set(q, row) \/ Set(q, Failed(row, TRUE))
    <3>1. request' = [request EXCEPT ![q] = IF AttemptsUsed(row.tries)
                                             THEN Failed(row, TRUE) ELSE row]
      BY <1>3 DEF PollPending, Set
    <3> HIDE DEF row
    <3> QED
      BY <3>1 DEF Set
  <2> HIDE DEF row
  <2>4. CASE Set(q, row)
    BY <1>0, <2>1, <2>4, BilledRow DEF Billed, Paid, Spent
  <2> QED
    BY <1>0, <2>1, <2>2, <2>3, <2>4, BilledFailure
<1>4. CASE CommitApply(q)
  <2> DEFINE over == [request[q] EXCEPT !.status = "completed"]
             row == Settle(over, "charged")
  <2>1. Set(q, row)
    BY <1>0, <1>4 DEF CommitApply, Set, Submissions, TypeOK
  <2>2. Spent(row) \/ accepted[q] = 0
    <3>1. request[q].status \in {"pending"} \cup Over
      BY <1>4 DEF CommitApply, Submissions, Followed
    <3>2. CASE Paid(request[q])
      BY <1>0, <3>2, SpendingRow
    <3>3. CASE ~ Paid(request[q])
      BY <1>0, <3>1, <3>3 DEF Billed, Paid, Spent, Open, Submissions, TypeOK
    <3> QED
      BY <3>2, <3>3
  <2>3. over \in Rows /\ over.status = "completed"
    BY <1>0, StatusRow DEF Over
  <2> HIDE DEF over
  <2>4. row \in Rows /\ row.status = "completed"
    BY <2>3, SettleRow
  <2> HIDE DEF row
  <2> QED
    BY <1>0, <2>1, <2>2, <2>4, BilledRow DEF Open
<1> QED
  BY <1>0, <1>1, <1>2, <1>3, <1>4, BilledSame
  DEF PollTask, PollAsk, PollFinalize, PollDisables, PollApply, Webhook, CrashPoll

LEMMA BilledKeeps ==
  ASSUME Submissions, Connected, Billed, [Next]_vars PROVE Billed'
<1>1. CASE Pass
  BY <1>1, BilledMoving, BilledPreparing, BilledDispatching DEF Pass
<1>2. CASE Cancel \/ DisabledElsewhere \/ ResetConnector \/ CrashPass \/ UNCHANGED vars
  BY <1>2, BilledSame
  DEF Cancel, DisabledElsewhere, ResetConnector, CrashPass, vars, history
<1> QED
  BY <1>1, <1>2, BilledRequest, BilledPoll DEF Next

\* Whatever the provider has accepted is charged when its request is over, for
\* any number of requests, deadlines, lost answers and lost workers, and whoever
\* ends it, as long as the connector stays enabled (reconcile_usage and its
\* callers in enrichment.py, webhooks.py and tasks.py).
THEOREM AcceptedIsCharged ==
  ASSUME Authorized
  PROVE  Spec => []AcceptedWorkIsCharged
<1>1. Init => Billed
  BY DEF Init, Billed, NoRow, Open, Over
<1>2. Submissions /\ Connected /\ Billed /\ [Next]_vars => Billed'
  BY BilledKeeps
<1>3. Billed => AcceptedWorkIsCharged
  BY DEF Billed, AcceptedWorkIsCharged
<1> QED
  BY AlwaysSubmissions, AlwaysConnected, <1>1, <1>2, <1>3, PTL DEF Spec

-----------------------------------------------------------------------------
(* What ready means                                                         *)

\* No automatic request will be opened any more, or the run can no longer
\* become ready.
AllOpened == \/ Cancelled
             \/ \E q \in Requests : request[q].status = "failed"
             \/ \A b \in Batches : request[b].status # "none"

\* Where a pass has prepared every batch, or acts for a recruiter.
PastPrepare == {"expired", "dispatch", "call", "record", "exhausted", "pause", "finish",
                "schedule"}

\* A request that was answered, or asked for by a recruiter.
Advanced(q) == \/ request[q].status \in {"pending"} \cup Over
               \/ q \in Demands /\ request[q].status # "none"

Prepares ==
  /\ pass.at = "prepare" => \/ AllOpened
                            \/ \A b \in Batches \ pass.todo : request[b].status # "none"
  /\ pass.at \in PastPrepare => AllOpened
  /\ \A q \in Requests : Advanced(q) => AllOpened
  /\ state \in {"partially_ready", "ready"} => AllOpened

\* Only a cancelled run has cancelled requests.
CancelledWithRun == \A q \in Requests : request[q].status = "cancelled" => Cancelled

\* What an open transaction has counted is still so.
CountHolds == lastOne => applying # NoRequest /\ OpenRequests \subseteq {applying}

Readiness ==
  /\ Submissions /\ Applied /\ Connected /\ Prepares /\ CancelledWithRun /\ CountHolds
  /\ ReadyMeansCompleted

\* How the status of a request may change, and when.
StatusMoves(q) ==
  LET old == request[q].status
      new == request'[q].status
  IN \/ new = old
     \/ new = "failed" /\ old \in {"none"} \cup Open
     \/ /\ new = "submitting" /\ old \in {"none", "queued"} /\ RunFree
        /\ old = "none" => q \in Batches /\ At("prepare")
     \/ /\ new = "queued" /\ old = "none" /\ RunFree
        /\ q \in Demands /\ state \in {"partially_ready", "ready"}
     \/ new = "queued" /\ old = "submitting"
     \/ new = "cancelled" /\ old \in Open /\ Cancelled
     \/ new \in {"pending", "completed"} /\ old = "submitting" /\ At("record")
     \/ new = "completed" /\ old = "pending" /\ CommitApply(q)

LEMMA RequestMoves ==
  ASSUME Submissions, Applied, Connected, "pending" \notin PollAnswers, [Next]_vars,
         NEW q \in Requests
  PROVE  StatusMoves(q)
<1> USE DEF StatusMoves
<1>1. request \in [Requests -> Rows] /\ request[q] \in Rows
  BY DEF Submissions, TypeOK
<1>2. ASSUME request[q].status \in Over PROVE StatusMoves(q)
  BY <1>2, OverStays
<1>3. ASSUME UNCHANGED request PROVE StatusMoves(q)
  BY <1>3
<1>4. ASSUME NEW p \in Requests \ {q}, NEW row, Set(p, row) PROVE StatusMoves(q)
  BY <1>1, <1>4 DEF Set
<1>5. ASSUME NEW row \in Rows, NEW charge \in BOOLEAN, request[q].status \notin Over,
             row.status = request[q].status,
             Set(q, Failed(row, charge)) \/ Set(q, FailedUnlessOver(row, charge))
      PROVE  StatusMoves(q)
  <2>1. request'[q].status = "failed"
    <3>1. Failed(row, charge).status = "failed" /\ Failable(row)
      BY <1>5, FailedRow DEF Failable, Over
    <3> QED
      BY <1>1, <1>5, <3>1 DEF Set, FailedUnlessOver
  <2>2. request[q].status \in {"none"} \cup Open
    BY <1>1, <1>5 DEF Rows
  <2> QED
    BY <2>1, <2>2
<1>6. CASE Moving
  <2>1. CASE Pause
    <3>1. CASE q \in pass.left
      <4>1. request[q].status = "submitting" /\ request'[q] = [request[q] EXCEPT !.status = "queued"]
        BY <2>1, <3>1 DEF Pause, At, Submissions, Held, Fresh
      <4> QED
        BY <1>1, <4>1 DEF Rows
    <3> QED
      BY <2>1, <3>1 DEF Pause
  <2>2. ~ Sweep
    BY DEF Sweep, At, Connected
  <2> QED
    BY <1>3, <1>6, <2>1, <2>2
    DEF Moving, BeginPass, Select, PrepareDone, DispatchDone, Unauthorized, AbortDone,
        Disable, MarkOff, Finalize, Schedule, EndPass
<1>7. ASSUME NEW p \in Batches, Preparing(p) PROVE StatusMoves(q)
  <2>1. p \in Requests
    BY DEF Requests
  <2>2. CASE PrepareNothing(p) \/ PrepareWait(p)
    BY <1>3, <2>2 DEF PrepareNothing, PrepareWait
  <2>3. CASE p # q /\ ~ (PrepareNothing(p) \/ PrepareWait(p))
    BY <1>4, <1>7, <2>1, <2>3
    DEF Preparing, PrepareOpen, PrepareExhausted, PrepareResume, PrepareExpired
  <2>4. CASE p = q /\ (PrepareOpen(q) \/ PrepareResume(q))
    <3>1. request'[q].status = "submitting"
      BY <1>1, <2>4 DEF PrepareOpen, PrepareResume, Set, Rows
    <3> QED
      BY <1>7, <2>4, <3>1 DEF PrepareOpen, PrepareResume, Resumable
  <2>5. CASE p = q /\ PrepareExhausted(q)
    BY <1>1, <2>5 DEF PrepareExhausted, Set, Rows
  <2>6. CASE p = q /\ PrepareExpired(q)
    BY <1>1, <1>5, <2>6 DEF PrepareExpired, Expire, Over
  <2> QED
    BY <1>7, <2>2, <2>3, <2>4, <2>5, <2>6 DEF Preparing
<1>8. ASSUME NEW p \in Requests, Dispatching(p) PROVE StatusMoves(q)
  <2>1. CASE Dispatch(p) \/ Call(p)
    BY <1>3, <2>1 DEF Dispatch, Call
  <2>2. ~ Abort(p)
    BY DEF Abort, At, Connected
  <2>3. CASE p # q /\ ~ (Dispatch(p) \/ Call(p))
    <3>1. CASE Receipt(p)
      BY <1>1, <2>3, <3>1 DEF Receipt
    <3> QED
      BY <1>4, <1>8, <2>2, <2>3, <3>1
      DEF Dispatching, Withdraw, Ambiguous, Refused, RateLimited
  <2>4. CASE p = q /\ ~ (Dispatch(p) \/ Call(p))
    <3>0. Withdraw(q) \/ Receipt(q) \/ Ambiguous(q) \/ Refused(q) \/ RateLimited(q)
      BY <1>8, <2>2, <2>4 DEF Dispatching
    <3>1. request[q].status = "submitting" /\ request[q].tries < MaxAttempts
      <4>1. Current(q) /\ pass.at \in {"dispatch", "record"}
        BY <3>0 DEF Withdraw, Receipt, Ambiguous, Refused, RateLimited, Answer, At
      <4> QED
        BY <4>1, HeldRow
    <3>2. CASE Withdraw(q)
      <4> DEFINE over == [request[q] EXCEPT !.status = "cancelled"]
      <4>1. request'[q] = Settle(over, "released") /\ Cancelled
        BY <1>1, <3>2 DEF Withdraw, Wanted, Set
      <4>2. over \in Rows /\ over.status = "cancelled"
        BY <1>1, StatusRow DEF Over
      <4> HIDE DEF over
      <4>3. request'[q].status = "cancelled"
        BY <4>1, <4>2, SettleRow
      <4> QED
        BY <3>1, <4>1, <4>3 DEF Open
    <3>3. CASE Receipt(q)
      <4> DEFINE known == [request[q] EXCEPT !.known = TRUE]
      <4>1. known \in Rows
        BY <1>1 DEF Rows
      <4>2. \/ request'[q] = Settle([known EXCEPT !.status = "cancelled"], "charged") /\ Cancelled
            \/ request'[q] = [known EXCEPT !.status = "pending"]
            \/ request'[q] = Settle([known EXCEPT !.status = "completed"], "charged")
        BY <1>1, <3>3 DEF Receipt
      <4> HIDE DEF known
      <4>3. \A status \in {"cancelled", "completed"} :
              Settle([known EXCEPT !.status = status], "charged").status = status
        <5> TAKE status \in {"cancelled", "completed"}
        <5> DEFINE over == [known EXCEPT !.status = status]
        <5>1. over \in Rows /\ over.status = status
          BY <4>1, StatusRow DEF Over
        <5> HIDE DEF over
        <5>2. Settle(over, "charged").status = status
          BY <5>1, SettleRow
        <5> QED
          BY <5>2 DEF over
      <4>4. \/ request'[q].status = "cancelled" /\ Cancelled
            \/ request'[q].status \in {"pending", "completed"}
        BY <4>1, <4>2, <4>3, StatusRow DEF Open
      <4>5. At("record")
        BY <3>3 DEF Receipt, Answer
      <4> QED
        BY <3>1, <4>4, <4>5 DEF Open
    <3>4. CASE Ambiguous(q)
      BY <1>1, <3>4, SettleRow DEF Ambiguous, Set
    <3>5. CASE Refused(q)
      BY <1>1, <1>5, <3>1, <3>5 DEF Refused, Over
    <3>6. CASE RateLimited(q)
      <4> DEFINE tried == [request[q] EXCEPT !.tries = @ + 1]
                 row == [request[q] EXCEPT !.status = "queued", !.tries = @ + 1]
      <4>1. tried \in Rows
        BY <1>1, <3>1, TriedRow
      <4>2. row = [tried EXCEPT !.status = "queued"]
        BY <1>1 DEF Rows
      <4>3. request'[q] = IF AttemptsUsed(row.tries) THEN Failed(row, FALSE) ELSE row
        BY <1>1, <3>6 DEF RateLimited, Set
      <4> HIDE DEF tried
      <4>4. row \in Rows /\ row.status = "queued"
        BY <4>1, <4>2, StatusRow DEF Open
      <4> HIDE DEF row
      <4>5. request'[q].status \in {"queued", "failed"}
        BY <4>3, <4>4, FailedRow
      <4> QED
        BY <3>1, <4>5 DEF Open
    <3> QED
      BY <3>0, <3>2, <3>3, <3>4, <3>5, <3>6
  <2> QED
    BY <2>1, <2>3, <2>4
<1>9. CASE Cancel \/ DisabledElsewhere \/ ResetConnector \/ CrashPass \/ UNCHANGED vars
  BY <1>3, <1>9 DEF Cancel, DisabledElsewhere, ResetConnector, CrashPass, vars
<1>10. ASSUME NEW p \in Demands, RequestTask(p) \/ QueueOnDemand(p) PROVE StatusMoves(q)
  <2>0. p \in Requests
    BY DEF Requests
  <2>1. CASE p # q
    BY <1>4, <1>10, <2>0, <2>1
    DEF RequestTask, BeginRequest, RequestExpired, RequestWithdrawn, QueueOnDemand
  <2>2. CASE p = q /\ BeginRequest(q)
    <3>1. request'[q].status = "submitting"
      BY <1>1, <2>2 DEF BeginRequest, Set, Rows
    <3> QED
      BY <2>2, <3>1 DEF BeginRequest
  <2>3. CASE p = q /\ RequestExpired(q)
    <3>1. Set(q, Failed(request[q], TRUE)) /\ request[q].status \notin Over
      BY <2>3 DEF RequestExpired, Expire, Over
    <3> QED
      BY <1>1, <1>5, <3>1
  <2>4. CASE p = q /\ RequestWithdrawn(q)
    <3> DEFINE over == [request[q] EXCEPT !.status = "cancelled"]
    <3>1. request'[q] = Settle(over, "released") /\ Cancelled /\ request[q].status = "queued"
      BY <1>1, <2>4 DEF RequestWithdrawn, Connected, Set
    <3>2. over \in Rows /\ over.status = "cancelled"
      BY <1>1, StatusRow DEF Over
    <3> HIDE DEF over
    <3>3. request'[q].status = "cancelled"
      BY <3>1, <3>2, SettleRow
    <3> QED
      BY <3>1, <3>3 DEF Open
  <2>5. CASE p = q /\ QueueOnDemand(q)
    <3>1. request'[q].status = "queued"
      BY <1>1, <2>5 DEF QueueOnDemand, Set, Rows
    <3> QED
      BY <1>10, <2>5, <3>1 DEF QueueOnDemand
  <2> QED
    BY <1>10, <2>1, <2>2, <2>3, <2>4, <2>5 DEF RequestTask
<1>11. ASSUME NEW p \in Requests,
              PollTask(p) \/ Webhook(p) \/ CommitApply(p) \/ CrashPoll(p)
       PROVE  StatusMoves(q)
  <2>1. CASE PollAsk(p) \/ PollFinalize(p) \/ PollDisables(p) \/ PollApply(p)
             \/ Webhook(p) \/ CrashPoll(p)
    BY <1>3, <2>1
    DEF PollAsk, PollFinalize, PollDisables, PollApply, Webhook, CrashPoll
  <2>2. ~ PollDisabled(p) /\ ~ PollPending(p)
    <3>1. poll[p] # "pending"
      BY DEF Submissions, TypeOK, Polls
    <3> QED
      BY <3>1 DEF PollDisabled, Connected, PollPending, PollAt
  <2>3. CASE PollRefused(p)
    BY <1>1, <1>2, <1>4, <1>5, <2>3 DEF PollRefused
  <2>4. CASE CommitApply(p)
    <3>1. CASE p # q
      BY <1>1, <2>4, <3>1 DEF CommitApply
    <3>2. CASE p = q
      <4> DEFINE over == [request[q] EXCEPT !.status = "completed"]
      <4>1. request'[q] = Settle(over, "charged") /\ request[q].status = "pending"
        BY <1>1, <2>4, <3>2 DEF CommitApply, Applied
      <4>2. over \in Rows /\ over.status = "completed"
        BY <1>1, StatusRow DEF Over
      <4> HIDE DEF over
      <4>3. request'[q].status = "completed"
        BY <4>1, <4>2, SettleRow
      <4> QED
        BY <2>4, <3>2, <4>1, <4>3
    <3> QED
      BY <3>1, <3>2
  <2> QED
    BY <1>11, <2>1, <2>2, <2>3, <2>4 DEF PollTask
<1> QED
  BY <1>6, <1>7, <1>8, <1>9, <1>10, <1>11 DEF Next, Pass

\* What opened every batch stays: an answer is final, and so is a cancellation.
LEMMA OpenedStays ==
  ASSUME Submissions, Applied, Connected, "pending" \notin PollAnswers, [Next]_vars,
         AllOpened
  PROVE  AllOpened'
<1>1. CASE Cancelled
  BY <1>1, CancelledStays DEF AllOpened
<1>2. ASSUME NEW q \in Requests, request[q].status = "failed" PROVE AllOpened'
  BY <1>2, OverStays DEF AllOpened, Over
<1>3. ASSUME \A b \in Batches : request[b].status # "none" PROVE AllOpened'
  <2>1. ASSUME NEW b \in Batches PROVE request'[b].status # "none"
    <3>1. StatusMoves(b)
      BY RequestMoves DEF Requests
    <3> QED
      BY <1>3, <3>1 DEF StatusMoves
  <2> QED
    BY <2>1 DEF AllOpened
<1> QED
  BY <1>1, <1>2, <1>3 DEF AllOpened

\* How the run gets another state, if not by a cancellation.
Finalizes ==
  /\ state' = Finalized(request') /\ OpenRequests' = {}
  /\ \/ pass.at \in PastPrepare
     \/ \E q \in Requests : poll[q] # "none" \/ applying = q

LEMMA StateMoves ==
  ASSUME Submissions, Connected, Applied, CountHolds, [Next]_vars
  PROVE  \/ UNCHANGED state
         \/ state' = "cancelled"
         \/ /\ \E q \in Requests : request'[q].status = "failed"
            /\ state' \in {state, "partially_ready"}
         \/ Finalizes
<1> USE DEF At
<1>1. request \in [Requests -> Rows]
  BY DEF Submissions, TypeOK
<1>2. CASE Moving
  <2>1. CASE Finalize
    <3>1. pass.at \in PastPrepare /\ UNCHANGED request
      BY <2>1 DEF Finalize, PastPrepare, Connected
    <3>2. UNCHANGED state \/ (OpenRequests = {} /\ state' = Finalized(request))
      BY <2>1 DEF Finalize, FinalizeIfTerminal
    <3> QED
      BY <3>1, <3>2 DEF Finalizes, OpenRequests
  <2>2. ~ MarkOff
    BY DEF MarkOff, Connected
  <2> QED
    BY <1>2, <2>1, <2>2
    DEF Moving, BeginPass, Select, PrepareDone, DispatchDone, Pause, Unauthorized,
        AbortDone, Disable, Sweep, Schedule, EndPass
<1>3. ASSUME NEW q \in Batches, Preparing(q)
      PROVE  \/ UNCHANGED state
             \/ /\ \E p \in Requests : request'[p].status = "failed"
                /\ state' \in {state, "partially_ready"}
  <2>1. CASE PrepareExhausted(q)
    <3>1. q \in Requests /\ request'[q].status = "failed"
      BY <1>1, <2>1 DEF PrepareExhausted, Set, Rows, Requests
    <3> QED
      BY <2>1, <3>1 DEF PrepareExhausted
  <2> QED
    BY <1>3, <2>1
    DEF Preparing, PrepareNothing, PrepareOpen, PrepareResume, PrepareWait, PrepareExpired
<1>4. ASSUME NEW q \in Requests, Dispatching(q) PROVE UNCHANGED state \/ Finalizes
  <2>1. CASE Receipt(q) /\ ~ UNCHANGED state
    <3>1. /\ pass.at = "record" /\ pass.answer = "applied" /\ OpenRequests = {q}
          /\ state' = Finalized(request')
      BY <2>1 DEF Receipt, Answer
    <3> DEFINE known == [request[q] EXCEPT !.known = TRUE]
    <3>2. known \in Rows
      BY <1>1 DEF Rows
    <3>3. request' = [request EXCEPT ![q] =
                        IF Cancelled THEN Settle([known EXCEPT !.status = "cancelled"], "charged")
                        ELSE Settle([known EXCEPT !.status = "completed"], "charged")]
      BY <2>1, <3>1 DEF Receipt, Answer
    <3> HIDE DEF known
    <3>4. \A status \in {"cancelled", "completed"} :
            Settle([known EXCEPT !.status = status], "charged").status = status
      <4> TAKE status \in {"cancelled", "completed"}
      <4> DEFINE over == [known EXCEPT !.status = status]
      <4>1. over \in Rows /\ over.status = status
        BY <3>2, StatusRow DEF Over
      <4> HIDE DEF over
      <4>2. Settle(over, "charged").status = status
        BY <4>1, SettleRow
      <4> QED
        BY <4>2 DEF over
    <3>5. request'[q].status \notin Open
      BY <1>1, <3>3, <3>4 DEF Open
    <3>6. \A p \in Requests \ {q} : request'[p] = request[p]
      BY <1>1, <3>3
    <3>7. OpenRequests' = {}
      BY <3>1, <3>5, <3>6 DEF OpenRequests
    <3> QED
      BY <3>1, <3>7 DEF Finalizes, PastPrepare
  <2> QED
    BY <1>4, <2>1
    DEF Dispatching, Dispatch, Withdraw, Call, Ambiguous, Refused, RateLimited, Abort
<1>5. CASE Cancel \/ DisabledElsewhere \/ ResetConnector \/ CrashPass \/ UNCHANGED vars
  BY <1>5 DEF Cancel, DisabledElsewhere, ResetConnector, CrashPass, vars
<1>6. ASSUME NEW q \in Demands, RequestTask(q) \/ QueueOnDemand(q)
      PROVE  UNCHANGED state
  BY <1>6 DEF RequestTask, BeginRequest, RequestExpired, RequestWithdrawn, QueueOnDemand
<1>7. ASSUME NEW q \in Requests,
             PollTask(q) \/ Webhook(q) \/ CommitApply(q) \/ CrashPoll(q)
      PROVE  UNCHANGED state \/ Finalizes
  <2>1. CASE PollFinalize(q)
    <3>1. poll[q] # "none" /\ UNCHANGED request
      BY <2>1 DEF PollFinalize, PollAt
    <3>2. UNCHANGED state \/ (OpenRequests = {} /\ state' = Finalized(request))
      BY <2>1 DEF PollFinalize, FinalizeIfTerminal
    <3> QED
      BY <3>1, <3>2 DEF Finalizes, OpenRequests
  <2>2. CASE CommitApply(q) /\ ~ UNCHANGED state
    <3>1. /\ lastOne /\ applying = q /\ state' = Finalized(request')
          /\ OpenRequests \subseteq {q}
      BY <2>2 DEF CommitApply, CountHolds
    <3> DEFINE over == [request[q] EXCEPT !.status = "completed"]
    <3>2. over \in Rows /\ over.status = "completed"
      BY <1>1, StatusRow DEF Over
    <3>3. request' = [request EXCEPT ![q] = Settle(over, "charged")]
      BY <1>1, <2>2 DEF CommitApply
    <3> HIDE DEF over
    <3>4. request'[q].status \notin Open
      BY <1>1, <3>2, <3>3, SettleRow DEF Open
    <3>5. \A p \in Requests \ {q} : request'[p] = request[p]
      BY <1>1, <3>3
    <3>6. OpenRequests' = {}
      BY <3>1, <3>4, <3>5 DEF OpenRequests
    <3> QED
      BY <3>1, <3>6 DEF Finalizes
  <2> QED
    BY <1>7, <2>1, <2>2
    DEF PollTask, PollAsk, PollDisabled, PollPending, PollRefused, PollDisables, PollApply,
        Webhook, CrashPoll
<1> QED
  BY <1>2, <1>3, <1>4, <1>5, <1>6, <1>7 DEF Next, Pass

\* Where a pass comes from.
LEMMA PassMoves ==
  ASSUME Submissions, Connected, [Next]_vars
  PROVE  /\ pass'.at \in PastPrepare =>
              \/ pass.at \in PastPrepare
              \/ PrepareDone
              \/ \E q \in Requests : request'[q].status = "failed"
              \/ \E q \in Demands : request[q].status # "none"
         /\ pass'.at = "prepare" =>
              \/ UNCHANGED pass
              \/ pass'.todo = Batches
              \/ At("expired")
              \/ \E q \in Batches : /\ Preparing(q) /\ ~ PrepareExpired(q) /\ At("prepare")
                                    /\ pass'.todo = pass.todo \ {q}
<1> USE DEF At
<1>0. pass \in Passes
  BY DEF Submissions, TypeOK
<1>1. CASE Moving
  <2>1. CASE BeginPass \/ EndPass
    BY <1>0, <2>1 DEF BeginPass, EndPass, Idle, PastPrepare, Passes
  <2>2. CASE Select
    BY <1>0, <2>2, IdleType DEF Select, PastPrepare, Passes
  <2>3. CASE PrepareDone
    BY <1>0, <2>3 DEF PrepareDone, Passes
  <2>4. CASE DispatchDone \/ Pause \/ Schedule
    BY <1>0, <2>4 DEF DispatchDone, Pause, Schedule, Goto, Passes, PastPrepare
  <2>5. CASE Finalize
    <3>1. pass'.at \in PastPrepare \cup {"prepare", "idle"} /\ pass.at \in PastPrepare
          /\ (pass'.at = "prepare" => pass.at = "expired")
      <4>1. \/ pass.at \in {"expired", "exhausted"} /\ pass' = Idle
            \/ pass.at = "expired" /\ Goto("prepare")
            \/ pass.at = "exhausted" /\ Goto("pause")
            \/ pass.at = "finish" /\ Goto("schedule")
        BY <2>5 DEF Finalize, Connected
      <4>2. \A where \in {"prepare", "pause", "schedule"} : Goto(where) => pass'.at = where
        BY GotoType DEF Submissions, Steps
      <4> QED
        BY <4>1, <4>2, IdleType DEF PastPrepare
    <3> QED
      BY <3>1
  <2>6. ~ (Unauthorized \/ AbortDone \/ Disable \/ Sweep \/ MarkOff)
        \/ pass'.at \notin PastPrepare \cup {"prepare"}
    BY <1>0 DEF Unauthorized, AbortDone, Disable, Sweep, MarkOff, Connected, PastPrepare,
                Passes
  <2> QED
    BY <1>1, <2>1, <2>2, <2>3, <2>4, <2>5, <2>6 DEF Moving
<1>2. ASSUME NEW q \in Batches, Preparing(q)
      PROVE  /\ PrepareExpired(q) => request'[q].status = "failed" /\ pass'.at = "expired"
             /\ ~ PrepareExpired(q) => /\ pass.at = "prepare" /\ pass'.at = "prepare"
                                       /\ pass'.todo = pass.todo \ {q}
  <2>1. CASE PrepareExpired(q)
    <3>1. request[q] \in Rows /\ q \in Requests
      BY DEF Submissions, TypeOK, Requests
    <3>2. request'[q] = Failed(request[q], TRUE)
      BY <2>1, <3>1 DEF PrepareExpired, Expire, Set, Submissions, TypeOK
    <3>3. pass' = [Prepared(q) EXCEPT !.at = "expired"]
      BY <2>1 DEF PrepareExpired
    <3>4. request'[q].status = "failed"
      BY <3>1, <3>2, FailedRow
    <3>5. pass'.at = "expired"
      BY <1>0, <3>3 DEF Prepared, Passes
    <3> QED
      BY <2>1, <3>4, <3>5
  <2>2. CASE ~ PrepareExpired(q)
    <3>1. CASE PrepareOpen(q) \/ PrepareResume(q)
      BY <1>0, <2>2, <3>1 DEF PrepareOpen, PrepareResume, Prepared, Passes
    <3> QED
      BY <1>0, <1>2, <2>2, <3>1
      DEF Preparing, PrepareNothing, PrepareExhausted, PrepareWait, Prepared, Passes
  <2> QED
    BY <2>1, <2>2
<1>3. ASSUME NEW q \in Requests, Dispatching(q)
      PROVE  pass.at \in PastPrepare /\ pass'.at # "prepare"
  <2>1. ~ Abort(q)
    BY DEF Abort, Connected
  <2>2. CASE Dispatch(q) \/ Call(q)
    BY <1>0, <2>2 DEF Dispatch, Call, Goto, Passes, PastPrepare
  <2>3. CASE Withdraw(q) \/ Refused(q)
    BY <1>0, <2>3 DEF Withdraw, Refused, Answer, Dispatched, Passes, PastPrepare
  <2>4. CASE Receipt(q)
    BY <1>0, <2>4 DEF Receipt, Answer, Dispatched, Passes, PastPrepare
  <2>5. CASE Ambiguous(q)
    BY <1>0, <2>5 DEF Ambiguous, Answer, Dispatched, Passes, PastPrepare
  <2>6. CASE RateLimited(q)
    BY <1>0, <2>6 DEF RateLimited, Answer, Dispatched, Passes, PastPrepare
  <2> QED
    BY <1>3, <2>1, <2>2, <2>3, <2>4, <2>5, <2>6 DEF Dispatching
<1>4. CASE Cancel \/ DisabledElsewhere \/ ResetConnector \/ UNCHANGED vars
  BY <1>4 DEF Cancel, DisabledElsewhere, ResetConnector, vars
<1>5. CASE CrashPass
  BY <1>5, IdleType DEF CrashPass, PastPrepare
<1>6. ASSUME NEW q \in Demands, RequestTask(q) \/ QueueOnDemand(q)
      PROVE  UNCHANGED pass \/ (request[q].status # "none" /\ pass'.at # "prepare")
  BY <1>6 DEF RequestTask, BeginRequest, RequestExpired, RequestWithdrawn, QueueOnDemand,
              Idle
<1>7. ASSUME NEW q \in Requests,
             PollTask(q) \/ Webhook(q) \/ CommitApply(q) \/ CrashPoll(q)
      PROVE  UNCHANGED pass
  BY <1>7 DEF PollTask, PollAsk, PollDisabled, PollPending, PollRefused, PollFinalize,
              PollDisables, PollApply, Webhook, CommitApply, CrashPoll
<1>8. CASE \E q \in Batches : Preparing(q)
  <2>1. PICK q \in Batches : Preparing(q)
    BY <1>8
  <2> QED
    BY <1>2, <2>1 DEF PastPrepare, Requests
<1> QED
  BY <1>1, <1>3, <1>4, <1>5, <1>6, <1>7, <1>8 DEF Next, Pass

\* Only a cancellation cancels requests.
LEMMA CancelledWithRunKeeps ==
  ASSUME Submissions, Applied, Connected, CancelledWithRun, "pending" \notin PollAnswers,
         [Next]_vars
  PROVE  CancelledWithRun'
<1> SUFFICES ASSUME NEW q \in Requests, request'[q].status = "cancelled" PROVE Cancelled'
  BY DEF CancelledWithRun
<1>1. StatusMoves(q)
  BY RequestMoves
<1>2. Cancelled
  BY <1>1 DEF StatusMoves, CancelledWithRun
<1> QED
  BY <1>2, CancelledStays

\* No request opens while a payload is being applied: both need the run row.
LEMMA CountKeeps ==
  ASSUME Submissions, Applied, Connected, CountHolds, "pending" \notin PollAnswers,
         [Next]_vars
  PROVE  CountHolds'
<1>1. CASE UNCHANGED payload
  <2> SUFFICES ASSUME lastOne PROVE OpenRequests' \subseteq {applying}
    BY <1>1 DEF CountHolds, payload
  <2>1. ~ RunFree /\ OpenRequests \subseteq {applying}
    BY DEF CountHolds, RunFree
  <2>2. ASSUME NEW q \in Requests, request'[q].status \in Open
        PROVE  request[q].status \in Open
    <3>1. StatusMoves(q)
      BY RequestMoves
    <3> QED
      BY <2>1, <2>2, <3>1 DEF StatusMoves, Open
  <2> QED
    BY <2>1, <2>2 DEF OpenRequests
<1>2. ASSUME NEW q \in Requests, BeginApply(q), UNCHANGED request PROVE CountHolds'
  BY <1>2, RequestAssumption DEF BeginApply, CountHolds, OpenRequests
<1>3. ASSUME NEW q \in Requests, CommitApply(q) PROVE CountHolds'
  BY <1>3 DEF CommitApply, CountHolds
<1> QED
  BY <1>1, <1>2, <1>3, PayloadSteps

\* A request advances only when every batch has its request.
LEMMA AdvancedKeeps ==
  ASSUME Submissions, Applied, Connected, Prepares, "pending" \notin PollAnswers,
         [Next]_vars, NEW q \in Requests, Advanced(q)'
  PROVE  AllOpened'
<1>1. StatusMoves(q)
  BY RequestMoves
<1>2. CASE AllOpened
  BY <1>2, OpenedStays
<1>3. CASE ~ AllOpened
  <2>1. /\ ~ Advanced(q) /\ ~ Cancelled /\ ~ At("record")
        /\ state \notin {"partially_ready", "ready"}
    BY <1>3 DEF Prepares, PastPrepare, At, AllOpened
  <2>2. Batches \cap Demands = {}
    BY RequestAssumption
  <2>3. request'[q].status = "failed"
    BY <1>1, <2>1, <2>2 DEF StatusMoves, Advanced, Over
  <2> QED
    BY <2>3 DEF AllOpened
<1> QED
  BY <1>2, <1>3

\* Nothing makes the run partial or ready before that either.
LEMMA StateKeeps ==
  ASSUME Submissions, Applied, Connected, Prepares, CountHolds,
         "pending" \notin PollAnswers, [Next]_vars,
         state' \in {"partially_ready", "ready"}
  PROVE  AllOpened'
<1>1. CASE UNCHANGED state
  BY <1>1, OpenedStays DEF Prepares
<1>2. CASE \E q \in Requests : request'[q].status = "failed"
  BY <1>2 DEF AllOpened
<1>3. CASE Finalizes
  <2>1. CASE pass.at \in PastPrepare
    BY <2>1, OpenedStays DEF Prepares
  <2>2. ASSUME NEW q \in Requests, poll[q] # "none" \/ applying = q PROVE AllOpened'
    <3>1. Advanced(q)
      BY <2>2 DEF Submissions, Followed, Advanced
    <3> QED
      BY <3>1, OpenedStays DEF Prepares
  <2> QED
    BY <1>3, <2>1, <2>2 DEF Finalizes
<1> QED
  BY <1>1, <1>2, <1>3, StateMoves

\* A batch the pass has looked at has its request.
LEMMA PreparedBatch ==
  ASSUME Submissions, NEW q \in Batches, Preparing(q), ~ PrepareExpired(q)
  PROVE  request'[q].status # "none" \/ Cancelled
<1>1. request \in [Requests -> Rows] /\ q \in Requests
  BY DEF Submissions, TypeOK, Requests
<1>2. CASE PrepareNothing(q)
  BY <1>2 DEF PrepareNothing, Over
<1>3. CASE PrepareOpen(q) \/ PrepareResume(q)
  <2>1. request[q] \in Rows
    BY <1>1 DEF Submissions, TypeOK
  <2>2. CASE PrepareOpen(q)
    BY <1>1, <2>1, <2>2 DEF PrepareOpen, Set, Rows
  <2>3. CASE PrepareResume(q)
    BY <1>1, <2>1, <2>3 DEF PrepareResume, Set, Rows
  <2> QED
    BY <1>3, <2>2, <2>3
<1>4. CASE PrepareExhausted(q)
  <2>1. request'[q].status = "failed"
    BY <1>1, <1>4 DEF PrepareExhausted, Set, Rows
  <2> QED
    BY <2>1
<1>5. CASE PrepareWait(q)
  BY <1>5 DEF PrepareWait
<1> QED
  BY <1>2, <1>3, <1>4, <1>5 DEF Preparing

LEMMA PreparesKeeps ==
  ASSUME Submissions, Applied, Connected, Prepares, CountHolds,
         "pending" \notin PollAnswers, [Next]_vars
  PROVE  Prepares'
<1>1. ASSUME pass'.at \in PastPrepare PROVE AllOpened'
  <2>1. CASE pass.at \in PastPrepare
    BY <2>1, OpenedStays DEF Prepares
  <2>2. CASE PrepareDone
    <3>1. pass.at = "prepare" /\ Batches \ pass.todo = Batches
      BY <2>2 DEF PrepareDone, At
    <3>2. AllOpened
      BY <3>1 DEF Prepares, AllOpened
    <3> QED
      BY <3>2, OpenedStays
  <2>3. CASE \E q \in Requests : request'[q].status = "failed"
    BY <2>3 DEF AllOpened
  <2>4. ASSUME NEW q \in Demands, request[q].status # "none" PROVE AllOpened'
    <3>1. Advanced(q) /\ q \in Requests
      BY <2>4 DEF Advanced, Requests
    <3> QED
      BY <3>1, OpenedStays DEF Prepares
  <2> QED
    BY <1>1, <2>1, <2>2, <2>3, <2>4, PassMoves
<1>2. ASSUME pass'.at = "prepare", ~ AllOpened',
             NEW b \in Batches \ pass'.todo
      PROVE  request'[b].status # "none"
  <2>1. ~ AllOpened
    BY <1>2, OpenedStays
  <2>2. StatusMoves(b)
    BY RequestMoves DEF Requests
  <2>3. ASSUME b \notin pass.todo, pass.at = "prepare" PROVE request'[b].status # "none"
    BY <2>1, <2>2, <2>3 DEF Prepares, StatusMoves
  <2>4. CASE UNCHANGED pass
    BY <1>2, <2>3, <2>4
  <2>5. ~ At("expired")
    BY <2>1 DEF At, Prepares, PastPrepare
  <2>6. ASSUME NEW q \in Batches, Preparing(q), ~ PrepareExpired(q), At("prepare"),
               pass'.todo = pass.todo \ {q}
        PROVE  request'[b].status # "none"
    <3>1. CASE b = q
      BY <2>1, <2>6, <3>1, PreparedBatch DEF AllOpened
    <3>2. CASE b # q
      BY <1>2, <2>3, <2>6, <3>2 DEF At
    <3> QED
      BY <3>1, <3>2
  <2> QED
    BY <1>2, <2>4, <2>5, <2>6, PassMoves
<1>3. \A q \in Requests : Advanced(q)' => AllOpened'
  BY AdvancedKeeps
<1>4. state' \in {"partially_ready", "ready"} => AllOpened'
  BY StateKeeps
<1> QED
  BY <1>1, <1>2, <1>3, <1>4 DEF Prepares

\* The step that makes the run ready finds every batch answered.
LEMMA ReadyKeeps ==
  ASSUME Readiness, "pending" \notin PollAnswers, [Next]_vars
  PROVE  ReadyMeansCompleted'
<1> USE DEF Readiness
<1> SUFFICES ASSUME state' = "ready", NEW b \in Batches
             PROVE  request'[b].status = "completed"
  BY DEF ReadyMeansCompleted
<1>0. b \in Requests
  BY DEF Requests
<1>1. CASE state = "ready"
  <2>1. request[b].status = "completed"
    BY <1>1 DEF ReadyMeansCompleted
  <2> QED
    BY <1>0, <2>1, OverStays DEF Over
<1>2. CASE state # "ready"
  <2>1. Finalizes
    BY <1>2, StateMoves
  <2>2. \A q \in Requests : request'[q].status # "failed"
    BY <1>2, <2>1 DEF Finalizes, Finalized
  <2>3. ~ Cancelled'
    BY DEF Cancelled
  <2>4. request'[b].status # "none"
    BY <1>0, <2>2, <2>3, StateKeeps DEF AllOpened
  <2>5. request'[b].status # "cancelled"
    BY <1>0, <2>3, CancelledWithRunKeeps DEF CancelledWithRun
  <2>6. request'[b].status \notin Open
    BY <1>0, <2>1 DEF Finalizes, OpenRequests
  <2>7. request'[b].status \in Open \cup Over \cup {"none"}
    BY <1>0, NextKeeps DEF Submissions, TypeOK, Rows
  <2> QED
    BY <1>0, <2>2, <2>4, <2>5, <2>6, <2>7 DEF Over
<1> QED
  BY <1>1, <1>2

LEMMA ReadinessKeeps ==
  ASSUME Authorized, Readiness, "pending" \notin PollAnswers, [Next]_vars
  PROVE  Readiness'
BY NextKeeps, AppliedKeeps, ConnectedKeeps, PreparesKeeps, CancelledWithRunKeeps,
   CountKeeps, ReadyKeeps
DEF Readiness

\* A run is ready only when each of its automatic requests was opened and
\* answered, for any number of them: a recruiter's request, a webhook or a late
\* poll never makes it ready early (_finalize_run and _finalize_if_terminal).
THEOREM ReadyIsComplete ==
  ASSUME Authorized, "pending" \notin PollAnswers
  PROVE  Spec => []ReadyMeansCompleted
<1>1. Init => Readiness
  <2> SUFFICES ASSUME Init PROVE Readiness
    OBVIOUS
  <2>1. Submissions /\ \A q \in Requests : request[q].status = "none"
    BY InitSubmissions DEF Init, NoRow
  <2>2. Applied /\ Connected /\ CancelledWithRun /\ CountHolds /\ ReadyMeansCompleted
    BY <2>1, RequestAssumption
    DEF Init, Idle, Applied, Connected, CancelledWithRun, CountHolds, ReadyMeansCompleted
  <2>3. Prepares
    BY <2>1 DEF Init, Idle, Prepares, PastPrepare, Advanced, Over
  <2> QED
    BY <2>1, <2>2, <2>3 DEF Readiness
<1>2. Readiness /\ [Next]_vars => Readiness'
  BY ReadinessKeeps
<1>3. Readiness => ReadyMeansCompleted
  BY DEF Readiness
<1> QED
  BY <1>1, <1>2, <1>3, PTL DEF Spec
=============================================================================
