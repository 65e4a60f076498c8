--------------------------- MODULE WorkspaceProofs ---------------------------
(***************************************************************************)
(* What holds of one job, its scorecards and its cards for any number of    *)
(* requests, runs and candidates: nobody overwrites a revision unseen, a    *)
(* scorecard says of itself what is true, the activities of a card are its  *)
(* path, an export misses no card, and acceptance is measured soundly.      *)
(*                                                                         *)
(* The job and the CRM share the ledger of requests and are proved about    *)
(* one after the other, each by an inductive invariant of its own.  The     *)
(* last part is about the lanes of MCWorkspace: what they begin with        *)
(* satisfies these invariants and those of MembershipProofs and             *)
(* MatchingProofs, and every property checked of a lane holds in all.       *)
(***************************************************************************)
EXTENDS MCWorkspace, MembershipProofs, MatchingProofs

-----------------------------------------------------------------------------
(* Jobs: the inductive invariant.                                           *)

JobRequests == [op : Edits \cup {"generate"}, by : Users, on : {"job"}, arg : Nat]

JobTx ==
  [at : {"begun", "locked", "keyed", "extracted"}, keyed : BOOLEAN, request : JobRequests,
   key : KeyNames, seen : [locked : BOOLEAN, revision : Nat]]

JobTypes ==
  /\ open \in [Handlers -> {Idle} \cup JobTx]
  /\ job = [revision |-> job.revision, draft |-> job.draft, status |-> job.status]
  /\ job.revision \in Nat
  /\ \E S : scorecards \in Seq(S)

\* Only an edit locks the job before it writes, and the revision it has read
\* under the lock is still that of the job.
HoldsRow(t) ==
  t.at # "idle" =>
    /\ t.seen.locked => t.request.op \in Edits /\ t.seen.revision = job.revision
    /\ t.at \in {"locked", "keyed"} /\ t.request.op \in Edits => t.seen.locked

RowsHold == \A h \in Handlers : HoldsRow(open[h])

OneHolder ==
  \A g, h \in Handlers :
    g # h /\ open[g].at # "idle" /\ open[h].at # "idle" =>
      ~(open[g].seen.locked /\ open[h].seen.locked)

\* What the draft has as confirmed was confirmed as it stands there.
DraftIsConfirmed ==
  \A i \in DOMAIN job.draft :
    job.draft[i].confirmed => <<job.draft[i].key, job.draft[i].content>> \in confirmations

JobInv ==
  /\ JobTypes
  /\ RowsHold
  /\ OneHolder
  /\ EditsBuildOnWhatTheySaw
  /\ DraftIsConfirmed
  /\ ScorecardsAreHonest

-----------------------------------------------------------------------------
(* Jobs: what the steps have in common.                                     *)

\* Transactions and what is in them.
LEMMA JobContents ==
  ASSUME JobTypes, NEW h \in Handlers, open[h].at # "idle"
  PROVE  /\ open[h] \in JobTx
         /\ open[h].request \in JobRequests
         /\ open[h].seen.locked \in BOOLEAN /\ open[h].seen.revision \in Nat
BY DEF JobTypes, JobTx, Idle

\* A step that only moves a transaction: what it then says of the row is so, and
\* it holds the row only when nobody else does.
LEMMA JobMoveKeeps ==
  ASSUME JobInv, NEW h \in Handlers, NEW t \in {Idle} \cup JobTx,
         open' = [open EXCEPT ![h] = t], UNCHANGED <<ledger, jobVars>>,
         HoldsRow(t),
         t.at # "idle" /\ t.seen.locked => RowIsFree(h)
  PROVE  JobInv'
<1>1. open'[h] = t /\ \A g \in Handlers \ {h} : open'[g] = open[g]
  BY DEF JobInv, JobTypes
<1>2. JobTypes'
  BY DEF JobInv, JobTypes, jobVars
<1>3. RowsHold'
  BY <1>1 DEF JobInv, RowsHold, HoldsRow, jobVars
<1>4. OneHolder'
  BY <1>1 DEF JobInv, OneHolder, RowIsFree, Busy
<1>5. EditsBuildOnWhatTheySaw'
  BY DEF JobInv, EditsBuildOnWhatTheySaw, Changes, jobVars
<1>6. DraftIsConfirmed' /\ ScorecardsAreHonest'
  BY DEF JobInv, DraftIsConfirmed, ScorecardsAreHonest, InferencesAreConfirmed,
     StatedWasStated, jobVars
<1> QED
  BY <1>2, <1>3, <1>4, <1>5, <1>6 DEF JobInv

\* A transaction that ends without a change.
LEMMA JobCloseKeeps ==
  ASSUME JobInv, NEW h \in Handlers, Close(h), UNCHANGED <<ledger, jobVars>>
  PROVE  JobInv'
<1>1. HoldsRow(Idle) /\ Idle.at = "idle"
  BY DEF HoldsRow, Idle
<1> QED
  BY <1>1, JobMoveKeeps DEF Close

\* A transaction that writes the job makes the next revision of the one that its
\* author saw, and nobody else is between reading and writing it.
LEMMA JobWriteKeeps ==
  ASSUME JobInv, NEW h \in Handlers, open[h].at # "idle", Close(h), RowIsFree(h),
         open[h].request.arg = job.revision,
         ledger' = Recorded(h),
         job' = [revision |-> job.revision + 1, draft |-> job'.draft, status |-> job'.status],
         \E S : scorecards' \in Seq(S)
  PROVE  JobTypes' /\ RowsHold' /\ OneHolder' /\ EditsBuildOnWhatTheySaw'
<1> DEFINE entry == [key |-> open[h].key, request |-> open[h].request]
<1>0. JobTypes /\ open[h].request \in JobRequests /\ job.revision \in Nat
  BY JobContents DEF JobInv, JobTypes
<1>1. open'[h] = Idle /\ \A g \in Handlers \ {h} : open'[g] = open[g]
  BY <1>0 DEF JobTypes, Close
<1>2. job'.revision = job.revision + 1
  OBVIOUS
<1>3. JobTypes'
  <2>1. open' \in [Handlers -> {Idle} \cup JobTx]
    BY <1>0 DEF JobTypes, Close
  <2>2. job'.revision \in Nat
    BY <1>0, <1>2
  <2> QED
    BY <2>1, <2>2, <1>2 DEF JobTypes
<1>4. RowsHold' /\ OneHolder'
  <2>1. \A g \in Handlers \ {h} : open[g].at # "idle" => ~open[g].seen.locked
    BY DEF RowIsFree, Busy
  <2> QED
    BY <1>1, <2>1 DEF JobInv, RowsHold, OneHolder, HoldsRow, Idle
<1>5. Changes' = Changes \cup {entry}
  BY <1>0 DEF Changes, Recorded, JobRequests
<1>6. EditsBuildOnWhatTheySaw'
  <2>1. \A e \in Changes : e.request.arg \in 0..(job.revision - 1)
    BY DEF JobInv, EditsBuildOnWhatTheySaw
  <2>2. entry.request.arg = job.revision
    OBVIOUS
  <2>3. \A e, f \in Changes \cup {entry} : e.request.arg = f.request.arg => e = f
    BY <1>0, <2>1, <2>2 DEF JobInv, EditsBuildOnWhatTheySaw
  <2>4. {e.request.arg : e \in Changes \cup {entry}} = 0..(job.revision - 1) \cup {job.revision}
    BY <2>2 DEF JobInv, EditsBuildOnWhatTheySaw
  <2>5. 0..(job.revision - 1) \cup {job.revision} = 0..((job.revision + 1) - 1)
    BY <1>0
  <2> HIDE DEF entry
  <2> QED
    BY <1>2, <1>5, <2>3, <2>4, <2>5 DEF EditsBuildOnWhatTheySaw
<1> QED
  BY <1>3, <1>4, <1>6

\* A sequence keeps what it has when something is appended to it.
LEMMA Appended ==
  ASSUME NEW S, NEW s \in Seq(S), NEW x
  PROVE  /\ Append(s, x) \in Seq(S \cup {x})
         /\ DOMAIN Append(s, x) = DOMAIN s \cup {Len(s) + 1}
         /\ Len(s) + 1 \notin DOMAIN s
         /\ \A i \in DOMAIN s : Append(s, x)[i] = s[i]
         /\ Append(s, x)[Len(s) + 1] = x
<1>1. s \in Seq(S \cup {x})
  OBVIOUS
<1> QED
  BY <1>1

-----------------------------------------------------------------------------
(* Jobs: each step keeps the invariant.                                     *)

\* A request begins without a lock.
LEMMA AskJobKeeps ==
  ASSUME JobInv, NEW h \in Handlers, NEW by \in Users, NEW op \in Edits \cup {"generate"},
         NEW revision \in 0..MaxEntries, NEW key \in KeyNames,
         AskChangeOfJob(h, by, op, revision, key)
  PROVE  JobInv'
<1> DEFINE t == Opened(JobRequest(op, by, revision), key, [locked |-> FALSE, revision |-> job.revision])
<1>1. t \in JobTx
  BY DEF JobInv, JobTypes, JobTx, JobRequests, Opened, JobRequest, AskChangeOfJob
<1>2. HoldsRow(t) /\ ~t.seen.locked
  BY DEF HoldsRow, Opened
<1>3. open' = [open EXCEPT ![h] = t] /\ UNCHANGED <<ledger, jobVars>>
  BY DEF AskChangeOfJob, BeginJob
<1> HIDE DEF t
<1> QED
  BY <1>1, <1>2, <1>3, JobMoveKeeps

\* An edit locks the row when nobody else holds it, and reads its revision.
LEMMA LockJobKeeps ==
  ASSUME JobInv, NEW h \in Handlers, LockJob(h)
  PROVE  JobInv'
<1> DEFINE t == [open[h] EXCEPT !.at = "locked", !.seen.locked = TRUE, !.seen.revision = job.revision]
<1>0. open[h] \in JobTx
  BY JobContents DEF JobInv, LockJob
<1>1. t \in JobTx /\ HoldsRow(t)
  BY <1>0 DEF JobInv, JobTypes, JobTx, HoldsRow, LockJob
<1>2. open' = [open EXCEPT ![h] = t]
  BY <1>0 DEF LockJob, JobInv, JobTypes
<1> HIDE DEF t
<1> QED
  BY <1>1, <1>2, JobMoveKeeps DEF LockJob

\* A key is taken under the lock that an edit has; a known one ends the request.
LEMMA TakeJobKeyKeeps ==
  ASSUME JobInv, NEW h \in Handlers, TakeJobKey(h)
  PROVE  JobInv'
<1> DEFINE t == [open[h] EXCEPT !.at = "keyed", !.keyed = TRUE]
<1>0. open[h] \in JobTx /\ HoldsRow(open[h]) /\ open[h].at # "idle"
  BY JobContents DEF JobInv, RowsHold, TakeJobKey, At
<1>1. CASE Known(h)
  BY <1>1, JobCloseKeeps DEF TakeJobKey, TakeKey
<1>2. CASE ~Known(h)
  <2>1. t \in JobTx /\ HoldsRow(t) /\ t.seen = open[h].seen
    BY <1>0 DEF JobTx, HoldsRow, TakeJobKey, At, Edits
  <2>2. open' = [open EXCEPT ![h] = t] /\ UNCHANGED <<ledger, jobVars>>
    BY <1>0, <1>2 DEF TakeJobKey, TakeKey, JobInv, JobTypes
  <2>3. open[h].seen.locked => RowIsFree(h)
    BY <1>0 DEF JobInv, OneHolder, RowIsFree, Busy
  <2> HIDE DEF t
  <2> QED
    BY <2>1, <2>2, <2>3, JobMoveKeeps
<1> QED
  BY <1>1, <1>2

\* The model is asked without a lock.
LEMMA ExtractKeeps ==
  ASSUME JobInv, NEW h \in Handlers, Extract(h)
  PROVE  JobInv'
<1> DEFINE t == [open[h] EXCEPT !.at = "extracted"]
<1>0. open[h] \in JobTx /\ HoldsRow(open[h]) /\ open[h].at # "idle"
  BY JobContents DEF JobInv, RowsHold, Extract, At
<1>1. CASE ~Expected(h)
  BY <1>1, JobCloseKeeps DEF Extract
<1>2. CASE Expected(h)
  <2>1. t \in JobTx /\ HoldsRow(t) /\ ~t.seen.locked
    BY <1>0 DEF JobTx, HoldsRow, Extract, At, Edits
  <2>2. open' = [open EXCEPT ![h] = t] /\ UNCHANGED <<ledger, jobVars>>
    BY <1>0, <1>2 DEF Extract, Move, JobInv, JobTypes
  <2> HIDE DEF t
  <2> QED
    BY <2>1, <2>2, JobMoveKeeps
<1> QED
  BY <1>1, <1>2

\* The answer replaces the draft: nothing in it is confirmed, and what it states
\* is extracted so.
LEMMA WriteExtractionKeeps ==
  ASSUME JobInv, NEW h \in Handlers, NEW answer \in Extractions \cup {<<>>},
         WriteExtraction(h, answer)
  PROVE  JobInv'
<1>0. open[h].at # "idle" /\ Close(h) /\ RowIsFree(h) /\ UNCHANGED scorecards
  BY DEF WriteExtraction, At
<1>1. CASE ~StillExpected(h)
  BY <1>0, <1>1, JobCloseKeeps DEF WriteExtraction, jobVars
<1>2. CASE StillExpected(h)
  <2>1. /\ job' = [revision |-> job.revision + 1, draft |-> Unconfirmed(answer),
                   status |-> IF answer = <<>> THEN "manual_required" ELSE "ready"]
        /\ extracted' = extracted \cup
             {c.content : c \in {d \in CriteriaOf(answer) : d.origin = "stated"}}
        /\ ledger' = Recorded(h)
    BY <1>2 DEF WriteExtraction
  <2>2. \A i \in DOMAIN answer : answer[i] \in Criterion
    BY JobAssumption DEF CriteriaOf
  <2>3. job'.draft = Unconfirmed(answer)
    BY <2>1
  <2>4. /\ DOMAIN job'.draft = DOMAIN answer
        /\ \A i \in DOMAIN answer :
             /\ ~job'.draft[i].confirmed
             /\ job'.draft[i].origin = answer[i].origin
             /\ job'.draft[i].content = answer[i].content
    BY <2>2, <2>3 DEF Unconfirmed, Criterion
  <2>5. DraftIsConfirmed'
    BY <2>4 DEF DraftIsConfirmed
  <2>6. InferencesAreConfirmed'
    BY <1>0 DEF JobInv, ScorecardsAreHonest, InferencesAreConfirmed
  <2>7. \A i \in DOMAIN answer : answer[i].origin = "stated" => answer[i].content \in extracted'
    BY <2>1 DEF CriteriaOf
  <2>8. StatedWasStated'
    <3>1. \A c \in CriteriaOf(job'.draft) : c.origin = "stated" => c.content \in extracted'
      BY <2>4, <2>7 DEF CriteriaOf
    <3>2. \A n \in DOMAIN scorecards : \A c \in CriteriaOf(scorecards[n].draft) :
            c.origin = "stated" => c.content \in extracted'
      BY <2>1 DEF JobInv, ScorecardsAreHonest, StatedWasStated
    <3> QED
      BY <1>0, <3>1, <3>2 DEF StatedWasStated
  <2>9. JobTypes' /\ RowsHold' /\ OneHolder' /\ EditsBuildOnWhatTheySaw'
    <3>1. \E S : scorecards' \in Seq(S)
      BY <1>0 DEF JobInv, JobTypes
    <3>2. open[h].request.arg = job.revision
      BY <1>2 DEF StillExpected
    <3>3. job' = [revision |-> job.revision + 1, draft |-> job'.draft, status |-> job'.status]
      BY <2>1
    <3> QED
      BY <1>0, <2>1, <3>1, <3>2, <3>3, JobWriteKeeps
  <2> QED
    BY <2>5, <2>6, <2>8, <2>9 DEF JobInv, ScorecardsAreHonest
<1> QED
  BY <1>1, <1>2

\* What normalization keeps as stated was stated in the old draft, with the same
\* content, and what it keeps as confirmed was submitted so.
LEMMA NormalizedIsHonest ==
  ASSUME NEW submitted, NEW old, NEW draft \in Normalized(submitted, old), NEW i \in DOMAIN draft
  PROVE  draft[i].origin = "stated" =>
           \E j \in DOMAIN old : old[j].origin = "stated" /\ old[j].content = draft[i].content
<1>1. PICK f \in Predecessors(submitted, old) :
        draft = [k \in DOMAIN submitted |->
                   LET origin == OriginIn(old, submitted[k], f[k]) IN
                   [key |-> submitted[k].key, content |-> submitted[k].content, origin |-> origin,
                    confirmed |-> Confirmation(submitted[k], origin)]]
  BY DEF Normalized
<1>2. i \in DOMAIN submitted /\ f[i] \in DOMAIN old \cup {0}
  BY <1>1 DEF Predecessors
<1>3. draft[i].origin = OriginIn(old, submitted[i], f[i]) /\ draft[i].content = submitted[i].content
  BY <1>1, <1>2
<1> QED
  BY <1>2, <1>3 DEF OriginIn, OriginFrom

\* An edit that is accepted.
LEMMA AcceptKeeps ==
  ASSUME JobInv, NEW h \in Handlers, NEW submitted, NEW draft \in Edited(open[h].request.op, submitted),
         open[h].at = "keyed", open[h].request.op \in Edits, Expected(h),
         open[h].request.op # "update" => Resolved(draft),
         Accept(h, draft), Close(h), UNCHANGED extracted
  PROVE  JobInv'
<1> DEFINE op == open[h].request.op
           confirmed == confirmations \cup (IF op = "confirm" THEN {} ELSE ConfirmedIn(draft))
           scorecard == [draft |-> draft, status |-> job.status, confirmed |-> confirmed]
<1>0. JobTypes /\ open[h].seen.locked /\ open[h].seen.revision = job.revision
  BY DEF JobInv, RowsHold, HoldsRow
<1>1. RowIsFree(h)
  BY <1>0 DEF JobInv, OneHolder, RowIsFree, Busy
<1>2. /\ job' = [revision |-> job.revision + 1, draft |-> draft, status |-> job.status]
      /\ confirmations' = confirmed /\ ledger' = Recorded(h)
      /\ scorecards' = IF op = "update" THEN scorecards ELSE Append(scorecards, scorecard)
  BY <1>0 DEF Accept, JobTypes
<1>3. /\ \E S : scorecards' \in Seq(S)
      /\ \A n \in DOMAIN scorecards' :
           \/ n \in DOMAIN scorecards /\ scorecards'[n] = scorecards[n]
           \/ op # "update" /\ scorecards'[n] = scorecard
  <2>1. PICK S : scorecards \in Seq(S)
    BY <1>0 DEF JobTypes
  <2>2. CASE op = "update"
    BY <1>2, <2>1, <2>2
  <2>3. CASE op # "update"
    <3>1. scorecards' = Append(scorecards, scorecard)
      BY <1>2, <2>3
    <3> HIDE DEF scorecard, op
    <3>2. /\ Append(scorecards, scorecard) \in Seq(S \cup {scorecard})
          /\ DOMAIN Append(scorecards, scorecard) = DOMAIN scorecards \cup {Len(scorecards) + 1}
          /\ \A i \in DOMAIN scorecards : Append(scorecards, scorecard)[i] = scorecards[i]
          /\ Append(scorecards, scorecard)[Len(scorecards) + 1] = scorecard
      BY <2>1, Appended
    <3> QED
      BY <3>1, <3>2, <2>3
  <2> QED
    BY <2>2, <2>3
<1>4. JobTypes' /\ RowsHold' /\ OneHolder' /\ EditsBuildOnWhatTheySaw'
  <2>1. open[h].request.arg = job.revision
    BY <1>0 DEF Expected
  <2>2. job' = [revision |-> job.revision + 1, draft |-> job'.draft, status |-> job'.status]
    BY <1>2
  <2> QED
    BY <1>1, <1>2, <1>3, <2>1, <2>2, JobWriteKeeps
<1>5. job'.draft = draft
  BY <1>2
<1>6. \A i \in DOMAIN draft : draft[i].confirmed => <<draft[i].key, draft[i].content>> \in confirmed
  <2>1. CASE op = "confirm"
    BY <2>1 DEF Edited, JobInv, DraftIsConfirmed
  <2>2. CASE op # "confirm"
    BY <2>2 DEF ConfirmedIn, CriteriaOf
  <2> QED
    BY <2>1, <2>2
<1>7. DraftIsConfirmed'
  BY <1>2, <1>5, <1>6 DEF DraftIsConfirmed
<1>8. \A i \in DOMAIN draft : draft[i].origin = "stated" => draft[i].content \in extracted
  <2>1. \A j \in DOMAIN job.draft : job.draft[j].origin = "stated" => job.draft[j].content \in extracted
    BY DEF JobInv, ScorecardsAreHonest, StatedWasStated, CriteriaOf
  <2>2. CASE op = "confirm"
    BY <2>1, <2>2 DEF Edited
  <2>3. CASE op # "confirm"
    BY <2>1, <2>3, NormalizedIsHonest DEF Edited
  <2> QED
    BY <2>2, <2>3
<1>9. InferencesAreConfirmed'
  <2>1. op # "update" => \A i \in DOMAIN draft :
          draft[i].origin = "inferred" => <<draft[i].key, draft[i].content>> \in confirmed
    BY <1>6 DEF Resolved, CriteriaOf
  <2>2. op # "update" => \A c \in CriteriaOf(scorecard.draft) :
          c.origin = "inferred" => <<c.key, c.content>> \in scorecard.confirmed
    BY <2>1 DEF CriteriaOf
  <2>3. \A n \in DOMAIN scorecards : \A c \in CriteriaOf(scorecards[n].draft) :
          c.origin = "inferred" => <<c.key, c.content>> \in scorecards[n].confirmed
    BY DEF JobInv, ScorecardsAreHonest, InferencesAreConfirmed
  <2> HIDE DEF scorecard, op
  <2> QED
    BY <1>3, <2>2, <2>3 DEF InferencesAreConfirmed
<1>10. StatedWasStated'
  <2>1. \A c \in CriteriaOf(draft) : c.origin = "stated" => c.content \in extracted
    BY <1>8 DEF CriteriaOf
  <2>2. \A n \in DOMAIN scorecards : \A c \in CriteriaOf(scorecards[n].draft) :
          c.origin = "stated" => c.content \in extracted
    BY DEF JobInv, ScorecardsAreHonest, StatedWasStated
  <2>3. scorecard.draft = draft
    OBVIOUS
  <2> HIDE DEF scorecard, op
  <2> QED
    BY <1>3, <1>5, <2>1, <2>2, <2>3 DEF StatedWasStated
<1> QED
  BY <1>4, <1>7, <1>9, <1>10 DEF JobInv, ScorecardsAreHonest

\* An edit is accepted, or changes nothing.
LEMMA EditKeeps ==
  ASSUME JobInv, NEW h \in Handlers, NEW submitted, open[h].at = "keyed",
         open[h].request.op \in Edits, Edit(h, submitted)
  PROVE  JobInv'
<1>1. PICK draft \in Edited(open[h].request.op, submitted) :
        IF Expected(h) /\ (open[h].request.op # "update" => draft # <<>> /\ Resolved(draft))
        THEN Accept(h, draft)
        ELSE UNCHANGED <<ledger, job, scorecards, confirmations>>
  BY DEF Edit
<1>2. Close(h) /\ UNCHANGED extracted
  BY DEF Edit
<1>3. CASE Accept(h, draft) /\ Expected(h) /\ (open[h].request.op # "update" => Resolved(draft))
  BY <1>2, <1>3, AcceptKeeps
<1>4. CASE UNCHANGED <<ledger, job, scorecards, confirmations>>
  BY <1>2, <1>4, JobCloseKeeps DEF jobVars
<1> QED
  BY <1>1, <1>3, <1>4

\* A new job.
LEMMA JobInvInit == LedgerInit /\ JobInit => JobInv
<1> SUFFICES ASSUME LedgerInit, JobInit PROVE JobInv
  OBVIOUS
<1>1. JobTypes
  <2>1. scorecards \in Seq({})
    BY DEF JobInit
  <2> QED
    BY <2>1 DEF JobTypes, JobInit, NewJob, LedgerInit
<1>2. RowsHold /\ OneHolder
  BY DEF RowsHold, OneHolder, HoldsRow, LedgerInit, Idle
<1>3. EditsBuildOnWhatTheySaw
  BY DEF EditsBuildOnWhatTheySaw, Changes, LedgerInit, JobInit, NewJob
<1>4. DraftIsConfirmed /\ ScorecardsAreHonest
  BY DEF DraftIsConfirmed, ScorecardsAreHonest, InferencesAreConfirmed, StatedWasStated,
     CriteriaOf, JobInit, NewJob
<1> QED
  BY <1>1, <1>2, <1>3, <1>4 DEF JobInv

\* Every step of the job keeps the invariant.
LEMMA JobNextKeeps == JobInv /\ [JobNext]_<<ledgerVars, jobVars>> => JobInv'
<1> SUFFICES ASSUME JobInv, [JobNext]_<<ledgerVars, jobVars>> PROVE JobInv'
  OBVIOUS
<1>1. CASE UNCHANGED <<ledgerVars, jobVars>>
  BY <1>1 DEF JobInv, JobTypes, RowsHold, HoldsRow, OneHolder, EditsBuildOnWhatTheySaw, Changes,
     DraftIsConfirmed, ScorecardsAreHonest, InferencesAreConfirmed, StatedWasStated, ledgerVars,
     jobVars
<1>2. CASE JobNext
  <2>1. PICK h \in Handlers :
    \/ \E by \in Users, op \in Edits \cup {"generate"}, revision \in 0..MaxEntries, key \in KeyNames :
         AskChangeOfJob(h, by, op, revision, key)
    \/ LockJob(h) \/ TakeJobKey(h) \/ Extract(h)
    \/ \E answer \in Extractions \cup {<<>>} : WriteExtraction(h, answer)
    \/ /\ open[h].at = "keyed" /\ open[h].request.op \in Edits
       /\ \E submitted \in Drafts \cup {<<>>} : Edit(h, submitted)
    \/ AbortEdit(h)
    BY <1>2 DEF JobNext
  <2>2. AbortEdit(h) => JobInv'
    BY JobCloseKeeps DEF AbortEdit
  <2> QED
    BY <2>1, <2>2, AskJobKeeps, LockJobKeeps, TakeJobKeyKeeps, ExtractKeeps, WriteExtractionKeeps,
       EditKeeps
<1> QED
  BY <1>1, <1>2

\* The invariant of a job.
THEOREM JobInvariant == JobSpec => []JobInv
BY JobInvInit, JobNextKeeps, PTL DEF JobSpec

\* However many recruiters, retries and extractions change a job at once, each
\* accepted change is built on the revision that its author saw.
THEOREM NoRevisionIsOverwritten == JobSpec => []EditsBuildOnWhatTheySaw
<1>1. JobInv => EditsBuildOnWhatTheySaw
  BY DEF JobInv
<1> QED
  BY <1>1, JobInvariant, PTL

\* Whatever drafts are submitted and extracted, a scorecard has no inference that
\* nobody confirmed and states nothing that was not stated.
THEOREM ScorecardsStayHonest == JobSpec => []ScorecardsAreHonest
<1>1. JobInv => ScorecardsAreHonest
  BY DEF JobInv
<1> QED
  BY <1>1, JobInvariant, PTL
-----------------------------------------------------------------------------
(* Jobs: the types of drafts and the bound of revisions.                    *)

GoodDraft(draft) ==
  /\ CriteriaOf(draft) \subseteq Criterion
  /\ \A i, j \in DOMAIN draft : draft[i].key = draft[j].key => i = j
  /\ \A c \in CriteriaOf(draft) : c.confirmed => c.origin = "inferred"

\* A request that is open was made when the ledger was not full, for a revision
\* that existed then.
RequestsFit ==
  /\ IsFiniteSet(ledger)
  /\ \A h \in Handlers : open[h].at # "idle" => open[h].request.arg < MaxEntries

\* Every revision has an entry of the ledger.
LEMMA RevisionsAreCounted ==
  ASSUME JobInv, IsFiniteSet(ledger)
  PROVE  job.revision <= Cardinality(ledger)
<1> DEFINE f == [e \in Changes |-> e.request.arg]
           T == 0..(job.revision - 1)
<1>1. job.revision \in Nat
  BY DEF JobInv, JobTypes
<1>2. IsFiniteSet(Changes) /\ Cardinality(Changes) <= Cardinality(ledger)
  <2>1. Changes \in SUBSET ledger
    BY DEF Changes
  <2> QED
    BY <2>1, FS_Subset
<1>3. f \in Surjection(Changes, T)
  <2>1. {e.request.arg : e \in Changes} = T
    BY DEF JobInv, EditsBuildOnWhatTheySaw
  <2>2. f \in [Changes -> T]
    BY <2>1
  <2>3. \A t \in T : \E e \in Changes : f[e] = t
    BY <2>1
  <2> QED
    BY <2>2, <2>3 DEF Surjection
<1>4. Cardinality(T) <= Cardinality(Changes)
  <2> HIDE DEF f, T
  <2> QED
    BY <1>2, <1>3, FS_Surjection
<1>5. Cardinality(T) = IF 0 > job.revision - 1 THEN 0 ELSE (job.revision - 1) - 0 + 1
  <2>1. 0 \in Int /\ job.revision - 1 \in Int
    BY <1>1
  <2> QED
    BY <2>1, FS_Interval
<1>6. Cardinality(Changes) \in Nat /\ Cardinality(ledger) \in Nat
  BY <1>2, FS_CardinalityType
<1> HIDE DEF T
<1> QED
  BY <1>1, <1>2, <1>4, <1>5, <1>6

\* An extraction that is written, with nothing confirmed.
LEMMA UnconfirmedIsGood ==
  ASSUME NEW answer \in Extractions \cup {<<>>}
  PROVE  GoodDraft(Unconfirmed(answer))
<1> DEFINE draft == Unconfirmed(answer)
<1>1. DOMAIN draft = DOMAIN answer
  BY DEF Unconfirmed
<1>2. \A i \in DOMAIN answer : answer[i] \in Criterion
  BY JobAssumption DEF CriteriaOf
<1>3. \A i \in DOMAIN answer :
        draft[i] \in Criterion /\ ~draft[i].confirmed /\ draft[i].key = answer[i].key
  BY <1>2 DEF Unconfirmed, Criterion
<1>4. \A i, j \in DOMAIN answer : answer[i].key = answer[j].key => i = j
  BY JobAssumption
<1> HIDE DEF draft
<1>5. GoodDraft(draft)
  BY <1>1, <1>3, <1>4 DEF GoodDraft, CriteriaOf
<1> QED
  BY <1>5 DEF draft

\* A submitted draft as it is kept, over a draft of the right type.
LEMMA NormalizedIsGood ==
  ASSUME NEW submitted \in Drafts, NEW old, CriteriaOf(old) \subseteq Criterion,
         NEW draft \in Normalized(submitted, old)
  PROVE  GoodDraft(draft)
<1>1. PICK f \in Predecessors(submitted, old) :
        draft = [k \in DOMAIN submitted |->
                   LET origin == OriginIn(old, submitted[k], f[k]) IN
                   [key |-> submitted[k].key, content |-> submitted[k].content, origin |-> origin,
                    confirmed |-> Confirmation(submitted[k], origin)]]
  BY DEF Normalized
<1>2. DOMAIN draft = DOMAIN submitted
  BY <1>1
<1> DEFINE All == UNION {CriteriaOf(e) : e \in Drafts \cup Extractions}
<1>3. ASSUME NEW i \in DOMAIN submitted
      PROVE  draft[i] \in Criterion /\ draft[i].key = submitted[i].key
             /\ (draft[i].confirmed => draft[i].origin = "inferred")
  <2> DEFINE origin == OriginIn(old, submitted[i], f[i])
  <2>1. draft[i] = [key |-> submitted[i].key, content |-> submitted[i].content, origin |-> origin,
                    confirmed |-> Confirmation(submitted[i], origin)]
    BY <1>1
  <2>2. submitted[i] \in All
    BY DEF CriteriaOf
  <2>3. submitted[i].key \in {d.key : d \in All} /\ submitted[i].content \in {d.content : d \in All}
    BY <2>2
  <2>4. origin \in {"inferred", "stated", "entered"}
    <3>1. f[i] \in DOMAIN old \cup {0}
      BY <1>1 DEF Predecessors
    <3>2. f[i] \in DOMAIN old => old[f[i]] \in Criterion
      BY DEF CriteriaOf
    <3>3. f[i] \in DOMAIN old => old[f[i]].origin \in {"inferred", "stated", "entered"}
      BY <3>2 DEF Criterion
    <3> QED
      BY <3>1, <3>3 DEF OriginIn, OriginFrom
  <2>5. Confirmation(submitted[i], origin) \in BOOLEAN
        /\ (Confirmation(submitted[i], origin) => origin = "inferred")
    BY DEF Confirmation
  <2> HIDE DEF origin, All
  <2>6. draft[i] \in [key : {d.key : d \in All}, content : {d.content : d \in All},
                      origin : {"inferred", "stated", "entered"}, confirmed : BOOLEAN]
    BY <2>1, <2>3, <2>4, <2>5
  <2>7. draft[i] \in Criterion
    BY <2>6 DEF Criterion, All
  <2> QED
    BY <2>1, <2>5, <2>7
<1>4. \A i, j \in DOMAIN submitted : submitted[i].key = submitted[j].key => i = j
  BY JobAssumption
<1> QED
  BY <1>2, <1>3, <1>4 DEF GoodDraft, CriteriaOf

\* Whatever changes the job writes a revision that its request fits, and a draft
\* of the right type.
LEMMA JobWriteFits ==
  ASSUME JobInv, JobTypeOK, RequestsFit, NEW h \in Handlers, open[h].at # "idle", Close(h),
         open[h].request.arg = job.revision, ledger' = Recorded(h),
         job'.revision = job.revision + 1, job'.status \in {"ready", "manual_required"},
         GoodDraft(job'.draft)
  PROVE  JobTypeOK' /\ RequestsFit'
<1>1. job.revision < MaxEntries /\ job.revision \in Nat /\ MaxEntries \in Nat
  BY JobAssumption DEF RequestsFit, JobInv, JobTypes
<1>2. job'.revision \in 0..MaxEntries
  BY <1>1
<1>3. JobTypeOK'
  BY <1>2 DEF JobTypeOK, GoodDraft
<1>4. IsFiniteSet(ledger')
  BY FS_AddElement DEF RequestsFit, Recorded
<1>5. open'[h] = Idle /\ \A g \in Handlers \ {h} : open'[g] = open[g]
  BY DEF Close, JobInv, JobTypes
<1> QED
  BY <1>3, <1>4, <1>5 DEF RequestsFit, Idle

\* A step that moves one transaction and changes nothing else.
LEMMA JobMoveFits ==
  ASSUME JobInv, JobTypeOK, RequestsFit, NEW h \in Handlers, NEW t,
         open' = [open EXCEPT ![h] = t], UNCHANGED <<ledger, jobVars>>,
         t.at # "idle" => t.request.arg < MaxEntries
  PROVE  JobTypeOK' /\ RequestsFit'
<1>1. open'[h] = t /\ \A g \in Handlers \ {h} : open'[g] = open[g]
  BY DEF JobInv, JobTypes
<1> QED
  BY <1>1 DEF JobTypeOK, RequestsFit, jobVars

\* A transaction that ends without a change.
LEMMA JobCloseFits ==
  ASSUME JobInv, JobTypeOK, RequestsFit, NEW h \in Handlers, Close(h), UNCHANGED <<ledger, jobVars>>
  PROVE  JobTypeOK' /\ RequestsFit'
<1>1. Idle.at = "idle"
  BY DEF Idle
<1> QED
  BY <1>1, JobMoveFits DEF Close

\* Every step of the job keeps its types and bounds.
LEMMA JobNextFits ==
  ASSUME JobInv, JobTypeOK, RequestsFit, [JobNext]_<<ledgerVars, jobVars>>
  PROVE  JobTypeOK' /\ RequestsFit'
<1>1. CASE UNCHANGED <<ledgerVars, jobVars>>
  BY <1>1 DEF JobTypeOK, RequestsFit, ledgerVars, jobVars
<1>2. ASSUME NEW h \in Handlers, NEW by \in Users, NEW op \in Edits \cup {"generate"},
             NEW revision \in 0..MaxEntries, NEW key \in KeyNames,
             AskChangeOfJob(h, by, op, revision, key)
      PROVE  JobTypeOK' /\ RequestsFit'
  <2> DEFINE t == Opened(JobRequest(op, by, revision), key, [locked |-> FALSE, revision |-> job.revision])
  <2>1. open' = [open EXCEPT ![h] = t] /\ UNCHANGED <<ledger, jobVars>>
    BY <1>2 DEF AskChangeOfJob, BeginJob
  <2>2. revision <= job.revision /\ Cardinality(ledger) < MaxEntries
    BY <1>2 DEF AskChangeOfJob, BeginJob, JobInv, JobTypes
  <2>3. job.revision <= Cardinality(ledger)
    BY RevisionsAreCounted DEF RequestsFit
  <2>4. Cardinality(ledger) \in Nat
    BY FS_CardinalityType DEF RequestsFit
  <2>5. t.request.arg = revision
    BY DEF Opened, JobRequest
  <2>6. t.request.arg < MaxEntries
    BY <2>2, <2>3, <2>4, <2>5, JobAssumption DEF JobInv, JobTypes
  <2> HIDE DEF t
  <2> QED
    BY <2>1, <2>6, JobMoveFits
<1>3. ASSUME NEW h \in Handlers, LockJob(h)
      PROVE  JobTypeOK' /\ RequestsFit'
  <2> DEFINE t == [open[h] EXCEPT !.at = "locked", !.seen.locked = TRUE, !.seen.revision = job.revision]
  <2>1. open[h] \in JobTx /\ open[h].at # "idle"
    BY <1>3, JobContents DEF LockJob, JobInv
  <2>2. open' = [open EXCEPT ![h] = t] /\ UNCHANGED <<ledger, jobVars>>
    BY <1>3 DEF LockJob, JobInv, JobTypes
  <2>3. t.request = open[h].request
    BY <2>1 DEF JobTx
  <2>4. t.request.arg < MaxEntries
    BY <2>1, <2>3 DEF RequestsFit
  <2> HIDE DEF t
  <2> QED
    BY <2>2, <2>4, JobMoveFits
<1>4. ASSUME NEW h \in Handlers, TakeJobKey(h)
      PROVE  JobTypeOK' /\ RequestsFit'
  <2> DEFINE t == [open[h] EXCEPT !.at = "keyed", !.keyed = TRUE]
  <2>1. open[h] \in JobTx /\ open[h].at # "idle"
    BY <1>4, JobContents DEF TakeJobKey, At, JobInv
  <2>2. UNCHANGED <<ledger, jobVars>> /\ (Close(h) \/ open' = [open EXCEPT ![h] = t])
    BY <1>4 DEF TakeJobKey, TakeKey, JobInv, JobTypes
  <2>3. t.request = open[h].request
    BY <2>1 DEF JobTx
  <2>4. t.request.arg < MaxEntries
    BY <2>1, <2>3 DEF RequestsFit
  <2> HIDE DEF t
  <2> QED
    BY <2>2, <2>4, JobMoveFits, JobCloseFits
<1>5. ASSUME NEW h \in Handlers, Extract(h)
      PROVE  JobTypeOK' /\ RequestsFit'
  <2> DEFINE t == [open[h] EXCEPT !.at = "extracted"]
  <2>1. open[h] \in JobTx /\ open[h].at # "idle"
    BY <1>5, JobContents DEF Extract, At, JobInv
  <2>2. UNCHANGED <<ledger, jobVars>> /\ (Close(h) \/ open' = [open EXCEPT ![h] = t])
    BY <1>5 DEF Extract, Move, JobInv, JobTypes
  <2>3. t.request = open[h].request
    BY <2>1 DEF JobTx
  <2>4. t.request.arg < MaxEntries
    BY <2>1, <2>3 DEF RequestsFit
  <2> HIDE DEF t
  <2> QED
    BY <2>2, <2>4, JobMoveFits, JobCloseFits
<1>6. ASSUME NEW h \in Handlers, NEW answer \in Extractions \cup {<<>>}, WriteExtraction(h, answer)
      PROVE  JobTypeOK' /\ RequestsFit'
  <2>0. open[h].at # "idle" /\ Close(h) /\ UNCHANGED scorecards
    BY <1>6 DEF WriteExtraction, At
  <2>1. CASE ~StillExpected(h)
    BY <1>6, <2>0, <2>1, JobCloseFits DEF WriteExtraction, jobVars
  <2>2. CASE StillExpected(h)
    <3>1. /\ job' = [revision |-> job.revision + 1, draft |-> Unconfirmed(answer),
                     status |-> IF answer = <<>> THEN "manual_required" ELSE "ready"]
          /\ ledger' = Recorded(h)
      BY <1>6, <2>2 DEF WriteExtraction
    <3>2. /\ job'.revision = job.revision + 1 /\ job'.draft = Unconfirmed(answer)
          /\ job'.status \in {"ready", "manual_required"}
      BY <3>1
    <3>3. open[h].request.arg = job.revision
      BY <2>2 DEF StillExpected
    <3>4. GoodDraft(job'.draft)
      BY <3>2, UnconfirmedIsGood
    <3> QED
      BY <2>0, <3>1, <3>2, <3>3, <3>4, JobWriteFits
  <2> QED
    BY <2>1, <2>2
<1>7. ASSUME NEW h \in Handlers, open[h].at = "keyed", open[h].request.op \in Edits,
             NEW submitted \in Drafts \cup {<<>>}, Edit(h, submitted)
      PROVE  JobTypeOK' /\ RequestsFit'
  <2> DEFINE op == open[h].request.op
  <2>0. Close(h) /\ UNCHANGED extracted /\ (op = "confirm" <=> submitted = <<>>)
    BY <1>7 DEF Edit
  <2>1. PICK draft \in Edited(op, submitted) :
          IF Expected(h) /\ (op # "update" => draft # <<>> /\ Resolved(draft))
          THEN Accept(h, draft)
          ELSE UNCHANGED <<ledger, job, scorecards, confirmations>>
    BY <1>7 DEF Edit
  <2>2. CASE UNCHANGED <<ledger, job, scorecards, confirmations>>
    BY <2>0, <2>2, JobCloseFits DEF jobVars
  <2>3. CASE Expected(h) /\ Accept(h, draft)
    <3>1. open[h].seen.revision = job.revision
      BY <1>7 DEF JobInv, RowsHold, HoldsRow
    <3>2. open[h].request.arg = job.revision
      BY <2>3, <3>1 DEF Expected
    <3>3. job' = [job EXCEPT !.revision = open[h].seen.revision + 1, !.draft = draft]
      BY <2>3 DEF Accept
    <3>4. job'.revision = job.revision + 1 /\ job'.status = job.status /\ job'.draft = draft
      BY <3>1, <3>3 DEF JobInv, JobTypes
    <3>5. ledger' = Recorded(h)
      BY <2>3 DEF Accept
    <3>6. GoodDraft(draft)
      <4>1. CASE op = "confirm"
        BY <4>1 DEF Edited, JobTypeOK, GoodDraft
      <4>2. CASE op # "confirm"
        <5>1. submitted \in Drafts
          BY <2>0, <4>2
        <5>2. draft \in Normalized(submitted, job.draft)
          BY <2>1, <4>2 DEF Edited
        <5>3. CriteriaOf(job.draft) \subseteq Criterion
          BY DEF JobTypeOK
        <5> QED
          BY <5>1, <5>2, <5>3, NormalizedIsGood
      <4> QED
        BY <4>1, <4>2
    <3>7. job'.status \in {"ready", "manual_required"}
      BY <3>4 DEF JobTypeOK
    <3>8. GoodDraft(job'.draft)
      BY <3>4, <3>6
    <3> HIDE DEF op
    <3> QED
      BY <1>7, <2>0, <3>2, <3>4, <3>5, <3>7, <3>8, JobWriteFits
  <2> QED
    BY <2>1, <2>2, <2>3
<1>8. ASSUME NEW h \in Handlers, AbortEdit(h)
      PROVE  JobTypeOK' /\ RequestsFit'
  BY <1>8, JobCloseFits DEF AbortEdit
<1> QED
  BY <1>1, <1>2, <1>3, <1>4, <1>5, <1>6, <1>7, <1>8 DEF JobNext

\* However many requests are open when the ledger fills up, the revision stays
\* within it, and every draft that is kept has unique keys and confirms only
\* what was inferred.
THEOREM JobTypeCorrect == JobSpec => []JobTypeOK
<1>1. JobSpec => [](JobInv /\ JobTypeOK /\ RequestsFit)
  <2>1. LedgerInit /\ JobInit => JobInv /\ JobTypeOK /\ RequestsFit
    <3>1. LedgerInit => IsFiniteSet(ledger)
      BY FS_EmptySet DEF LedgerInit
    <3>2. LedgerInit /\ JobInit => JobTypeOK /\ RequestsFit
      BY <3>1, JobAssumption DEF LedgerInit, JobInit, NewJob, JobTypeOK, RequestsFit, CriteriaOf, Idle
    <3> QED
      BY <3>2, JobInvInit
  <2>2. JobInv /\ JobTypeOK /\ RequestsFit /\ [JobNext]_<<ledgerVars, jobVars>>
          => (JobInv /\ JobTypeOK /\ RequestsFit)'
    BY JobNextKeeps, JobNextFits
  <2> QED
    BY <2>1, <2>2, PTL DEF JobSpec
<1> QED
  BY <1>1, PTL
-----------------------------------------------------------------------------
(* Cards: the inductive invariant.                                          *)

StageTx ==
  [at : {"begun", "keyed"}, keyed : BOOLEAN, key : KeyNames,
   request : [op : {"stage"}, by : Recruiters, on : Cards, arg : Stages \ {"New"}],
   seen : [stage : Stages]]

ReportRequests == [op : {"report"}, by : Recruiters, on : {"job"}, arg : JobRuns]

ReportTx ==
  [at : {"begun"}, keyed : BOOLEAN, key : {Nothing}, request : ReportRequests,
   seen : [week : BOOLEAN]]

CountedTx ==
  [at : {"counted"}, keyed : BOOLEAN, key : {Nothing}, request : ReportRequests,
   seen : SnapshotType]

CrmTransactions == UNION {{Idle}, StageTx, ReportTx, CountedTx}

ExportType ==
  [at : {"none", "streaming", "completed", "aborted"},
   cursor : {Nothing} \cup [score : 0..TopScore, card : Cards],
   rows : Seq(Cards), steady : SUBSET Cards]

CrmTypes ==
  /\ CrmTypeOK
  /\ open \in [Handlers -> CrmTransactions]
  /\ activity \in [Cards -> Seq([from : Stages, to : Stages])]
  /\ ready \in Seq(JobRuns)
  /\ export \in ExportType
  /\ IsFiniteSet(ledger)

\* What a snapshot that is taken early says of a cohort.
Complete(snapshot, cohort) ==
  /\ snapshot.accepted + snapshot.rejected = CohortSize
  /\ \A c \in cohort : card[c].stage # "New"

Unknown(t) == \A e \in ledger : e.key = t.key => Scope(e.request) # Scope(t.request)

\* What a transaction relies on: its card is matched, its key is new to the
\* ledger, its run is ready, and what it counted still holds.
HoldsCard(t) ==
  /\ t.at # "idle" /\ t.request.op = "stage" => card[t.request.on].stage # "none"
  /\ t.at = "keyed" => t.keyed /\ Unknown(t)
  /\ t.at # "idle" /\ t.request.op = "report" => jobRun[t.request.arg].state = "ready"
  /\ t.at = "counted" /\ t.seen.early => Complete(t.seen, jobRun[t.request.arg].cohort)

CardsHold == \A h \in Handlers : HoldsCard(open[h])

KeysApart ==
  \A g, h \in Handlers :
    g # h /\ open[g].at = "keyed" /\ open[h].at = "keyed" => open[g].key # open[h].key

\* A path through the stages to a stage.
LeadsTo(path, stage) ==
  /\ \A i \in DOMAIN path :
       /\ path[i].to \in AllowedTransitions[path[i].from]
       /\ path[i].from = IF i = 1 THEN "New" ELSE path[i - 1].to
  /\ stage = IF path = <<>> THEN "New" ELSE path[Len(path)].to

Applied(c) == {e \in ledger : e.request.op = "stage" /\ e.request.on = c}

\* The activity of a card and the ledger tell the same of it; one that is not
\* matched has none.
CardHolds(c) ==
  /\ card[c].stage # "none" => LeadsTo(activity[c], card[c].stage)
  /\ card[c].stage = "none" => activity[c] = <<>>
  /\ Len(activity[c]) = Cardinality(Applied(c))

\* A run that is ready has its best candidates as its cohort.
IsBest(run) ==
  /\ \A c \in run.cohort : run.scores[c] > 0
  /\ \A c \in run.cohort : \A d \in Cards \ run.cohort : Better(run.scores, c, d)
  /\ run.cohort = {c \in Cards : run.scores[c] > 0} \/ Cardinality(run.cohort) = CohortSize

RunHolds(run) ==
  /\ \A c \in Cards : run.scores[c] > 0 => card[c].stage # "none"
  /\ Cardinality(run.cohort) <= CohortSize
  /\ run.state = "ready" => IsBest(run)
  /\ run.snapshot.taken => run.state = "ready"
  /\ run.snapshot.taken /\ run.snapshot.early => Complete(run.snapshot, run.cohort)

\* Where a card is in the export.
PlacesOf(c) == {i \in DOMAIN export.rows : export.rows[i] = c}

Passed(c) == export.cursor # Nothing /\ ~After(c, export.cursor)

\* A card that nobody changed is on the shortlist, and in the export, once, when
\* the cursor has passed it; the score that the cursor holds is still its own.
ExportHolds ==
  /\ export.at \in {"streaming", "completed"} =>
       \A c \in export.steady : IF Passed(c) THEN \E i \in DOMAIN export.rows : PlacesOf(c) = {i}
         ELSE PlacesOf(c) = {}
  /\ export.at = "streaming" => \A c \in export.steady : card[c].stage = "Shortlisted"
  /\ export.at = "completed" => \A c \in export.steady : Passed(c)
  /\ export.cursor # Nothing /\ export.cursor.card \in export.steady =>
       card[export.cursor.card].score = export.cursor.score

CrmInv ==
  /\ CrmTypes
  /\ CardsHold
  /\ KeysApart
  /\ \A c \in Cards : CardHolds(c)
  /\ \A r \in JobRuns : RunHolds(jobRun[r])
  /\ ExportHolds
-----------------------------------------------------------------------------
(* Cards: what the operators of the model compute.                          *)

Scored(scores) == {c \in Cards : scores[c] > 0}

Ahead(scores, c) == {d \in Scored(scores) : Better(scores, d, c)}

\* Better is a strict order of all cards.
LEMMA BetterIsAnOrder ==
  ASSUME NEW scores \in [Cards -> 0..TopScore], NEW b \in Cards, NEW c \in Cards, NEW d \in Cards
  PROVE  /\ ~Better(scores, c, c)
         /\ Better(scores, c, d) => ~Better(scores, d, c)
         /\ c # d => Better(scores, c, d) \/ Better(scores, d, c)
         /\ Better(scores, b, c) /\ Better(scores, c, d) => Better(scores, b, d)
<1>1. scores[b] \in Nat /\ scores[c] \in Nat /\ scores[d] \in Nat
  BY CrmAssumption
<1>2. b \in Nat /\ c \in Nat /\ d \in Nat
  BY CrmAssumption
<1> QED
  BY <1>1, <1>2 DEF Better

\* The number of candidates ahead of one is its rank, and no two have the same.
LEMMA RanksAreDistinct ==
  ASSUME NEW scores \in [Cards -> 0..TopScore]
  PROVE  LET withScore == Scored(scores)
             n == Cardinality(withScore)
             rank == [c \in withScore |-> Cardinality(Ahead(scores, c))]
         IN /\ IsFiniteSet(withScore) /\ n \in Nat
            /\ rank \in Injection(withScore, 0..(n - 1))
            /\ rank \in Surjection(withScore, 0..(n - 1))
            /\ \A c, d \in withScore : Better(scores, d, c) => rank[d] < rank[c]
<1> DEFINE withScore == Scored(scores)
           n == Cardinality(withScore)
           rank == [c \in withScore |-> Cardinality(Ahead(scores, c))]
<1>1. IsFiniteSet(withScore) /\ n \in Nat /\ withScore \subseteq Cards
  BY CrmAssumption, FS_Subset, FS_CardinalityType DEF Scored
<1>2. \A c \in withScore : Ahead(scores, c) \subseteq withScore /\ c \notin Ahead(scores, c)
  BY <1>1, BetterIsAnOrder DEF Ahead
<1> HIDE DEF withScore
<1>3. \A c \in withScore :
        /\ IsFiniteSet(Ahead(scores, c)) /\ Cardinality(Ahead(scores, c)) \in Nat
        /\ Cardinality(Ahead(scores, c)) < n
  <2> TAKE c \in withScore
  <2>1. IsFiniteSet(Ahead(scores, c)) /\ Cardinality(Ahead(scores, c)) <= n
    BY <1>1, <1>2, FS_Subset
  <2>2. Cardinality(Ahead(scores, c)) # n
    BY <1>1, <1>2, FS_Subset
  <2>3. Cardinality(Ahead(scores, c)) \in Nat
    BY <2>1, FS_CardinalityType
  <2> QED
    BY <1>1, <2>1, <2>2, <2>3
<1>4. \A c, d \in withScore :
        Better(scores, d, c) => Cardinality(Ahead(scores, d)) < Cardinality(Ahead(scores, c))
  <2> SUFFICES ASSUME NEW c \in withScore, NEW d \in withScore, Better(scores, d, c)
               PROVE  Cardinality(Ahead(scores, d)) < Cardinality(Ahead(scores, c))
    OBVIOUS
  <2>1. Ahead(scores, d) \subseteq Ahead(scores, c)
    <3> SUFFICES ASSUME NEW e \in Ahead(scores, d) PROVE e \in Ahead(scores, c)
      OBVIOUS
    <3>1. e \in Scored(scores) /\ Better(scores, e, d) /\ e \in Cards
      BY DEF Ahead, Scored
    <3>2. Better(scores, e, c)
      BY <1>1, <3>1, BetterIsAnOrder
    <3> QED
      BY <3>1, <3>2 DEF Ahead
  <2>2. d \in Ahead(scores, c) /\ d \notin Ahead(scores, d)
    BY <1>2 DEF Ahead, withScore
  <2>3. /\ Cardinality(Ahead(scores, d)) <= Cardinality(Ahead(scores, c))
        /\ Cardinality(Ahead(scores, d)) # Cardinality(Ahead(scores, c))
    BY <1>3, <2>1, <2>2, FS_Subset
  <2> QED
    BY <1>3, <2>3
<1>5. rank \in [withScore -> 0..(n - 1)]
  BY <1>1, <1>3
<1>6. \A c, d \in withScore : rank[c] = rank[d] => c = d
  <2> SUFFICES ASSUME NEW c \in withScore, NEW d \in withScore, rank[c] = rank[d], c # d
               PROVE  FALSE
    OBVIOUS
  <2>1. Better(scores, c, d) \/ Better(scores, d, c)
    BY <1>1, BetterIsAnOrder
  <2> QED
    BY <1>3, <1>4, <2>1
<1>7. rank \in Injection(withScore, 0..(n - 1))
  BY <1>5, <1>6 DEF Injection, IsInjective
<1>8. IsFiniteSet(0..(n - 1)) /\ Cardinality(0..(n - 1)) = n
  BY <1>1, FS_Interval
<1>9. rank \in Surjection(withScore, 0..(n - 1))
  BY <1>7, <1>8, FS_Injection
<1> QED
  BY <1>1, <1>4, <1>7, <1>9 DEF withScore

\* The cohort that a run captures is its best candidates, as many as fit.
LEMMA CohortIsBest ==
  ASSUME NEW r \in JobRuns, jobRun[r].scores \in [Cards -> 0..TopScore],
         NEW run, run.scores = jobRun[r].scores, run.cohort = Cohort(r)
  PROVE  /\ Cohort(r) \subseteq Cards /\ Cardinality(Cohort(r)) <= CohortSize
         /\ IsBest(run)
<1> DEFINE scores == jobRun[r].scores
           withScore == Scored(scores)
           n == Cardinality(withScore)
           rank == [c \in withScore |-> Cardinality(Ahead(scores, c))]
           cohort == {c \in withScore : rank[c] < CohortSize}
<1>1. Cohort(r) = cohort
  BY DEF Cohort, Scored, Ahead
<1>2. /\ IsFiniteSet(withScore) /\ n \in Nat
      /\ rank \in Injection(withScore, 0..(n - 1))
      /\ rank \in Surjection(withScore, 0..(n - 1))
      /\ \A c, d \in withScore : Better(scores, d, c) => rank[d] < rank[c]
  BY RanksAreDistinct
<1>3. withScore = {c \in Cards : scores[c] > 0}
  BY DEF Scored
<1> HIDE DEF rank, withScore
<1>4. cohort \subseteq withScore /\ cohort \subseteq Cards
  BY <1>3
<1>5. \A c \in cohort : \A d \in Cards \ cohort : Better(scores, c, d)
  <2> SUFFICES ASSUME NEW c \in cohort, NEW d \in Cards \ cohort
               PROVE  Better(scores, c, d)
    OBVIOUS
  <2>1. CASE d \in withScore
    <3>1. rank[c] \in Nat /\ rank[d] \in Nat /\ rank[c] < CohortSize /\ ~(rank[d] < CohortSize)
      BY <1>2, <2>1 DEF Injection
    <3>2. ~Better(scores, d, c)
      BY <1>2, <2>1, <3>1, CrmAssumption
    <3> QED
      BY <1>4, <2>1, <3>2, BetterIsAnOrder
  <2>2. CASE d \notin withScore
    <3>1. scores[c] \in Nat /\ scores[c] > 0 /\ scores[d] \in Nat /\ ~(scores[d] > 0)
      BY <1>3, <1>4, <2>2, CrmAssumption
    <3> QED
      BY <3>1 DEF Better
  <2> QED
    BY <2>1, <2>2
<1>6. IsFiniteSet(cohort) /\ Cardinality(cohort) <= n
  BY <1>2, <1>4, FS_Subset
<1>7. CASE n <= CohortSize
  <2>1. cohort = withScore
    BY <1>2, <1>7, CrmAssumption DEF Injection
  <2> QED
    BY <1>1, <1>2, <1>3, <1>4, <1>5, <1>7, <2>1 DEF IsBest
<1>8. CASE ~(n <= CohortSize)
  <2> DEFINE places == [c \in cohort |-> rank[c]]
  <2>1. places \in [cohort -> 0..(CohortSize - 1)]
    BY <1>2, CrmAssumption DEF Injection
  <2>2. \A c, d \in cohort : places[c] = places[d] => c = d
    BY <1>2 DEF Injection, IsInjective
  <2>3. \A k \in 0..(CohortSize - 1) : \E c \in cohort : places[c] = k
    <3> TAKE k \in 0..(CohortSize - 1)
    <3>1. k \in 0..(n - 1) /\ k < CohortSize
      BY <1>2, <1>8, CrmAssumption
    <3>2. PICK c \in withScore : rank[c] = k
      BY <1>2, <3>1 DEF Surjection
    <3> QED
      BY <3>1, <3>2
  <2>4. places \in Injection(cohort, 0..(CohortSize - 1)) /\ places \in Surjection(cohort, 0..(CohortSize - 1))
    BY <2>1, <2>2, <2>3 DEF Injection, Surjection, IsInjective
  <2>5. IsFiniteSet(0..(CohortSize - 1)) /\ Cardinality(0..(CohortSize - 1)) = CohortSize
    BY CrmAssumption, FS_Interval
  <2>6. Cardinality(cohort) = CohortSize
    BY <2>4, <2>5, FS_Injection
  <2> QED
    BY <1>1, <1>3, <1>4, <1>5, <2>6, CrmAssumption DEF IsBest
<1> QED
  BY <1>7, <1>8

\* The counts of a cohort that fits are those of a snapshot, and a full cohort
\* whose accepted and rejected candidates are all of it has nobody New.
LEMMA DecidedIsComplete ==
  ASSUME NEW cohort \in SUBSET Cards, Cardinality(cohort) <= CohortSize
  PROVE  /\ Counts(cohort).accepted \in 0..CohortSize
         /\ Counts(cohort).new \in 0..CohortSize
         /\ Counts(cohort).rejected \in 0..CohortSize
         /\ Decided(cohort, Counts(cohort)) => Complete(Counts(cohort), cohort)
<1> DEFINE accepted == {c \in cohort : card[c].stage \in {"Reviewed", "Shortlisted"}}
           new == {c \in cohort : card[c].stage \in {"New"}}
           rejected == {c \in cohort : card[c].stage \in {"Rejected"}}
<1>1. IsFiniteSet(cohort) /\ Cardinality(cohort) \in Nat
  BY CrmAssumption, FS_Subset, FS_CardinalityType
<1>2. /\ Counts(cohort).accepted = Cardinality(accepted)
      /\ Counts(cohort).new = Cardinality(new)
      /\ Counts(cohort).rejected = Cardinality(rejected)
  BY DEF Counts
<1>3. \A s \in SUBSET cohort :
        /\ IsFiniteSet(s) /\ Cardinality(s) \in 0..CohortSize
        /\ Cardinality(s) = Cardinality(cohort) => s = cohort
  <2> TAKE s \in SUBSET cohort
  <2>1. IsFiniteSet(s) /\ Cardinality(s) <= Cardinality(cohort)
        /\ (Cardinality(cohort) = Cardinality(s) => cohort = s)
    BY <1>1, FS_Subset
  <2>2. Cardinality(s) \in Nat
    BY <2>1, FS_CardinalityType
  <2> QED
    BY <1>1, <2>1, <2>2, CrmAssumption
<1>4. ASSUME Decided(cohort, Counts(cohort)) PROVE Complete(Counts(cohort), cohort)
  <2>1. Cardinality(cohort) = CohortSize /\ Cardinality(accepted) + Cardinality(rejected) = CohortSize
    BY <1>2, <1>4 DEF Decided
  <2>2. accepted \cap rejected = {}
    OBVIOUS
  <2>3. Cardinality(accepted \cup rejected) = Cardinality(accepted) + Cardinality(rejected) - Cardinality(accepted \cap rejected)
    BY <1>3, FS_Union
  <2>4. Cardinality(accepted \cup rejected) = Cardinality(cohort)
    BY <1>3, <2>1, <2>2, <2>3, FS_EmptySet
  <2>5. accepted \cup rejected = cohort
    BY <1>3, <2>4
  <2>6. \A c \in cohort : card[c].stage # "New"
    BY <2>5
  <2> QED
    BY <1>2, <2>1, <2>6 DEF Complete
<1>5. Cardinality(accepted) \in 0..CohortSize /\ Cardinality(new) \in 0..CohortSize
      /\ Cardinality(rejected) \in 0..CohortSize
  BY <1>3
<1> QED
  BY <1>2, <1>4, <1>5

\* A run that is completed again goes to the end of the list.
LEMMA MovedToTheEnd ==
  ASSUME NEW s \in Seq(JobRuns), IsInjective(s), NEW i \in DOMAIN s
  PROVE  LET moved == Append(RemoveAt(s, i), s[i]) IN
         moved \in Seq(JobRuns) /\ IsInjective(moved) /\ ToSet(moved) = ToSet(s)
<1> DEFINE moved == Append(RemoveAt(s, i), s[i])
<1>1. Len(s) \in Nat /\ DOMAIN s = 1..Len(s) /\ i \in 1..Len(s)
  OBVIOUS
<1>2. /\ RemoveAt(s, i) \in Seq(JobRuns) /\ Len(RemoveAt(s, i)) = Len(s) - 1
      /\ \A k \in 1..(Len(s) - 1) : RemoveAt(s, i)[k] = IF k < i THEN s[k] ELSE s[k + 1]
  <2> DEFINE front == SubSeq(s, 1, i - 1)
             back == SubSeq(s, i + 1, Len(s))
  <2>1. /\ front \in Seq(JobRuns) /\ Len(front) = i - 1
        /\ \A k \in 1..(i - 1) : front[k] = s[k]
    BY <1>1
  <2>2. back \in Seq(JobRuns)
    BY <1>1
  <2>3. Len(back) = Len(s) - i
    BY <1>1
  <2>4. \A k \in 1..(Len(s) - i) : back[k] = s[(i + k)]
    BY <1>1
  <2> HIDE DEF front, back
  <2>5. /\ front \o back \in Seq(JobRuns) /\ Len(front \o back) = Len(s) - 1
        /\ \A k \in 1..(Len(s) - 1) :
             (front \o back)[k] = IF k <= i - 1 THEN front[k] ELSE back[k - (i - 1)]
    <3>1. /\ front \o back \in Seq(JobRuns) /\ Len(front \o back) = Len(front) + Len(back)
          /\ \A k \in 1..(Len(front) + Len(back)) :
               (front \o back)[k] = IF k <= Len(front) THEN front[k] ELSE back[k - Len(front)]
      BY <2>1, <2>2, ConcatProperties
    <3>2. Len(front) = i - 1 /\ Len(front) + Len(back) = Len(s) - 1
      BY <1>1, <2>1, <2>3
    <3> QED
      BY <3>1, <3>2
  <2>6. \A k \in 1..(Len(s) - 1) : (front \o back)[k] = IF k < i THEN s[k] ELSE s[k + 1]
    <3> TAKE k \in 1..(Len(s) - 1)
    <3>1. CASE k < i
      BY <1>1, <2>1, <2>5, <3>1
    <3>2. CASE ~(k < i)
      <4>1. k - (i - 1) \in 1..(Len(s) - i) /\ i + (k - (i - 1)) = k + 1 /\ ~(k <= i - 1)
        BY <1>1, <3>2
      <4> QED
        BY <2>4, <2>5, <3>2, <4>1
    <3> QED
      BY <3>1, <3>2
  <2> QED
    BY <2>5, <2>6 DEF RemoveAt, front, back
<1> DEFINE rest == RemoveAt(s, i)
           last == s[i]
<1>3. moved \in Seq(JobRuns) /\ DOMAIN moved = 1..Len(s)
      /\ \A k \in 1..Len(s) : moved[k] = IF k < i THEN s[k] ELSE IF k < Len(s) THEN s[k + 1] ELSE s[i]
  <2>1. last \in JobRuns /\ moved = Append(rest, last)
    BY <1>1
  <2> HIDE DEF rest, last, moved
  <2>2. rest \in Seq(JobRuns) /\ Len(rest) = Len(s) - 1
    BY <1>2 DEF rest
  <2>3. moved \in Seq(JobRuns) /\ Len(moved) = Len(s)
    <3>1. moved \in Seq(JobRuns)
      BY <2>1, <2>2
    <3>2. Len(moved) = Len(rest) + 1
      BY <2>1, <2>2
    <3> QED
      BY <1>1, <2>2, <3>1, <3>2
  <2>4. \A k \in 1..(Len(s) - 1) : moved[k] = rest[k]
    BY <1>1, <2>1, <2>2
  <2>5. moved[Len(s)] = last
    BY <1>1, <2>1, <2>2
  <2> QED
    BY <1>1, <1>2, <2>3, <2>4, <2>5 DEF rest, last
<1> HIDE DEF moved
<1>4. IsInjective(moved)
  <2> SUFFICES ASSUME NEW a \in 1..Len(s), NEW b \in 1..Len(s), moved[a] = moved[b] PROVE a = b
    BY <1>3 DEF IsInjective
  <2> DEFINE from == [k \in 1..Len(s) |-> IF k < i THEN k ELSE IF k < Len(s) THEN k + 1 ELSE i]
  <2>1. from[a] \in 1..Len(s) /\ from[b] \in 1..Len(s)
    BY <1>1
  <2>2. moved[a] = s[from[a]] /\ moved[b] = s[from[b]]
    BY <1>1, <1>3
  <2>3. from[a] = from[b]
    BY <1>1, <2>1, <2>2 DEF IsInjective
  <2>4. /\ from[a] = IF a < i THEN a ELSE IF a < Len(s) THEN a + 1 ELSE i
        /\ from[b] = IF b < i THEN b ELSE IF b < Len(s) THEN b + 1 ELSE i
    OBVIOUS
  <2>5. a \in Int /\ b \in Int /\ i \in Int /\ a <= Len(s) /\ b <= Len(s) /\ Len(s) \in Int
    BY <1>1
  <2> HIDE DEF from
  <2>6. \A k \in Int, n \in Int : \A x \in Int, y \in Int :
          /\ x <= n /\ y <= n
          /\ (IF x < k THEN x ELSE IF x < n THEN x + 1 ELSE k)
               = (IF y < k THEN y ELSE IF y < n THEN y + 1 ELSE k)
          => x = y
    OBVIOUS
  <2>7. (IF a < i THEN a ELSE IF a < Len(s) THEN a + 1 ELSE i)
          = (IF b < i THEN b ELSE IF b < Len(s) THEN b + 1 ELSE i)
    BY <2>3, <2>4, Zenon
  <2> QED
    BY <2>5, <2>6, <2>7
<1>5. \A k \in 1..Len(s) : \E j \in 1..Len(s) : moved[j] = s[k]
  <2> TAKE k \in 1..Len(s)
  <2>1. CASE k < i
    BY <1>1, <1>3, <2>1
  <2>2. CASE k = i
    BY <1>1, <1>3, <2>2
  <2>3. CASE k > i
    <3>1. k - 1 \in 1..Len(s) /\ ~(k - 1 < i) /\ k - 1 < Len(s) /\ (k - 1) + 1 = k
      BY <1>1, <2>3
    <3> QED
      BY <1>3, <3>1
  <2> QED
    BY <1>1, <2>1, <2>2, <2>3
<1>6. \A k \in 1..Len(s) : \E j \in 1..Len(s) : moved[k] = s[j]
  BY <1>1, <1>3
<1>7. ToSet(moved) = ToSet(s)
  <2>1. ToSet(moved) = {moved[k] : k \in 1..Len(s)} /\ ToSet(s) = {s[k] : k \in 1..Len(s)}
    BY <1>1, <1>3 DEF ToSet
  <2> QED
    BY <1>5, <1>6, <2>1
<1> QED
  BY <1>3, <1>4, <1>7 DEF moved

-----------------------------------------------------------------------------
(* Cards: what the steps have in common.                                    *)

RunType ==
  [state : {"none", "matching", "partially_ready", "ready"}, scores : [Cards -> 0..TopScore],
   cohort : SUBSET Cards, week : BOOLEAN, snapshot : SnapshotType]

\* What is in a transaction at each of its places.
LEMMA CrmContents ==
  ASSUME CrmTypes, NEW h \in Handlers
  PROVE  LET t == open[h] IN
         /\ t \in CrmTransactions
         /\ t.at # "idle" /\ t.request.op = "stage" => t \in StageTx
         /\ t.at = "keyed" => t \in StageTx
         /\ t.at = "begun" /\ t.request.op = "report" => t \in ReportTx
         /\ t.at = "counted" => t \in CountedTx
         /\ t.at # "idle" => t \in UNION {StageTx, ReportTx, CountedTx}
         /\ t.at # "idle" /\ t.request.op = "report" => t.request.arg \in JobRuns
<1> DEFINE t == open[h]
<1>1. t \in CrmTransactions
  BY DEF CrmTypes
<1>2. CASE t = Idle
  BY <1>1, <1>2 DEF Idle
<1>3. CASE t \in StageTx
  BY <1>1, <1>3 DEF StageTx
<1>4. CASE t \in ReportTx
  BY <1>1, <1>4 DEF ReportTx, ReportRequests
<1>5. CASE t \in CountedTx
  BY <1>1, <1>5 DEF CountedTx, ReportRequests
<1> QED
  BY <1>1, <1>2, <1>3, <1>4, <1>5 DEF CrmTransactions

\* The parts of the types.
LEMMA CrmTypeFacts ==
  ASSUME CrmTypes
  PROVE  /\ card \in [Cards -> [stage : Stages \cup {"none"}, score : 0..TopScore, run : JobRuns \cup {0}]]
         /\ jobRun \in [JobRuns -> RunType]
         /\ ToSet(ready) = RunsIn("ready") /\ IsInjective(ready)
BY DEF CrmTypes, CrmTypeOK, RunType

\* A step that only moves a transaction: it relies on what is so, and no other
\* has its key.
LEMMA CrmMoveKeeps ==
  ASSUME CrmInv, NEW h \in Handlers, NEW t \in CrmTransactions,
         open' = [open EXCEPT ![h] = t], UNCHANGED <<ledger, crmVars>>,
         HoldsCard(t),
         t.at = "keyed" => \A g \in Handlers \ {h} : open[g].at = "keyed" => open[g].key # t.key
  PROVE  CrmInv'
<1>1. open'[h] = t /\ \A g \in Handlers \ {h} : open'[g] = open[g]
  BY DEF CrmInv, CrmTypes
<1>2. CrmTypes'
  BY DEF CrmInv, CrmTypes, CrmTypeOK, RunsIn, crmVars
<1>3. CardsHold'
  BY <1>1 DEF CrmInv, CardsHold, HoldsCard, Unknown, Complete, crmVars
<1>4. KeysApart'
  BY <1>1 DEF CrmInv, KeysApart
<1>5. \A c \in Cards : CardHolds(c)'
  BY DEF CrmInv, CardHolds, Applied, crmVars
<1>6. \A r \in JobRuns : RunHolds(jobRun[r])'
  BY DEF CrmInv, RunHolds, IsBest, Complete, crmVars
<1>7. ExportHolds'
  BY DEF CrmInv, ExportHolds, Passed, After, PlacesOf, crmVars
<1> QED
  BY <1>2, <1>3, <1>4, <1>5, <1>6, <1>7 DEF CrmInv, crmVars

\* A transaction that ends without a change.
LEMMA CrmCloseKeeps ==
  ASSUME CrmInv, NEW h \in Handlers, Close(h), UNCHANGED <<ledger, crmVars>>
  PROVE  CrmInv'
<1>1. Idle \in CrmTransactions /\ HoldsCard(Idle) /\ Idle.at = "idle"
  BY DEF CrmTransactions, HoldsCard, Idle
<1> QED
  BY <1>1, CrmMoveKeeps DEF Close

\* A step that changes one run, and perhaps ends transactions: a ready run stays
\* ready with its cohort, and the run is as a run has to be.
LEMMA RunStepKeeps ==
  ASSUME CrmInv, NEW r \in JobRuns, NEW run \in RunType, RunHolds(run),
         jobRun' = [jobRun EXCEPT ![r] = run],
         jobRun[r].state = "ready" => run.state = "ready" /\ run.cohort = jobRun[r].cohort,
         ready' \in Seq(JobRuns), IsInjective(ready'), ToSet(ready') = RunsIn("ready")',
         open' \in [Handlers -> CrmTransactions],
         \A g \in Handlers : open'[g] = open[g] \/ open'[g] = Idle,
         UNCHANGED <<ledger, card, activity, export>>
  PROVE  CrmInv'
<1>0. CrmTypes /\ jobRun \in [JobRuns -> RunType]
  BY CrmTypeFacts DEF CrmInv
<1>1. jobRun'[r] = run /\ \A q \in JobRuns \ {r} : jobRun'[q] = jobRun[q]
  BY <1>0
<1>2. CrmTypes'
  <2>1. jobRun' \in [JobRuns -> RunType]
    BY <1>0
  <2> QED
    BY <1>0, <2>1 DEF CrmTypes, CrmTypeOK, RunType
<1>3. \A q \in JobRuns : jobRun[q].state = "ready" =>
        jobRun'[q].state = "ready" /\ jobRun'[q].cohort = jobRun[q].cohort
  BY <1>1
<1>4. CardsHold'
  <2> SUFFICES ASSUME NEW g \in Handlers PROVE HoldsCard(open[g])'
    BY DEF CardsHold
  <2>1. CASE open'[g] = Idle
    BY <2>1 DEF HoldsCard, Idle
  <2>2. CASE open'[g] = open[g]
    <3>1. HoldsCard(open[g])
      BY DEF CrmInv, CardsHold
    <3>2. open[g].at # "idle" /\ open[g].request.op = "report" => open[g].request.arg \in JobRuns
      BY <1>0, CrmContents
    <3>3. open[g].at = "counted" => open[g].request.op = "report" /\ open[g].at # "idle"
      BY <1>0, CrmContents DEF CountedTx, ReportRequests
    <3> QED
      BY <1>3, <2>2, <3>1, <3>2, <3>3 DEF HoldsCard, Unknown, Complete
  <2> QED
    BY <2>1, <2>2
<1>5. KeysApart'
  BY DEF CrmInv, KeysApart, Idle
<1>6. \A c \in Cards : CardHolds(c)'
  BY DEF CrmInv, CardHolds, Applied
<1>7. \A q \in JobRuns : RunHolds(jobRun[q])'
  <2>1. \A q \in JobRuns : RunHolds(jobRun'[q])
    BY <1>1 DEF CrmInv
  <2> QED
    BY <2>1 DEF RunHolds, IsBest, Complete
<1>8. ExportHolds'
  BY DEF CrmInv, ExportHolds, Passed, After, PlacesOf
<1> QED
  BY <1>2, <1>4, <1>5, <1>6, <1>7, <1>8 DEF CrmInv

\* A change of a card takes it from those of which the export tells anything.
LEMMA DisturbedKeeps ==
  ASSUME CrmInv, NEW c \in Cards, export' = Disturbed(c),
         \A d \in Cards \ {c} : card'[d] = card[d]
  PROVE  ExportHolds' /\ export' \in ExportType
<1>1. export \in ExportType
  BY DEF CrmInv, CrmTypes
<1>2. /\ export'.at = export.at /\ export'.cursor = export.cursor
      /\ export'.rows = export.rows /\ export'.steady = export.steady \ {c}
      /\ export' \in ExportType
  BY <1>1 DEF Disturbed, ExportType
<1>3. \A d \in export'.steady : d \in export.steady /\ card'[d] = card[d]
  BY <1>1, <1>2 DEF ExportType
<1>4. \A d \in export'.steady : (Passed(d)' <=> Passed(d)) /\ PlacesOf(d)' = PlacesOf(d)
  BY <1>2, <1>3 DEF Passed, After, PlacesOf
<1> QED
  BY <1>2, <1>3, <1>4 DEF CrmInv, ExportHolds

\* A step of the export alone.
LEMMA ExportStepKeeps ==
  ASSUME CrmInv, export' \in ExportType, ExportHolds',
         UNCHANGED <<ledgerVars, card, activity, jobRun, ready>>
  PROVE  CrmInv'
<1>1. CrmTypes'
  BY DEF CrmInv, CrmTypes, CrmTypeOK, RunsIn, ledgerVars
<1>2. CardsHold' /\ KeysApart'
  BY DEF CrmInv, CardsHold, HoldsCard, Unknown, Complete, KeysApart, ledgerVars
<1>3. \A c \in Cards : CardHolds(c)'
  BY DEF CrmInv, CardHolds, Applied, ledgerVars
<1>4. \A r \in JobRuns : RunHolds(jobRun[r])'
  BY DEF CrmInv, RunHolds, IsBest, Complete
<1> QED
  BY <1>1, <1>2, <1>3, <1>4 DEF CrmInv

-----------------------------------------------------------------------------
(* Cards: each step keeps the invariant.                                    *)

\* A request for a stage is about a matched card.
LEMMA AskTransitionKeeps ==
  ASSUME CrmInv, NEW h \in Handlers, NEW by \in Recruiters, NEW c \in Cards,
         NEW target \in Stages \ {"New"}, NEW key \in KeyNames,
         AskTransition(h, by, c, target, key)
  PROVE  CrmInv'
<1> DEFINE t == Opened([op |-> "stage", by |-> by, on |-> c, arg |-> target], key,
                       [stage |-> card[c].stage])
<1>1. card[c].stage \in Stages /\ card[c].stage # "none"
  BY CrmTypeFacts DEF CrmInv, AskTransition, Matched
<1>2. t \in StageTx /\ HoldsCard(t) /\ t.at = "begun"
  BY <1>1 DEF StageTx, HoldsCard, Opened
<1>3. open' = [open EXCEPT ![h] = t] /\ UNCHANGED <<ledger, crmVars>>
  BY DEF AskTransition
<1> HIDE DEF t
<1> QED
  BY <1>2, <1>3, CrmMoveKeeps DEF CrmTransactions

\* A key is taken when nobody else holds it and the ledger does not know it.
LEMMA TakeCardKeyKeeps ==
  ASSUME CrmInv, NEW h \in Handlers, TakeCardKey(h)
  PROVE  CrmInv'
<1> DEFINE t == [open[h] EXCEPT !.at = "keyed", !.keyed = TRUE]
<1>0. open[h] \in StageTx /\ HoldsCard(open[h]) /\ open[h].at = "begun"
  BY CrmContents DEF CrmInv, CardsHold, TakeCardKey, At
<1>1. CASE Known(h)
  BY <1>1, CrmCloseKeeps DEF TakeCardKey, TakeKey
<1>2. CASE ~Known(h)
  <2>1. t \in StageTx /\ t.key = open[h].key /\ t.request = open[h].request /\ t.keyed
        /\ t.at = "keyed"
    BY <1>0 DEF StageTx
  <2>2. HoldsCard(t)
    BY <1>0, <1>2, <2>1 DEF HoldsCard, Known, Unknown, StageTx
  <2>3. open' = [open EXCEPT ![h] = t] /\ UNCHANGED <<ledger, crmVars>>
    BY <1>2 DEF TakeCardKey, TakeKey, CrmInv, CrmTypes
  <2>4. \A g \in Handlers \ {h} : open[g].at = "keyed" => open[g].key # t.key
    <3> SUFFICES ASSUME NEW g \in Handlers \ {h}, open[g].at = "keyed" PROVE open[g].key # t.key
      OBVIOUS
    <3>1. open[g].keyed /\ open[g].at # "idle"
      BY DEF CrmInv, CardsHold, HoldsCard
    <3> QED
      BY <2>1, <3>1 DEF TakeCardKey, TakeKey, KeyIsFree, Busy
  <2> HIDE DEF t
  <2> QED
    BY <2>1, <2>2, <2>3, <2>4, CrmMoveKeeps DEF CrmTransactions
<1> QED
  BY <1>1, <1>2

\* A path goes on to a stage that the table allows from where it led.
LEMMA PathGoesOn ==
  ASSUME NEW path \in Seq([from : Stages, to : Stages]), NEW previous \in Stages,
         NEW target \in Stages, LeadsTo(path, previous),
         target \in AllowedTransitions[previous]
  PROVE  LeadsTo(Append(path, [from |-> previous, to |-> target]), target)
<1> DEFINE step == [from |-> previous, to |-> target]
           longer == Append(path, step)
           n == Len(path)
<1>1. step \in [from : Stages, to : Stages] /\ step.from = previous /\ step.to = target
  OBVIOUS
<1> HIDE DEF step
<1>2. /\ n \in Nat /\ DOMAIN path = 1..n /\ DOMAIN longer = 1..(n + 1) /\ Len(longer) = n + 1
      /\ \A i \in 1..n : longer[i] = path[i]
      /\ longer[n + 1] = step /\ longer # <<>>
  BY <1>1
<1>3. path = <<>> <=> n = 0
  OBVIOUS
<1> HIDE DEF longer, n
<1>4. ASSUME NEW i \in 1..(n + 1)
      PROVE  /\ longer[i].to \in AllowedTransitions[longer[i].from]
             /\ longer[i].from = IF i = 1 THEN "New" ELSE longer[i - 1].to
  <2>1. CASE i \in 1..n
    <3>1. i # 1 => i - 1 \in 1..n
      BY <1>2, <2>1
    <3> QED
      BY <1>2, <2>1, <3>1 DEF LeadsTo
  <2>2. CASE i = n + 1
    <3>1. i # 1 => n \in 1..n /\ i - 1 = n
      BY <1>2, <2>2
    <3>2. i = 1 <=> n = 0
      BY <1>2, <2>2
    <3>3. previous = IF n = 0 THEN "New" ELSE path[n].to
      BY <1>3 DEF LeadsTo, n
    <3> QED
      BY <1>1, <1>2, <2>2, <3>1, <3>2, <3>3
  <2> QED
    BY <1>2, <2>1, <2>2
<1>5. longer[Len(longer)].to = target
  BY <1>1, <1>2
<1> QED
  BY <1>2, <1>4, <1>5 DEF LeadsTo, longer, step

\* A stage that is written under its key and lock.
LEMMA TransitionApplies ==
  ASSUME CrmInv, NEW h \in Handlers, NEW c \in Cards, NEW target \in Stages \ {"New"},
         open[h] \in StageTx, open[h].at = "keyed",
         open[h].request.op = "stage", c = open[h].request.on,
         target \in AllowedTransitions[card[c].stage],
         card' = [card EXCEPT ![c].stage = target],
         activity' = [activity EXCEPT ![c] = Append(@, [from |-> card[c].stage, to |-> target])],
         ledger' = Recorded(h), export' = Disturbed(c), Close(h), UNCHANGED <<jobRun, ready>>
  PROVE  CrmInv'
<1> DEFINE entry == [key |-> open[h].key, request |-> open[h].request]
           step == [from |-> card[c].stage, to |-> target]
<1>0. /\ CrmTypes /\ HoldsCard(open[h])
      /\ card \in [Cards -> [stage : Stages \cup {"none"}, score : 0..TopScore, run : JobRuns \cup {0}]]
      /\ activity \in [Cards -> Seq([from : Stages, to : Stages])]
      /\ IsFiniteSet(ledger)
  BY CrmTypeFacts DEF CrmInv, CrmTypes, CardsHold
<1>1. /\ card[c].stage \in Stages /\ card[c].stage # "none"
      /\ card'[c].stage = target
      /\ \A d \in Cards \ {c} : card'[d] = card[d]
      /\ \A d \in Cards : card'[d].score = card[d].score
  BY <1>0 DEF HoldsCard
<1>2. \A d \in Cards : /\ card[d].stage # "none" => card'[d].stage # "none"
                       /\ card[d].stage # "New" => card'[d].stage # "New"
  BY <1>1 DEF Stages
<1>3. open'[h] = Idle /\ \A g \in Handlers \ {h} : open'[g] = open[g]
  BY <1>0 DEF CrmTypes, Close
<1>4. Unknown(open[h]) /\ entry \notin ledger /\ ledger' = ledger \cup {entry}
  BY <1>0 DEF HoldsCard, Unknown, Recorded
<1>5. ExportHolds' /\ export' \in ExportType
  BY <1>1, DisturbedKeeps
<1>6. CrmTypes'
  <2>1. card' \in [Cards -> [stage : Stages \cup {"none"}, score : 0..TopScore, run : JobRuns \cup {0}]]
    BY <1>0
  <2>2. open' \in [Handlers -> CrmTransactions]
    BY <1>0 DEF CrmTypes, Close, CrmTransactions
  <2>3. activity' \in [Cards -> Seq([from : Stages, to : Stages])]
    <3>1. step \in [from : Stages, to : Stages]
      BY <1>1
    <3> HIDE DEF step
    <3> DEFINE longer == Append(activity[c], step)
               paths == Seq([from : Stages, to : Stages])
    <3>2. activity \in [Cards -> paths] /\ activity[c] \in paths
      BY <1>0
    <3>3. longer \in paths
      BY <3>1, <3>2
    <3>4. activity' = [activity EXCEPT ![c] = longer]
      BY <1>0 DEF step
    <3> HIDE DEF longer, paths
    <3>5. activity' \in [Cards -> paths]
      BY <3>2, <3>3, <3>4
    <3> QED
      BY <3>5 DEF paths
  <2>4. IsFiniteSet(ledger')
    <3> HIDE DEF entry
    <3>1. IsFiniteSet(ledger \cup {entry})
      BY <1>0, FS_AddElement
    <3> QED
      BY <1>4, <3>1
  <2> QED
    BY <1>0, <1>5, <2>1, <2>2, <2>3, <2>4 DEF CrmTypes, CrmTypeOK, RunsIn
<1>7. CardsHold'
  <2> SUFFICES ASSUME NEW g \in Handlers PROVE HoldsCard(open[g])'
    BY DEF CardsHold
  <2>1. CASE g = h
    BY <1>3, <2>1 DEF HoldsCard, Idle
  <2>2. CASE g # h
    <3>1. open'[g] = open[g] /\ HoldsCard(open[g])
      BY <1>3, <2>2 DEF CrmInv, CardsHold
    <3>2. /\ open[g].at # "idle" /\ open[g].request.op = "stage" => open[g].request.on \in Cards
          /\ open[g].at = "counted" => jobRun[open[g].request.arg].cohort \subseteq Cards
      BY <1>0, CrmContents, CrmTypeFacts DEF StageTx, CountedTx, ReportRequests, RunType
    <3>3. open[g].at = "keyed" => open[g].key # entry.key
      BY <2>2 DEF CrmInv, KeysApart
    <3>4. open[g].at = "keyed" => Unknown(open[g])'
      BY <1>4, <3>1, <3>3 DEF Unknown, HoldsCard
    <3>5. open[g].at = "counted" /\ open[g].seen.early =>
            Complete(open[g].seen, jobRun[open[g].request.arg].cohort)'
      BY <1>2, <3>1, <3>2 DEF HoldsCard, Complete
    <3> QED
      BY <1>2, <3>1, <3>2, <3>4, <3>5 DEF HoldsCard
  <2> QED
    BY <2>1, <2>2
<1>8. KeysApart'
  BY <1>3 DEF CrmInv, KeysApart, Idle
<1>9. \A d \in Cards : CardHolds(d)'
  <2> TAKE d \in Cards
  <2>1. CardHolds(d) /\ IsFiniteSet(Applied(d)) /\ Len(activity[d]) \in Nat
    BY <1>0, FS_Subset DEF CrmInv, Applied
  <2>2. CASE d # c
    <3>1. Applied(d)' = Applied(d)
      BY <1>4, <2>2 DEF Applied
    <3>2. card'[d] = card[d] /\ activity'[d] = activity[d]
      BY <1>0, <1>1, <2>2
    <3> QED
      BY <2>1, <3>1, <3>2 DEF CardHolds
  <2>3. CASE d = c
    <3>0. entry.request.op = "stage" /\ entry.request.on = d
      BY <2>3
    <3>1. Applied(d)' = Applied(d) \cup {entry} /\ entry \notin Applied(d)
      <4> HIDE DEF entry
      <4> QED
        BY <1>4, <3>0 DEF Applied
    <3>2. Cardinality(Applied(d)') = Cardinality(Applied(d)) + 1
      <4> HIDE DEF entry
      <4>1. Cardinality(Applied(d) \cup {entry}) = Cardinality(Applied(d)) + 1
        BY <2>1, <3>1, FS_AddElement
      <4> QED
        BY <3>1, <4>1
    <3>3. activity'[d] = Append(activity[d], step)
      BY <1>0, <2>3
    <3>4. LeadsTo(activity'[d], target)
      BY <1>0, <1>1, <2>1, <2>3, <3>3, PathGoesOn DEF CardHolds
    <3>5. Len(activity'[d]) = Len(activity[d]) + 1
      <4> HIDE DEF step
      <4> QED
        BY <1>0, <3>3
    <3> QED
      BY <1>1, <2>1, <2>3, <3>2, <3>4, <3>5 DEF CardHolds, Stages
  <2> QED
    BY <2>2, <2>3
<1>10. \A r \in JobRuns : RunHolds(jobRun[r])'
  <2> TAKE r \in JobRuns
  <2>1. RunHolds(jobRun[r]) /\ jobRun[r].cohort \subseteq Cards
    BY <1>0, CrmTypeFacts DEF CrmInv, RunType
  <2> QED
    BY <1>2, <2>1 DEF RunHolds, IsBest, Complete
<1> QED
  BY <1>5, <1>6, <1>7, <1>8, <1>9, <1>10 DEF CrmInv

\* A request for a stage is applied, or changes nothing.
LEMMA TransitionKeeps ==
  ASSUME CrmInv, NEW h \in Handlers, Transition(h)
  PROVE  CrmInv'
<1> DEFINE c == open[h].request.on
           target == open[h].request.arg
<1>1. open[h].at = "keyed" /\ open[h].request.op = "stage" /\ open[h] \in StageTx
  BY CrmContents DEF CrmInv, Transition, At
<1>2. c \in Cards /\ target \in Stages \ {"New"}
  BY <1>1 DEF StageTx
<1>3. CASE target \in AllowedTransitions[card[c].stage]
  <2>1. /\ card' = [card EXCEPT ![c].stage = target]
        /\ activity' = [activity EXCEPT ![c] = Append(@, [from |-> card[c].stage, to |-> target])]
        /\ ledger' = Recorded(h) /\ export' = Disturbed(c) /\ Close(h) /\ UNCHANGED <<jobRun, ready>>
    BY <1>3 DEF Transition, StageLocked
  <2> QED
    BY <1>1, <1>2, <1>3, <2>1, TransitionApplies
<1>4. CASE target \notin AllowedTransitions[card[c].stage]
  BY <1>4, CrmCloseKeeps DEF Transition, StageLocked, crmVars
<1> QED
  BY <1>3, <1>4

SameResults(run, before) ==
  run.scores = before.scores /\ run.cohort = before.cohort /\ run.snapshot = before.snapshot

\* A run goes on without becoming ready, or stays so: its scores, cohort and
\* snapshot are left alone.
LEMMA RunGoesOn ==
  ASSUME CrmInv, NEW r \in JobRuns, NEW run \in RunType, SameResults(run, jobRun[r]),
         run.state = "ready" <=> jobRun[r].state = "ready",
         jobRun' = [jobRun EXCEPT ![r] = run],
         ready' \in Seq(JobRuns), IsInjective(ready'), ToSet(ready') = ToSet(ready),
         UNCHANGED <<ledgerVars, card, activity, export>>
  PROVE  CrmInv'
<1>0. /\ CrmTypes /\ jobRun \in [JobRuns -> RunType] /\ RunHolds(jobRun[r])
      /\ ToSet(ready) = RunsIn("ready")
  BY CrmTypeFacts DEF CrmInv
<1>2. RunHolds(run)
  BY <1>0 DEF SameResults, RunHolds, IsBest, Complete
<1>3. RunsIn("ready")' = RunsIn("ready")
  BY <1>0 DEF RunsIn
<1>4. open' \in [Handlers -> CrmTransactions] /\ \A g \in Handlers : open'[g] = open[g]
  BY <1>0 DEF CrmTypes, ledgerVars
<1> QED
  BY <1>0, <1>2, <1>3, <1>4, RunStepKeeps DEF SameResults, ledgerVars

\* A run starts, ends in part, is completed again, or has been ready for a week.
LEMMA RunMovesKeep ==
  ASSUME CrmInv, NEW r \in JobRuns,
         StartRun(r) \/ EndPartially(r) \/ OnDemandEnds(r) \/ WeekPasses(r)
  PROVE  CrmInv'
<1>0. /\ CrmTypes /\ jobRun \in [JobRuns -> RunType] /\ jobRun[r] \in RunType
      /\ ready \in Seq(JobRuns) /\ IsInjective(ready)
  BY CrmTypeFacts DEF CrmInv, CrmTypes
<1>1. CASE StartRun(r)
  <2> DEFINE run == [jobRun[r] EXCEPT !.state = "matching"]
  <2>1. run \in RunType /\ SameResults(run, jobRun[r]) /\ run.state = "matching"
    BY <1>0 DEF RunType, SameResults
  <2>2. jobRun' = [jobRun EXCEPT ![r] = run] /\ jobRun[r].state = "none"
    BY <1>0, <1>1 DEF StartRun
  <2> HIDE DEF run
  <2> QED
    BY <1>0, <1>1, <2>1, <2>2, RunGoesOn DEF StartRun
<1>2. CASE EndPartially(r)
  <2> DEFINE run == [jobRun[r] EXCEPT !.state = "partially_ready"]
  <2>1. run \in RunType /\ SameResults(run, jobRun[r]) /\ run.state = "partially_ready"
    BY <1>0 DEF RunType, SameResults
  <2>2. jobRun' = [jobRun EXCEPT ![r] = run] /\ jobRun[r].state = "matching"
    BY <1>0, <1>2 DEF EndPartially
  <2> HIDE DEF run
  <2> QED
    BY <1>0, <1>2, <2>1, <2>2, RunGoesOn DEF EndPartially
<1>3. CASE OnDemandEnds(r)
  <2> DEFINE run == [jobRun[r] EXCEPT !.week = FALSE]
  <2>1. run \in RunType /\ SameResults(run, jobRun[r]) /\ run.state = jobRun[r].state
    BY <1>0 DEF RunType, SameResults
  <2>2. jobRun' = [jobRun EXCEPT ![r] = run]
    BY <1>0, <1>3 DEF OnDemandEnds
  <2>3. PICK i \in DOMAIN ready : ready[i] = r /\ ready' = Append(RemoveAt(ready, i), r)
    BY <1>3 DEF OnDemandEnds
  <2>4. ready' = Append(RemoveAt(ready, i), ready[i])
    BY <2>3
  <2>5. ready' \in Seq(JobRuns) /\ IsInjective(ready') /\ ToSet(ready') = ToSet(ready)
    BY <1>0, <2>4, MovedToTheEnd
  <2> HIDE DEF run
  <2> QED
    BY <1>0, <1>3, <2>1, <2>2, <2>5, RunGoesOn DEF OnDemandEnds
<1>4. CASE WeekPasses(r)
  <2> DEFINE run == [jobRun[r] EXCEPT !.week = TRUE]
  <2>1. run \in RunType /\ SameResults(run, jobRun[r]) /\ run.state = jobRun[r].state
    BY <1>0 DEF RunType, SameResults
  <2>2. jobRun' = [jobRun EXCEPT ![r] = run]
    BY <1>0, <1>4 DEF WeekPasses
  <2> HIDE DEF run
  <2> QED
    BY <1>0, <1>4, <2>1, <2>2, RunGoesOn DEF WeekPasses
<1> QED
  BY <1>1, <1>2, <1>3, <1>4

\* A run becomes ready once, and its cohort is its best.
LEMMA BecomeReadyKeeps ==
  ASSUME CrmInv, NEW r \in JobRuns, BecomeReady(r)
  PROVE  CrmInv'
<1> DEFINE run == [jobRun[r] EXCEPT !.state = "ready", !.cohort = Cohort(r)]
<1>0. /\ CrmTypes /\ jobRun \in [JobRuns -> RunType] /\ jobRun[r] \in RunType
      /\ ready \in Seq(JobRuns) /\ IsInjective(ready) /\ ToSet(ready) = RunsIn("ready")
      /\ RunHolds(jobRun[r]) /\ jobRun[r].state # "ready"
  BY CrmTypeFacts DEF CrmInv, CrmTypes, BecomeReady, Completable
<1>1. /\ run.state = "ready" /\ run.cohort = Cohort(r)
      /\ run.scores = jobRun[r].scores /\ run.snapshot = jobRun[r].snapshot
  BY <1>0 DEF RunType
<1>2. jobRun[r].scores \in [Cards -> 0..TopScore]
  BY <1>0 DEF RunType
<1>3. Cohort(r) \subseteq Cards /\ Cardinality(Cohort(r)) <= CohortSize
  <2> HIDE DEF run
  <2> QED
    BY <1>1, <1>2, CohortIsBest
<1>4. run \in RunType
  BY <1>0, <1>3 DEF RunType
<1>5. jobRun' = [jobRun EXCEPT ![r] = run]
  BY <1>0 DEF BecomeReady
<1> HIDE DEF run
<1>6. IsBest(run)
  BY <1>1, <1>2, CohortIsBest
<1>7. RunHolds(run)
  BY <1>0, <1>1, <1>3, <1>6 DEF RunHolds
<1>8. /\ ready' \in Seq(JobRuns) /\ IsInjective(ready') /\ ToSet(ready') = RunsIn("ready")'
  <2>1. ready' = Append(ready, r)
    BY DEF BecomeReady
  <2>2. \A i \in DOMAIN ready : ready[i] # r
    BY <1>0 DEF ToSet, RunsIn
  <2>3. /\ ready' \in Seq(JobRuns \cup {r}) /\ DOMAIN ready' = DOMAIN ready \cup {Len(ready) + 1}
        /\ Len(ready) + 1 \notin DOMAIN ready
        /\ \A i \in DOMAIN ready : ready'[i] = ready[i]
        /\ ready'[Len(ready) + 1] = r
    BY <1>0, <2>1, Appended
  <2>4. IsInjective(ready')
    BY <1>0, <2>2, <2>3 DEF IsInjective
  <2>5. JobRuns \cup {r} = JobRuns
    OBVIOUS
  <2>6. ready' \in Seq(JobRuns)
    BY <2>3, <2>5
  <2>7. ToSet(ready') = ToSet(ready) \cup {r}
    BY <2>3 DEF ToSet
  <2>8. RunsIn("ready")' = RunsIn("ready") \cup {r}
    BY <1>0, <1>1, <1>5 DEF RunsIn
  <2> QED
    BY <1>0, <2>4, <2>6, <2>7, <2>8
<1>9. open' \in [Handlers -> CrmTransactions] /\ \A g \in Handlers : open'[g] = open[g]
  BY <1>0 DEF CrmTypes, BecomeReady, ledgerVars
<1> QED
  BY <1>0, <1>4, <1>5, <1>7, <1>8, <1>9, RunStepKeeps DEF BecomeReady, ledgerVars

\* A match makes a card or rescores it, for a run that is not ready.
LEMMA MaterializeKeeps ==
  ASSUME CrmInv, NEW r \in JobRuns, NEW c \in Cards, NEW score \in 1..TopScore,
         Materialize(r, c, score)
  PROVE  CrmInv'
<1> DEFINE scores == [jobRun[r].scores EXCEPT ![c] = score]
           run == [jobRun[r] EXCEPT !.scores = scores]
<1>0. /\ CrmTypes /\ jobRun \in [JobRuns -> RunType] /\ jobRun[r] \in RunType
      /\ card \in [Cards -> [stage : Stages \cup {"none"}, score : 0..TopScore, run : JobRuns \cup {0}]]
      /\ RunHolds(jobRun[r]) /\ jobRun[r].state = "matching"
  BY CrmTypeFacts DEF CrmInv, Materialize
<1>1. /\ run \in RunType /\ run.state = "matching" /\ run.cohort = jobRun[r].cohort
      /\ run.snapshot = jobRun[r].snapshot
      /\ run.scores[c] = score /\ \A d \in Cards \ {c} : run.scores[d] = jobRun[r].scores[d]
  <2>1. jobRun[r].scores \in [Cards -> 0..TopScore] /\ score \in 0..TopScore
    BY <1>0, CrmAssumption DEF RunType
  <2>2. scores \in [Cards -> 0..TopScore] /\ scores[c] = score
        /\ \A d \in Cards \ {c} : scores[d] = jobRun[r].scores[d]
    BY <2>1
  <2> HIDE DEF scores
  <2> QED
    BY <1>0, <2>2 DEF RunType
<1>2. jobRun' = [jobRun EXCEPT ![r] = run]
  BY <1>0 DEF Materialize, RunType
<1> HIDE DEF run
<1>3. jobRun'[r] = run /\ \A q \in JobRuns \ {r} : jobRun'[q] = jobRun[q]
  BY <1>0, <1>2
<1>4. /\ card'[c].stage = IF card[c].stage = "none" THEN "New" ELSE card[c].stage
      /\ card' \in [Cards -> [stage : Stages \cup {"none"}, score : 0..TopScore, run : JobRuns \cup {0}]]
      /\ \A d \in Cards \ {c} : card'[d] = card[d]
  <2> DEFINE new == [stage |-> IF card[c].stage = "none" THEN "New" ELSE card[c].stage,
                     score |-> score, run |-> r]
  <2>1. new \in [stage : Stages \cup {"none"}, score : 0..TopScore, run : JobRuns \cup {0}]
    BY <1>0, CrmAssumption DEF Stages
  <2>2. card' = [card EXCEPT ![c] = new]
    BY DEF Materialize
  <2>3. new.stage = IF card[c].stage = "none" THEN "New" ELSE card[c].stage
    OBVIOUS
  <2> HIDE DEF new
  <2> QED
    BY <1>0, <2>1, <2>2, <2>3
<1>5. \A d \in Cards : /\ card'[d].stage # "none" <=> (card[d].stage # "none" \/ d = c)
                       /\ card[d].stage # "none" => card'[d].stage = card[d].stage
  BY <1>4
<1>6. ExportHolds' /\ export' \in ExportType
  BY <1>4, DisturbedKeeps DEF Materialize
<1>7. UNCHANGED <<ledger, open, activity, ready>>
  BY DEF Materialize, ledgerVars
<1>8. CrmTypes'
  <2>1. jobRun' \in [JobRuns -> RunType]
    BY <1>0, <1>1, <1>2
  <2>2. RunsIn("ready")' = RunsIn("ready")
    BY <1>0, <1>1, <1>3 DEF RunsIn
  <2> QED
    BY <1>0, <1>4, <1>6, <1>7, <2>1, <2>2 DEF CrmTypes, CrmTypeOK, RunType
<1>9. \A q \in JobRuns : jobRun[q].state = "ready" =>
        /\ jobRun'[q].state = "ready" /\ jobRun'[q].cohort = jobRun[q].cohort
        /\ \A d \in jobRun[q].cohort : d \in Cards /\ card'[d].stage = card[d].stage
  <2> SUFFICES ASSUME NEW q \in JobRuns, jobRun[q].state = "ready"
               PROVE  /\ jobRun'[q].state = "ready" /\ jobRun'[q].cohort = jobRun[q].cohort
                      /\ \A d \in jobRun[q].cohort : d \in Cards /\ card'[d].stage = card[d].stage
    OBVIOUS
  <2>1. q # r /\ jobRun'[q] = jobRun[q]
    BY <1>0, <1>3
  <2>2. jobRun[q].cohort \subseteq Cards /\ RunHolds(jobRun[q])
    BY <1>0 DEF CrmInv, RunType
  <2> QED
    BY <1>5, <2>1, <2>2 DEF RunHolds, IsBest
<1>10. CardsHold'
  <2> SUFFICES ASSUME NEW g \in Handlers PROVE HoldsCard(open[g])'
    BY DEF CardsHold
  <2>1. HoldsCard(open[g]) /\ open'[g] = open[g]
    BY <1>7 DEF CrmInv, CardsHold
  <2>2. /\ open[g].at # "idle" /\ open[g].request.op = "stage" => open[g].request.on \in Cards
        /\ open[g].at # "idle" /\ open[g].request.op = "report" => open[g].request.arg \in JobRuns
        /\ open[g].at = "counted" => open[g].request.op = "report" /\ open[g].at # "idle"
    BY <1>0, CrmContents DEF StageTx, CountedTx, ReportRequests
  <2>3. open[g].at = "keyed" => Unknown(open[g])'
    BY <1>7, <2>1 DEF HoldsCard, Unknown
  <2>4. open[g].at = "counted" /\ open[g].seen.early =>
          Complete(open[g].seen, jobRun[open[g].request.arg].cohort)'
    BY <1>9, <2>1, <2>2 DEF HoldsCard, Complete
  <2> QED
    BY <1>5, <1>9, <2>1, <2>2, <2>3, <2>4 DEF HoldsCard
<1>11. KeysApart'
  BY <1>7 DEF CrmInv, KeysApart
<1>12. \A d \in Cards : CardHolds(d)'
  <2> TAKE d \in Cards
  <2>1. CardHolds(d) /\ Applied(d)' = Applied(d) /\ activity'[d] = activity[d]
    BY <1>7 DEF CrmInv, Applied
  <2>2. CASE d # c
    BY <1>4, <2>1, <2>2 DEF CardHolds
  <2>3. CASE d = c /\ card[c].stage # "none"
    BY <1>4, <2>1, <2>3 DEF CardHolds
  <2>4. CASE d = c /\ card[c].stage = "none"
    <3>1. activity[d] = <<>> /\ card'[d].stage = "New"
      BY <1>4, <2>1, <2>4 DEF CardHolds
    <3> QED
      BY <2>1, <3>1 DEF CardHolds, LeadsTo
  <2> QED
    BY <2>2, <2>3, <2>4
<1>13. \A q \in JobRuns : RunHolds(jobRun[q])'
  <2> TAKE q \in JobRuns
  <2>1. RunHolds(jobRun[q]) /\ jobRun[q] \in RunType
    BY <1>0 DEF CrmInv
  <2>2. CASE q # r
    <3>1. jobRun'[q] = jobRun[q]
      BY <1>3, <2>2
    <3> QED
      BY <1>5, <1>9, <2>1, <3>1 DEF RunHolds, IsBest, Complete
  <2>3. CASE q = r
    <3>1. ~run.snapshot.taken /\ run.state # "ready"
      BY <1>0, <1>1 DEF RunHolds
    <3>2. \A d \in Cards : run.scores[d] > 0 => card'[d].stage # "none"
      BY <1>0, <1>1, <1>5 DEF RunHolds
    <3>3. Cardinality(run.cohort) <= CohortSize
      BY <1>0, <1>1 DEF RunHolds
    <3> QED
      BY <1>3, <2>3, <3>1, <3>2, <3>3 DEF RunHolds
  <2> QED
    BY <2>2, <2>3
<1> QED
  BY <1>6, <1>8, <1>10, <1>11, <1>12, <1>13 DEF CrmInv

\* A report is about a run that is ready.
LEMMA AskReportKeeps ==
  ASSUME CrmInv, NEW h \in Handlers, NEW by \in Recruiters, AskReport(h, by)
  PROVE  CrmInv'
<1> DEFINE r == Last(ready)
           t == Opened([op |-> "report", by |-> by, on |-> "job", arg |-> r], Nothing,
                       [week |-> jobRun[r].week])
<1>0. /\ ready \in Seq(JobRuns) /\ ready # <<>> /\ jobRun \in [JobRuns -> RunType]
      /\ ToSet(ready) = RunsIn("ready")
  BY CrmTypeFacts DEF CrmInv, CrmTypes, AskReport
<1>1. r \in JobRuns /\ jobRun[r].state = "ready" /\ jobRun[r].week \in BOOLEAN
  <2>1. Len(ready) \in DOMAIN ready
    BY <1>0
  <2>2. r \in ToSet(ready)
    BY <2>1 DEF ToSet, Last
  <2> QED
    BY <1>0, <2>2 DEF RunsIn, RunType
<1>2. open' = [open EXCEPT ![h] = t] /\ UNCHANGED <<ledger, crmVars>>
  BY DEF AskReport
<1> HIDE DEF r
<1>3. t \in ReportTx /\ HoldsCard(t) /\ t.at = "begun"
  BY <1>1 DEF ReportTx, ReportRequests, HoldsCard, Opened
<1> HIDE DEF t
<1> QED
  BY <1>2, <1>3, CrmMoveKeeps DEF CrmTransactions

\* What a report counts of a cohort still holds when it is written, since nobody
\* gets back to being New and the cohort of a ready run stays.
LEMMA CountStagesKeeps ==
  ASSUME CrmInv, NEW h \in Handlers, CountStages(h)
  PROVE  CrmInv'
<1> DEFINE r == open[h].request.arg
           cohort == jobRun[r].cohort
           counts == Counts(cohort)
           week == open[h].seen.week
           seen == [accepted |-> counts.accepted, new |-> counts.new,
                    rejected |-> counts.rejected, early |-> ~week, taken |-> TRUE]
           t == [open[h] EXCEPT !.at = "counted", !.seen = seen]
<1>0. open[h] \in ReportTx /\ HoldsCard(open[h]) /\ jobRun \in [JobRuns -> RunType]
  BY CrmContents, CrmTypeFacts DEF CrmInv, CardsHold, CountStages, At
<1>1. /\ r \in JobRuns /\ week \in BOOLEAN /\ jobRun[r].state = "ready" /\ open[h].at = "begun"
      /\ open[h].request.op = "report"
  BY <1>0 DEF ReportTx, ReportRequests, HoldsCard
<1>2. cohort \in SUBSET Cards /\ Cardinality(cohort) <= CohortSize
  BY <1>0, <1>1 DEF CrmInv, RunHolds, RunType
<1>3. CASE ~(week \/ Decided(cohort, counts))
  BY <1>3, CrmCloseKeeps DEF CountStages
<1>4. CASE week \/ Decided(cohort, counts)
  <2>1. /\ counts.accepted \in 0..CohortSize /\ counts.new \in 0..CohortSize
        /\ counts.rejected \in 0..CohortSize
        /\ Decided(cohort, counts) => Complete(counts, cohort)
    BY <1>2, DecidedIsComplete
  <2>2. seen \in SnapshotType /\ (seen.early => Complete(seen, cohort))
    <3> HIDE DEF counts, week, cohort
    <3> QED
      BY <1>1, <1>4, <2>1 DEF SnapshotType, Complete
  <2>3. open' = [open EXCEPT ![h] = t] /\ UNCHANGED <<ledger, crmVars>>
    <3>1. CountStages(h) /\ (week \/ Decided(cohort, counts))
      BY <1>4
    <3>2. open' = [open EXCEPT ![h].at = "counted", ![h].seen = seen]
      BY <3>1 DEF CountStages
    <3> HIDE DEF seen
    <3>3. open \in [Handlers -> CrmTransactions]
      BY DEF CrmInv, CrmTypes
    <3> QED
      BY <3>2, <3>3 DEF CountStages
  <2> HIDE DEF seen
  <2>4. t \in CountedTx /\ t.at = "counted" /\ t.seen = seen /\ t.request = open[h].request
    BY <1>0, <2>2 DEF ReportTx, CountedTx
  <2> HIDE DEF t
  <2>5. HoldsCard(t)
    BY <1>1, <2>2, <2>4 DEF HoldsCard
  <2> QED
    BY <2>3, <2>4, <2>5, CrmMoveKeeps DEF CrmTransactions
<1> QED
  BY <1>3, <1>4

\* The first report that finishes writes what it counted.
LEMMA FinalizeKeeps ==
  ASSUME CrmInv, NEW h \in Handlers, Finalize(h)
  PROVE  CrmInv'
<1> DEFINE r == open[h].request.arg
           run == [jobRun[r] EXCEPT !.snapshot = open[h].seen]
<1>0. /\ CrmTypes /\ open[h] \in CountedTx /\ HoldsCard(open[h]) /\ open[h].at = "counted"
      /\ jobRun \in [JobRuns -> RunType]
      /\ ready \in Seq(JobRuns) /\ IsInjective(ready) /\ ToSet(ready) = RunsIn("ready")
  BY CrmContents, CrmTypeFacts DEF CrmInv, CrmTypes, CardsHold, Finalize, At
<1>1. /\ r \in JobRuns /\ open[h].seen \in SnapshotType /\ jobRun[r].state = "ready"
      /\ open[h].seen.early => Complete(open[h].seen, jobRun[r].cohort)
  BY <1>0 DEF CountedTx, ReportRequests, HoldsCard
<1>2. CASE ~NotTaken(r)
  BY <1>2, CrmCloseKeeps DEF Finalize, crmVars
<1>3. CASE NotTaken(r)
  <2>1. jobRun' = [jobRun EXCEPT ![r] = run]
    BY <1>0, <1>3 DEF Finalize
  <2>2. /\ run \in RunType /\ run.state = "ready" /\ run.scores = jobRun[r].scores
        /\ run.cohort = jobRun[r].cohort /\ run.snapshot = open[h].seen
    BY <1>0, <1>1 DEF RunType
  <2> HIDE DEF run
  <2>3. RunHolds(run)
    BY <1>1, <2>2 DEF CrmInv, RunHolds, IsBest, Complete
  <2>4. RunsIn("ready")' = RunsIn("ready") /\ UNCHANGED ready
    BY <1>0, <1>1, <2>1, <2>2 DEF RunsIn, Finalize
  <2>5. /\ open' \in [Handlers -> CrmTransactions]
        /\ \A g \in Handlers : open'[g] = open[g] \/ open'[g] = Idle
    BY <1>0 DEF CrmTypes, CrmTransactions, Finalize, Close
  <2>6. UNCHANGED <<ledger, card, activity, export>>
    BY DEF Finalize
  <2> HIDE DEF r
  <2> QED
    BY <1>0, <1>1, <2>1, <2>2, <2>3, <2>4, <2>5, <2>6, RunStepKeeps
<1> QED
  BY <1>2, <1>3

\* An export begins in front of the shortlist.
LEMMA BeginExportKeeps == CrmInv /\ BeginExport => CrmInv'
<1> SUFFICES ASSUME CrmInv, BeginExport PROVE CrmInv'
  OBVIOUS
<1>1. /\ export'.at = "streaming" /\ export'.cursor = Nothing
      /\ export'.rows = <<>> /\ export'.steady = Shortlisted
  BY DEF BeginExport, NoExport
<1>2. export' \in ExportType
  <2>1. export' = [at |-> "streaming", cursor |-> Nothing, rows |-> <<>>, steady |-> Shortlisted]
    BY DEF BeginExport, NoExport
  <2>2. <<>> \in Seq(Cards) /\ Shortlisted \subseteq Cards
    BY DEF Shortlisted
  <2> QED
    BY <2>1, <2>2 DEF ExportType
<1>3. ExportHolds'
  <2>1. \A c \in Cards : ~Passed(c)' /\ PlacesOf(c)' = {}
    BY <1>1 DEF Passed, PlacesOf
  <2>2. \A c \in export'.steady : c \in Cards /\ card'[c].stage = "Shortlisted"
    BY <1>1 DEF Shortlisted, BeginExport
  <2> QED
    BY <1>1, <2>1, <2>2 DEF ExportHolds
<1> QED
  BY <1>2, <1>3, ExportStepKeeps DEF BeginExport

\* The cursor passes the card that is exported and no other that stays; when it
\* stays on a card that was rescored behind it, it passes none.
LEMMA ExportRowKeeps == CrmInv /\ ExportRow => CrmInv'
<1> SUFFICES ASSUME CrmInv, ExportRow PROVE CrmInv'
  OBVIOUS
<1> DEFINE scores == [e \in Cards |-> card[e].score]
<1>0. /\ CrmTypes /\ export \in ExportType /\ export.at = "streaming"
      /\ card \in [Cards -> [stage : Stages \cup {"none"}, score : 0..TopScore, run : JobRuns \cup {0}]]
      /\ UNCHANGED <<ledgerVars, card, activity, jobRun, ready>>
  BY CrmTypeFacts DEF CrmInv, CrmTypes, ExportRow
<1>1. PICK c \in Rest :
        /\ \A d \in Rest \ {c} : Better(scores, c, d)
        /\ export' = [export EXCEPT !.cursor = [score |-> ScoreHeld(c), card |-> c],
                                    !.rows = Append(@, c)]
  BY DEF ExportRow
<1>2. /\ c \in Cards
      /\ \A d \in Cards : d \in Nat /\ card[d].score \in Nat /\ card[d].score \in 0..TopScore
  BY <1>0, CrmAssumption DEF Rest, Shortlisted
<1>9. export.cursor # Nothing => export.cursor \in [score : 0..TopScore, card : Cards]
  BY <1>0 DEF ExportType
<1>3. PICK cursor \in [score : 0..TopScore, card : Cards] :
        cursor = [score |-> ScoreHeld(c), card |-> c]
  <2>1. export.cursor # Nothing => export.cursor.score \in 0..TopScore
    BY <1>9
  <2>2. ScoreHeld(c) \in 0..TopScore
    BY <1>2, <2>1 DEF ScoreHeld
  <2> QED
    BY <1>2, <2>2
<1>10. \/ cursor.score = card[c].score
       \/ cursor = export.cursor /\ c \notin export.steady
  <2>1. CASE export.cursor # Nothing /\ c = export.cursor.card
    <3>1. cursor = export.cursor
      BY <1>3, <1>9, <2>1 DEF ScoreHeld
    <3>2. c \in export.steady => card[c].score = cursor.score
      BY <2>1, <3>1 DEF CrmInv, ExportHolds
    <3> QED
      BY <3>1, <3>2
  <2>2. CASE ~(export.cursor # Nothing /\ c = export.cursor.card)
    BY <1>3, <2>2 DEF ScoreHeld
  <2> QED
    BY <2>1, <2>2
<1> DEFINE rows == Append(export.rows, c)
<1>4. /\ rows \in Seq(Cards) /\ DOMAIN rows = DOMAIN export.rows \cup {Len(export.rows) + 1}
      /\ Len(export.rows) + 1 \notin DOMAIN export.rows
      /\ \A i \in DOMAIN export.rows : rows[i] = export.rows[i]
      /\ rows[Len(export.rows) + 1] = c
  <2>1. export.rows \in Seq(Cards) /\ Cards \cup {c} = Cards
    BY <1>0, <1>2 DEF ExportType
  <2> QED
    BY <2>1, Appended
<1> HIDE DEF rows
<1>5. /\ export'.at = "streaming" /\ export'.cursor = cursor /\ export'.rows = rows
      /\ export'.steady = export.steady /\ export' \in ExportType
  BY <1>0, <1>1, <1>3, <1>4 DEF ExportType, rows
<1>6. /\ \A d \in Cards : After(d, cursor)' = After(d, cursor)
      /\ cursor # Nothing
  BY <1>0, <1>3, CrmAssumption DEF After
<1>7. ASSUME NEW d \in export.steady
      PROVE  IF Passed(d)' THEN \E i \in DOMAIN export'.rows : PlacesOf(d)' = {i}
             ELSE PlacesOf(d)' = {}
  <2>0. /\ d \in Cards /\ d \in Shortlisted
        /\ IF Passed(d) THEN \E i \in DOMAIN export.rows : PlacesOf(d) = {i} ELSE PlacesOf(d) = {}
    BY <1>0 DEF CrmInv, ExportHolds, ExportType, Shortlisted
  <2>1. Passed(d)' <=> ~After(d, cursor)
    BY <1>3, <1>5, <1>6, <2>0 DEF Passed
  <2>2. d \in Rest <=> ~Passed(d)
    BY <2>0 DEF Rest, Passed
  <2>3. CASE d = c
    <3>1. Passed(d)'
      BY <1>2, <1>3, <1>10, <2>1, <2>3 DEF After
    <3>2. PlacesOf(d) = {}
      BY <2>0, <2>2, <2>3
    <3>3. PlacesOf(d)' = {Len(export.rows) + 1}
      BY <1>4, <1>5, <2>3, <3>2 DEF PlacesOf
    <3> QED
      BY <1>4, <1>5, <3>1, <3>3
  <2>4. CASE d # c
    <3>1. PlacesOf(d)' = PlacesOf(d)
      BY <1>4, <1>5, <2>4 DEF PlacesOf
    <3>2. Passed(d)' <=> Passed(d)
      <4>3. CASE cursor = export.cursor
        BY <1>6, <2>1, <4>3 DEF Passed
      <4>1. CASE d \in Rest /\ cursor.score = card[c].score
        <5>1. Better(scores, c, d)
          BY <1>1, <2>4, <4>1
        <5>2. After(d, cursor)
          BY <1>2, <1>3, <2>0, <4>1, <5>1 DEF After, Better
        <5> QED
          BY <2>1, <2>2, <4>1, <5>2
      <4>2. CASE d \notin Rest /\ cursor.score = card[c].score
        <5>1. export.cursor # Nothing /\ ~After(d, export.cursor) /\ After(c, export.cursor)
          BY <2>2, <4>2 DEF Passed, Rest
        <5>2. export.cursor.score \in Nat /\ export.cursor.card \in Nat
          <6>1. export.cursor \in [score : 0..TopScore, card : Cards]
            BY <1>0, <5>1 DEF ExportType
          <6>2. export.cursor.score \in 0..TopScore /\ export.cursor.card \in Cards
            BY <6>1
          <6>3. Cards \subseteq Nat
            BY CrmAssumption
          <6>4. \A k \in 0..TopScore : k \in Nat
            BY CrmAssumption
          <6> QED
            BY <6>2, <6>3, <6>4
        <5>3. ~After(d, cursor)
          BY <1>2, <1>3, <2>0, <4>2, <5>1, <5>2 DEF After
        <5> QED
          BY <2>1, <2>2, <4>2, <5>3
      <4> QED
        BY <1>10, <4>1, <4>2, <4>3
    <3> QED
      BY <1>4, <1>5, <2>0, <3>1, <3>2
  <2> QED
    BY <2>3, <2>4
<1>11. c \in export.steady => card'[c].score = cursor.score
  BY <1>0, <1>10
<1>8. ExportHolds'
  BY <1>0, <1>3, <1>5, <1>7, <1>11 DEF CrmInv, ExportHolds
<1> QED
  BY <1>0, <1>5, <1>8, ExportStepKeeps

\* An export that ends has nothing in front of its cursor.
LEMMA EndExportKeeps == CrmInv /\ (EndExport \/ AbortExport) => CrmInv'
<1> SUFFICES ASSUME CrmInv, EndExport \/ AbortExport PROVE CrmInv'
  OBVIOUS
<1>0. /\ export \in ExportType /\ export.at = "streaming" /\ ExportHolds
      /\ UNCHANGED <<ledgerVars, card, activity, jobRun, ready>>
  BY DEF CrmInv, CrmTypes, EndExport, AbortExport
<1>1. /\ export'.at = "aborted" \/ (export'.at = "completed" /\ Rest = {})
      /\ export'.cursor = export.cursor /\ export'.rows = export.rows
      /\ export'.steady = export.steady /\ export' \in ExportType
  BY <1>0 DEF EndExport, AbortExport, ExportType
<1>2. \A c \in export.steady : /\ c \in Shortlisted
                               /\ Passed(c)' <=> Passed(c)
                               /\ PlacesOf(c)' = PlacesOf(c)
  BY <1>0, <1>1 DEF ExportHolds, ExportType, Shortlisted, Passed, After, PlacesOf
<1>3. Rest = {} => \A c \in export.steady : Passed(c)
  BY <1>2 DEF Rest, Passed
<1>4. ExportHolds'
  BY <1>0, <1>1, <1>2, <1>3 DEF ExportHolds
<1> QED
  BY <1>0, <1>1, <1>4, ExportStepKeeps

-----------------------------------------------------------------------------
(* Cards: the theorems.                                                     *)

\* A job that nobody was matched for.
LEMMA CrmInvInit == LedgerInit /\ CrmInit => CrmInv
<1> SUFFICES ASSUME LedgerInit, CrmInit PROVE CrmInv
  OBVIOUS
<1>1. 0 \in 0..TopScore /\ 0 \in 0..CohortSize /\ Cardinality({}) = 0 /\ IsFiniteSet({})
  BY CrmAssumption, FS_EmptySet
<1>2. NoSnapshot \in SnapshotType /\ ~NoSnapshot.taken
  BY <1>1 DEF NoSnapshot, SnapshotType
<1>3. NoExport \in ExportType /\ NoExport.at = "none" /\ NoExport.cursor = Nothing
  <2>1. <<>> \in Seq(Cards)
    OBVIOUS
  <2> QED
    BY <2>1 DEF NoExport, ExportType
<1> DEFINE run == [state |-> "none", scores |-> [c \in Cards |-> 0], cohort |-> {},
                   week |-> FALSE, snapshot |-> NoSnapshot]
<1>4. /\ run \in RunType /\ run.state = "none" /\ run.cohort = {} /\ run.snapshot = NoSnapshot
      /\ \A c \in Cards : ~(run.scores[c] > 0)
  BY <1>1, <1>2 DEF RunType
<1>5. jobRun = [r \in JobRuns |-> run]
  BY DEF CrmInit
<1> HIDE DEF run
<1>6. jobRun \in [JobRuns -> RunType] /\ \A r \in JobRuns : jobRun[r] = run
  BY <1>4, <1>5
<1>7. CrmTypes
  <2>1. card \in [Cards -> [stage : Stages \cup {"none"}, score : 0..TopScore, run : JobRuns \cup {0}]]
    BY <1>1 DEF CrmInit, NoCard
  <2>2. ready = <<>> /\ ready \in Seq(JobRuns) /\ ToSet(ready) = {} /\ IsInjective(ready)
    BY DEF CrmInit, ToSet, IsInjective
  <2>3. RunsIn("ready") = {}
    BY <1>4, <1>6 DEF RunsIn
  <2>4. activity \in [Cards -> Seq([from : Stages, to : Stages])]
    BY DEF CrmInit
  <2>5. open \in [Handlers -> CrmTransactions] /\ IsFiniteSet(ledger)
    BY <1>1 DEF LedgerInit, CrmTransactions
  <2> QED
    BY <1>3, <1>6, <2>1, <2>2, <2>3, <2>4, <2>5 DEF CrmTypes, CrmTypeOK, RunType, CrmInit
<1>8. CardsHold /\ KeysApart
  BY DEF CardsHold, KeysApart, HoldsCard, LedgerInit, Idle
<1>9. \A c \in Cards : CardHolds(c)
  <2> TAKE c \in Cards
  <2>1. Applied(c) = {} /\ activity[c] = <<>> /\ card[c].stage = "none" /\ Len(activity[c]) = 0
    BY DEF Applied, LedgerInit, CrmInit, NoCard
  <2> QED
    BY <1>1, <2>1 DEF CardHolds
<1>10. \A r \in JobRuns : RunHolds(jobRun[r])
  BY <1>1, <1>2, <1>4, <1>6, CrmAssumption DEF RunHolds
<1>11. ExportHolds
  BY <1>3 DEF ExportHolds, CrmInit
<1> QED
  BY <1>7, <1>8, <1>9, <1>10, <1>11 DEF CrmInv

\* Every step of the CRM keeps the invariant.
LEMMA CrmNextKeeps == CrmInv /\ [CrmNext]_<<ledgerVars, crmVars>> => CrmInv'
<1> SUFFICES ASSUME CrmInv, [CrmNext]_<<ledgerVars, crmVars>> PROVE CrmInv'
  OBVIOUS
<1>1. CASE UNCHANGED <<ledgerVars, crmVars>>
  <2>1. UNCHANGED <<ledgerVars, card, activity, jobRun, ready>> /\ UNCHANGED export
    BY <1>1 DEF crmVars
  <2>2. export' \in ExportType /\ ExportHolds'
    BY <2>1 DEF CrmInv, CrmTypes, ExportHolds, Passed, After, PlacesOf
  <2> QED
    BY <2>1, <2>2, ExportStepKeeps
<1>2. CASE StageNext
  <2>1. \A h \in Handlers : AbortCard(h) => CrmInv'
    BY CrmCloseKeeps DEF AbortCard
  <2> QED
    BY <1>2, <2>1, AskTransitionKeeps, TakeCardKeyKeeps, TransitionKeeps DEF StageNext
<1>3. CASE RunNext
  BY <1>3, RunMovesKeep, BecomeReadyKeeps, MaterializeKeeps DEF RunNext
<1>4. CASE ReportNext
  BY <1>4, AskReportKeeps, CountStagesKeeps, FinalizeKeeps DEF ReportNext
<1>5. CASE ExportNext
  BY <1>5, BeginExportKeeps, ExportRowKeeps, EndExportKeeps DEF ExportNext
<1> QED
  BY <1>1, <1>2, <1>3, <1>4, <1>5 DEF CrmNext

\* The invariant of the cards.
THEOREM CrmInvariant == CrmSpec => []CrmInv
BY CrmInvInit, CrmNextKeeps, PTL DEF CrmSpec

\* The rows of the CRM keep their types, and a completed run is listed once.
THEOREM CrmTypeCorrect == CrmSpec => []CrmTypeOK
<1>1. CrmInv => CrmTypeOK
  BY DEF CrmInv, CrmTypes
<1> QED
  BY <1>1, CrmInvariant, PTL

\* Where the invariant holds, the activities of a card are its path.
LEMMA InvTellsTheStage == CrmInv => ActivitiesTellTheStage
<1> SUFFICES ASSUME CrmInv PROVE ActivitiesTellTheStage
  OBVIOUS
<1>1. \A c \in Cards : CardHolds(c)
  BY DEF CrmInv
<1>2. ActivityIsAPath
  BY <1>1 DEF ActivityIsAPath, Matched, CardHolds, LeadsTo, Last
<1>3. RetriesApplyOnce
  BY <1>1 DEF RetriesApplyOnce, CardHolds, Applied
<1> QED
  BY <1>2, <1>3 DEF ActivitiesTellTheStage

\* However many people and retries move a card at once, its activities are its
\* path to the stage it is in, one for each request that was applied.
THEOREM ActivitiesStayTrue == CrmSpec => []ActivitiesTellTheStage
BY InvTellsTheStage, CrmInvariant, PTL

\* Where the invariant holds, a completed export is complete.
LEMMA InvMissesNone == CrmInv => ExportMissesNone
<1> SUFFICES ASSUME CrmInv, export.at = "completed", NEW c \in export.steady
             PROVE  Cardinality({i \in DOMAIN export.rows : export.rows[i] = c}) = 1
  BY DEF ExportMissesNone
<1>1. PICK i \in DOMAIN export.rows : PlacesOf(c) = {i}
  BY DEF CrmInv, ExportHolds
<1> QED
  BY <1>1, FS_Singleton DEF PlacesOf

\* Whoever changes the shortlist and its scores meanwhile, an export that completes
\* has every card that nobody changed, once, whatever it repeats
\* (export_shortlist_csv).
THEOREM ExportsMissNone == CrmSpec => []ExportMissesNone
BY InvMissesNone, CrmInvariant, PTL

\* Where the invariant holds, acceptance is measured on the best.
LEMMA InvMeasuresTheBest == CrmInv => CohortIsTheBest /\ EarlySnapshotsAreComplete
<1> SUFFICES ASSUME CrmInv PROVE CohortIsTheBest /\ EarlySnapshotsAreComplete
  OBVIOUS
<1>1. CohortIsTheBest
  BY DEF CrmInv, RunHolds, IsBest, CohortIsTheBest, RunsIn
<1>2. EarlySnapshotsAreComplete
  BY DEF CrmInv, RunHolds, Complete, EarlySnapshotsAreComplete
<1> QED
  BY <1>1, <1>2

\* No step changes a snapshot that is taken.
LEMMA SnapshotIsKept ==
  ASSUME CrmInv, CrmNext, NEW r \in JobRuns, jobRun[r].snapshot.taken
  PROVE  jobRun'[r].snapshot = jobRun[r].snapshot
<1>0. jobRun \in [JobRuns -> RunType] /\ jobRun[r] \in RunType /\ jobRun[r].state = "ready"
  BY CrmTypeFacts DEF CrmInv, RunHolds
<1>1. CASE StageNext
  <2>1. UNCHANGED jobRun
    BY <1>1 DEF StageNext, AskTransition, TakeCardKey, Transition, AbortCard, crmVars
  <2> QED
    BY <2>1
<1>2. CASE RunNext
  <2>1. PICK q \in JobRuns :
          \/ StartRun(q) \/ EndPartially(q) \/ BecomeReady(q) \/ OnDemandEnds(q) \/ WeekPasses(q)
          \/ \E c \in Cards, score \in 1..TopScore : Materialize(q, c, score)
    BY <1>2 DEF RunNext
  <2>2. CASE q # r
    BY <1>0, <2>1, <2>2 DEF StartRun, EndPartially, BecomeReady, OnDemandEnds, WeekPasses, Materialize
  <2>3. CASE q = r
    <3>1. OnDemandEnds(q) \/ WeekPasses(q)
      BY <1>0, <2>1, <2>3 DEF StartRun, EndPartially, BecomeReady, Completable, Materialize
    <3> QED
      BY <1>0, <2>3, <3>1 DEF OnDemandEnds, WeekPasses, RunType
  <2> QED
    BY <2>2, <2>3
<1>3. CASE ReportNext
  <2>1. PICK h \in Handlers : UNCHANGED jobRun \/ Finalize(h)
    BY <1>3 DEF ReportNext, AskReport, CountStages, crmVars
  <2>2. CASE UNCHANGED jobRun
    BY <2>2
  <2>3. CASE Finalize(h)
    <3>1. CASE NotTaken(open[h].request.arg)
      <4>1. open[h].request.arg # r
        BY <3>1 DEF NotTaken
      <4> QED
        BY <1>0, <2>3, <4>1 DEF Finalize
    <3>2. CASE ~NotTaken(open[h].request.arg)
      BY <2>3, <3>2 DEF Finalize
    <3> QED
      BY <3>1, <3>2
  <2> QED
    BY <2>1, <2>2, <2>3
<1>4. CASE ExportNext
  <2>1. UNCHANGED jobRun
    BY <1>4 DEF ExportNext, BeginExport, ExportRow, EndExport, AbortExport
  <2> QED
    BY <2>1
<1> QED
  BY <1>1, <1>2, <1>3, <1>4 DEF CrmNext

\* Acceptance is measured on the best candidates, early only on a full cohort of
\* which nobody is New, and what was measured is never changed.
THEOREM AcceptanceStaysSound == CrmSpec => AcceptanceIsSound
<1>1. CrmInv /\ [CrmNext]_<<ledgerVars, crmVars>>
        => [\A r \in JobRuns : jobRun[r].snapshot.taken => jobRun'[r].snapshot = jobRun[r].snapshot
           ]_<<ledgerVars, crmVars>>
  BY SnapshotIsKept
<1> QED
  BY <1>1, InvMeasuresTheBest, CrmInvariant, PTL DEF CrmSpec, AcceptanceIsSound, SnapshotsStay

-----------------------------------------------------------------------------
(* The lanes of MCWorkspace: what they begin with satisfies the invariants   *)
(* above, and each step of one is a step of its part.                       *)

CrmLanes == {"stages", "cohorts", "reports", "export"}

LaneInv ==
  /\ MembershipTypeOK /\ JobTypeOK /\ CrmTypeOK
  /\ lane \in MemberLanes => MembershipInv
  /\ lane = "scorecards" => JobInv /\ RequestsFit
  /\ lane \in CrmLanes => CrmInv

\* An invited user, or a recruiter, beside the owner.
LEMMA JoinedHolds ==
  ASSUME LedgerInit, Joined
  PROVE  MembershipInv
<1>1. PICK owner \in Members, m \in Members :
        /\ member = [x \in Members |->
             IF x = owner THEN [role |-> "owner", active |-> TRUE]
             ELSE IF lane = "grants" THEN [role |-> "recruiter", active |-> TRUE]
             ELSE [role |-> "none", active |-> FALSE]]
        /\ invitation = [i \in Invites |->
             IF lane = "members" /\ i = 1 THEN [of |-> m, role |-> "recruiter", state |-> "pending"]
             ELSE NoInvitation]
        /\ allowed = [x \in Members |-> {}] /\ grants = {} /\ barred = {}
  BY DEF Joined
<1>2. \A h \in Handlers : open[h] = Idle
  BY DEF LedgerInit
<1>3. MembershipTypes
  <2>1. open \in [Handlers -> Transactions]
    BY IdleHolds DEF LedgerInit
  <2>2. /\ \A x \in Members : member[x] \in [role : Roles \cup {"none"}, active : BOOLEAN]
        /\ member = [x \in Members |-> member[x]]
    BY <1>1 DEF Roles
  <2>3. member \in [Members -> [role : Roles \cup {"none"}, active : BOOLEAN]]
    BY <2>2
  <2> DEFINE Row == [of : Members \cup {Nothing}, role : (Roles \ {"owner"}) \cup {"none"},
                     state : {"none", "pending", "expired", "claimed"}]
  <2>4. NoInvitation \in Row /\ [of |-> m, role |-> "recruiter", state |-> "pending"] \in Row
    BY DEF NoInvitation, Roles
  <2> HIDE DEF Row
  <2>5. invitation \in [Invites -> Row]
    BY <1>1, <2>4
  <2> QED
    BY <1>1, <2>1, <2>3, <2>5 DEF MembershipTypes, MembershipTypeOK, Row
<1>4. AllHold /\ AllApart
  BY <1>2, IdleHolds DEF AllHold, AllApart
<1>5. \A i \in Invites :
        \/ i = 1 /\ invitation[i].of = m /\ invitation[i].state = "pending"
        \/ invitation[i].of = Nothing /\ invitation[i].state = "none"
  BY <1>1 DEF NoInvitation
<1>6. OnePending /\ InvitationsHold
  BY <1>1, <1>5, MembershipAssumption DEF OnePending, InvitationsHold
<1>7. AnOwnerStays
  <2>1. member[owner].role = "owner" /\ member[owner].active
    BY <1>1
  <2> QED
    BY <2>1 DEF AnOwnerStays, ActiveOwners
<1>8. GrantsAgree
  BY <1>1 DEF GrantsAgree
<1> QED
  BY <1>3, <1>4, <1>6, <1>7, <1>8 DEF MembershipInv

\* Candidates of a run that ended partially: new ones, or all of them moved to
\* another stage by a request each.
LEMMA StagedHolds ==
  ASSUME NEW cards, NEW stage, NEW scores \in [Cards -> 1..TopScore],
         stage = "New" \/ (stage = "Shortlisted" /\ cards = Cards),
         Staged(cards, stage, scores)
  PROVE  CrmInv
<1> DEFINE by == CHOOSE u \in Recruiters : TRUE
           key == CHOOSE k \in KeyNames : TRUE
           moved == IF stage = "New" THEN {} ELSE cards
           entry(c) == [key |-> key, request |-> [op |-> "stage", by |-> by, on |-> c, arg |-> stage]]
           way == [from |-> "New", to |-> stage]
           run(r) == [state |-> IF r = 1 THEN "partially_ready" ELSE "none",
                      scores |-> [c \in Cards |-> IF r = 1 /\ c \in cards THEN scores[c] ELSE 0],
                      cohort |-> {}, week |-> FALSE, snapshot |-> NoSnapshot]
<1>1. /\ card = [c \in Cards |-> IF c \in cards THEN [stage |-> stage, score |-> scores[c], run |-> 1] ELSE NoCard]
      /\ jobRun = [r \in JobRuns |-> run(r)]
      /\ ready = <<>>
      /\ export = NoExport
      /\ activity = [c \in Cards |-> IF c \in moved THEN <<way>> ELSE <<>>]
      /\ open = [h \in Handlers |-> Idle]
      /\ ledger = {entry(c) : c \in moved}
  BY DEF Staged
<1>2. moved = {} \/ (moved = Cards /\ stage = "Shortlisted" /\ cards = Cards)
  OBVIOUS
<1>3. moved = {} => stage = "New" \/ Cards = {}
  OBVIOUS
<1>4. 0 \in 0..TopScore /\ (\A c \in Cards : scores[c] \in 0..TopScore) /\ 0 \in 0..CohortSize
      /\ Cardinality({}) = 0 /\ IsFiniteSet({})
  BY CrmAssumption, LaneAssumption, FS_EmptySet
<1>5. NoSnapshot \in SnapshotType /\ ~NoSnapshot.taken
  BY <1>4 DEF NoSnapshot, SnapshotType
<1>6. NoExport \in ExportType /\ NoExport.at = "none" /\ NoExport.cursor = Nothing
  <2>1. <<>> \in Seq(Cards)
    OBVIOUS
  <2> QED
    BY <2>1 DEF NoExport, ExportType
<1>7. \A r \in JobRuns :
        /\ jobRun[r] = run(r) /\ run(r) \in RunType /\ run(r).state # "ready"
        /\ run(r).cohort = {} /\ run(r).snapshot = NoSnapshot
        /\ \A c \in Cards : run(r).scores[c] > 0 => c \in cards
  BY <1>1, <1>4, <1>5 DEF RunType
<1>8. way \in [from : Stages, to : Stages] /\ <<way>> \in Seq([from : Stages, to : Stages])
  BY DEF Stages
<1>9. \A c \in Cards :
        /\ card[c] \in [stage : Stages \cup {"none"}, score : 0..TopScore, run : JobRuns \cup {0}]
        /\ c \in cards => card[c].stage = stage
        /\ c \notin cards => card[c].stage = "none"
        /\ activity[c] = IF c \in moved THEN <<way>> ELSE <<>>
  BY <1>1, <1>4, LaneAssumption DEF NoCard, Stages
<1> HIDE DEF run
<1>10. IsFiniteSet(ledger)
  <2>1. CASE moved = {}
    BY <1>1, <1>4, <2>1
  <2>2. CASE moved = Cards
    <3> DEFINE f == [c \in Cards |-> entry(c)]
    <3> HIDE DEF entry
    <3>1. f \in [Cards -> ledger] /\ \A e \in ledger : \E c \in Cards : f[c] = e
      BY <1>1, <2>2
    <3>2. f \in Surjection(Cards, ledger)
      BY <3>1 DEF Surjection
    <3> HIDE DEF f
    <3> QED
      BY <3>2, CrmAssumption, FS_Surjection
  <2> QED
    BY <1>2, <2>1, <2>2
<1>11. CrmTypes
  <2>1. card \in [Cards -> [stage : Stages \cup {"none"}, score : 0..TopScore, run : JobRuns \cup {0}]]
    <3>1. card = [c \in Cards |-> card[c]]
      BY <1>1
    <3> QED
      BY <1>9, <3>1
  <2>2. jobRun \in [JobRuns -> RunType]
    BY <1>1, <1>7
  <2>3. ToSet(ready) = {} /\ IsInjective(ready) /\ ready \in Seq(JobRuns)
    BY <1>1 DEF ToSet, IsInjective
  <2>4. RunsIn("ready") = {}
    BY <1>7 DEF RunsIn
  <2>5. activity \in [Cards -> Seq([from : Stages, to : Stages])]
    <3> DEFINE S == Seq([from : Stages, to : Stages])
               path(c) == IF c \in moved THEN <<way>> ELSE <<>>
    <3>1. activity = [c \in Cards |-> path(c)]
      BY <1>1
    <3>2. <<>> \in S /\ <<way>> \in S
      BY <1>8
    <3>3. \A c : path(c) \in S
      BY <3>2
    <3> HIDE DEF S, path
    <3>4. activity \in [Cards -> S]
      BY <3>1, <3>3
    <3> QED
      BY <3>4 DEF S
  <2>6. open \in [Handlers -> CrmTransactions]
    BY <1>1 DEF CrmTransactions
  <2> QED
    BY <1>1, <1>6, <1>10, <2>1, <2>2, <2>3, <2>4, <2>5, <2>6 DEF CrmTypes, CrmTypeOK, RunType
<1>12. CardsHold /\ KeysApart
  BY <1>1 DEF CardsHold, KeysApart, HoldsCard, Idle
<1>13. ASSUME NEW c \in Cards
       PROVE  CardHolds(c)
  <2>1. CASE moved = {}
    <3>1. Applied(c) = {} /\ activity[c] = <<>> /\ Len(activity[c]) = 0
      BY <1>1, <1>9, <2>1 DEF Applied
    <3>2. card[c].stage # "none" => card[c].stage = "New"
      BY <1>3, <1>9, <2>1
    <3> QED
      BY <1>4, <3>1, <3>2 DEF CardHolds, LeadsTo
  <2>2. CASE moved = Cards /\ stage = "Shortlisted" /\ cards = Cards
    <3>1. activity[c] = <<way>> /\ card[c].stage = "Shortlisted"
      BY <1>9, <2>2
    <3>2. /\ Len(<<way>>) = 1 /\ DOMAIN <<way>> = {1} /\ <<way>>[1] = way /\ <<way>> # <<>>
          /\ way.from = "New" /\ way.to = "Shortlisted"
      BY <2>2
    <3>3. way.to \in AllowedTransitions[way.from]
      BY <3>2 DEF AllowedTransitions
    <3>4. Applied(c) = {entry(c)}
      BY <1>1, <2>2 DEF Applied
    <3>5. Cardinality(Applied(c)) = 1
      BY <3>4, FS_Singleton
    <3> HIDE DEF way
    <3>6. LeadsTo(<<way>>, "Shortlisted")
      BY <3>2, <3>3 DEF LeadsTo
    <3> QED
      BY <3>1, <3>2, <3>5, <3>6 DEF CardHolds
  <2> QED
    BY <1>2, <2>1, <2>2
<1>14. ASSUME NEW r \in JobRuns
       PROVE  RunHolds(jobRun[r])
  <2>1. \A c \in Cards : c \in cards => card[c].stage # "none"
    BY <1>9
  <2>2. \A c \in Cards : jobRun[r].scores[c] > 0 => card[c].stage # "none"
    BY <1>7, <2>1
  <2>3. Cardinality(jobRun[r].cohort) <= CohortSize
    <3>1. jobRun[r].cohort = {}
      BY <1>7
    <3>2. 0 <= CohortSize
      BY <1>4
    <3> QED
      BY <1>4, <3>1, <3>2
  <2>4. jobRun[r].state # "ready" /\ ~jobRun[r].snapshot.taken
    BY <1>5, <1>7
  <2> QED
    BY <2>2, <2>3, <2>4 DEF RunHolds
<1>15. ExportHolds
  BY <1>1, <1>6 DEF ExportHolds
<1> QED
  BY <1>11, <1>12, <1>13, <1>14, <1>15 DEF CrmInv

\* Every lane begins with an empty ledger, or with that of its cards.
LEMMA LedgersStart ==
  ASSUME Init
  PROVE  /\ CrmInv
         /\ \A e \in ledger : e.request.op = "stage"
<1>1. lane \notin {"stages", "reports", "export"} => LedgerInit /\ CrmInit
  BY DEF Init
<1>2. lane \in {"stages", "reports", "export"} =>
        \/ \E cards : Staged(cards, "New", AllOnes)
        \/ Staged(Cards, "Shortlisted", LastIsLow)
  BY DEF Init
<1>4. AllOnes \in [Cards -> 1..TopScore] /\ LastIsLow \in [Cards -> 1..TopScore]
  <2>1. 1 \in 1..TopScore /\ TopScore \in 1..TopScore
    BY CrmAssumption, LaneAssumption
  <2> QED
    BY <2>1 DEF AllOnes, LastIsLow
<1>3. LedgerInit \/ (\E cards, stage, scores : Staged(cards, stage, scores)) => \A e \in ledger : e.request.op = "stage"
  BY DEF LedgerInit, Staged
<1> QED
  BY <1>1, <1>2, <1>3, <1>4, CrmInvInit, StagedHolds

\* Every lane begins with the invariant of its part.
LEMMA LanesStart == Init => LaneInv
<1> SUFFICES ASSUME Init PROVE LaneInv
  OBVIOUS
<1>1. lane \in MemberLanes => LedgerInit /\ CrmInit /\ Joined
  BY DEF Init, MemberLanes
<1>2. lane \notin MemberLanes => MembershipInit
  BY DEF Init
<1>3. lane \notin {"stages", "reports", "export"} => LedgerInit /\ CrmInit
  BY DEF Init
<1>4. lane \in MemberLanes => MembershipInv
  BY <1>1, JoinedHolds
<1>5. MembershipTypeOK
  <2>1. CASE lane \in MemberLanes
    BY <1>4, <2>1 DEF MembershipInv, MembershipTypes
  <2>2. CASE MembershipInit
    BY <2>2 DEF MembershipInit, MembershipTypeOK, Roles, NoInvitation
  <2> QED
    BY <1>2, <2>1, <2>2
<1>6. CrmInv
  BY LedgersStart
<1>7. JobInit
  BY DEF Init
<1>8. LedgerInit => JobInv /\ RequestsFit
  BY <1>7, JobInvInit, FS_EmptySet DEF LedgerInit, RequestsFit, Idle
<1>9. JobTypeOK
  BY <1>7, JobAssumption DEF JobInit, NewJob, JobTypeOK, CriteriaOf
<1> QED
  BY <1>3, <1>4, <1>5, <1>6, <1>8, <1>9 DEF LaneInv, CrmInv, CrmTypes

\* What happens to cards in a lane happens to them in the CRM.
LEMMA LanesOfCards == CrmStep => lane \in CrmLanes /\ CrmNext
<1> SUFFICES ASSUME CrmStep PROVE lane \in CrmLanes /\ CrmNext
  OBVIOUS
<1>1. lane \in CrmLanes
  BY DEF CrmStep, CrmLanes
<1>2. 1 \in JobRuns /\ 2 \in JobRuns
  BY LaneAssumption
<1>3. StageNext \/ RunNext \/ ReportNext \/ ExportNext => CrmNext
  BY DEF CrmNext
<1>4. BecomeReady(1) \/ OnDemandEnds(1) \/ WeekPasses(1) => RunNext
  BY <1>2 DEF RunNext
<1>5. StartRun(2) \/ (\E c \in Cards, score \in 1..TopScore : Materialize(2, c, score)) => RunNext
  BY <1>2 DEF RunNext
<1> QED
  BY <1>1, <1>3, <1>4, <1>5 DEF CrmStep

\* A step of a lane keeps the invariant of its part, and leaves the rows of the
\* other parts alone.
LEMMA LanesGoOn == LaneInv /\ [Next]_vars => LaneInv'
<1> SUFFICES ASSUME LaneInv, [Next]_vars PROVE LaneInv'
  OBVIOUS
<1>1. UNCHANGED lane
  BY DEF Next, vars
<1>2. UNCHANGED membershipVars => MembershipTypeOK'
  BY DEF LaneInv, MembershipTypeOK, membershipVars
<1>3. UNCHANGED jobVars => JobTypeOK'
  BY DEF LaneInv, JobTypeOK, jobVars
<1>4. UNCHANGED crmVars => CrmTypeOK'
  BY DEF LaneInv, CrmTypeOK, crmVars, RunsIn
<1>5. CASE lane \in MemberLanes /\ MemberStep
  <2>1. MembershipNext /\ UNCHANGED <<jobVars, crmVars>>
    BY <1>5 DEF MemberStep
  <2>2. MembershipInv'
    BY <1>5, <2>1, MembershipNextKeeps DEF LaneInv
  <2>3. lane' # "scorecards" /\ lane' \notin CrmLanes
    BY <1>1, <1>5 DEF MemberLanes, CrmLanes
  <2> QED
    BY <1>3, <1>4, <2>1, <2>2, <2>3 DEF LaneInv, MembershipInv, MembershipTypes
<1>6. CASE lane = "scorecards" /\ JobStep
  <2>1. JobNext /\ UNCHANGED <<membershipVars, crmVars>>
    BY <1>6 DEF JobStep
  <2>2. JobInv' /\ JobTypeOK' /\ RequestsFit'
    BY <1>6, <2>1, JobNextKeeps, JobNextFits DEF LaneInv
  <2>3. lane' \notin MemberLanes /\ lane' \notin CrmLanes
    BY <1>1, <1>6 DEF MemberLanes, CrmLanes
  <2> QED
    BY <1>2, <1>4, <2>1, <2>2, <2>3 DEF LaneInv
<1>7. CASE CrmStep
  <2>1. lane \in CrmLanes /\ UNCHANGED <<membershipVars, jobVars>>
    BY <1>7 DEF CrmStep, CrmLanes
  <2>2. CrmNext
    BY <1>7, LanesOfCards
  <2>3. CrmInv'
    BY <2>1, <2>2, CrmNextKeeps DEF LaneInv
  <2>4. lane' \notin MemberLanes /\ lane' # "scorecards"
    BY <1>1, <2>1 DEF MemberLanes, CrmLanes
  <2> QED
    BY <1>2, <1>3, <2>1, <2>3, <2>4 DEF LaneInv, CrmInv, CrmTypes
<1>8. CASE lane = "match" /\ UNCHANGED <<ledgerVars, membershipVars, jobVars, crmVars>>
  <2>1. lane' = "match"
    BY <1>1, <1>8
  <2> QED
    BY <1>2, <1>3, <1>4, <1>8, <2>1 DEF LaneInv, MemberLanes, CrmLanes
<1>9. CASE UNCHANGED vars
  <2>1. UNCHANGED <<ledgerVars, membershipVars>> /\ UNCHANGED <<ledgerVars, jobVars>>
        /\ UNCHANGED <<ledgerVars, crmVars>>
    BY <1>9 DEF vars
  <2>2. lane \in MemberLanes => MembershipInv'
    BY <2>1, MembershipNextKeeps DEF LaneInv
  <2>3. lane = "scorecards" => JobInv' /\ RequestsFit'
    BY <2>1, JobNextKeeps, JobNextFits DEF LaneInv
  <2>4. lane \in CrmLanes => CrmInv'
    BY <2>1, CrmNextKeeps DEF LaneInv
  <2> QED
    BY <1>1, <1>2, <1>3, <1>4, <2>1, <2>2, <2>3, <2>4 DEF LaneInv
<1> QED
  BY <1>5, <1>6, <1>7, <1>8, <1>9 DEF Next

\* In every lane the rows of the workspace keep their types: nobody becomes an
\* owner, a draft has unique keys, a run that is completed is listed once.
THEOREM WorkspaceTypeCorrect == Spec => []WorkspaceTypeOK
<1>1. LaneInv => WorkspaceTypeOK
  BY DEF LaneInv, WorkspaceTypeOK
<1> QED
  BY <1>1, LanesStart, LanesGoOn, PTL DEF Spec

-----------------------------------------------------------------------------
(* The lanes of MCWorkspace: what each part promises holds in all of them.  *)
(* The parts share the ledger, so a lane must not enter into it what counts *)
(* for another part.                                                       *)

MemberOps == {"role", "remove", "invite", "claim", "grant", "revoke"}

\* A step completes requests for these operations only.
Enters(ops) ==
  /\ ledger \subseteq ledger'
  /\ \A e \in ledger' : e \in ledger \/ e.request.op \in ops

\* A transaction of a member that ends with a change enters its own request.
LEMMA MembersEnter ==
  ASSUME MembershipTypes, MembershipNext
  PROVE  Enters(MemberOps)
<1>1. \A h \in Handlers : open[h].at # "idle" => open[h].request.op \in MemberOps
  BY DEF MembershipTypes, Transactions, ChangeTx, InviteTx, ReplaceTx, ClaimTx, AskedTx,
         GrantTx, RevokeTx, InviteRequests, Idle, MemberOps
<1>2. UNCHANGED ledger => Enters(MemberOps)
  BY DEF Enters
<1>3. ASSUME NEW h \in Handlers, open[h].at # "idle", ledger' = Recorded(h)
      PROVE  Enters(MemberOps)
  BY <1>1, <1>3 DEF Enters, Recorded
<1>4. ASSUME NEW h \in Handlers, NEW key \in KeyNames, MembershipRequest(h, key)
      PROVE  UNCHANGED ledger
  BY <1>4 DEF MembershipRequest, AskChange, AskInvitation, AskClaim, AskGrant, Begin
<1>5. ASSUME NEW h \in Handlers,
             \/ TakeMemberKey(h) \/ CheckOwners(h) \/ CheckInvitee(h) \/ LockPending(h)
             \/ LockInvitation(h) \/ LockRecruiter(h) \/ Abort(h)
      PROVE  UNCHANGED ledger
  BY <1>5 DEF TakeMemberKey, TakeKey, CheckOwners, CheckInvitee, LockPending, LockInvitation,
              LockRecruiter, Abort
<1>6. ASSUME NEW h \in Handlers, ChangeMember(h) PROVE Enters(MemberOps)
  BY <1>2, <1>3, <1>6 DEF ChangeMember
<1>7. ASSUME NEW h \in Handlers, Invite(h), At(h, "replacing", "invite") PROVE Enters(MemberOps)
  BY <1>2, <1>3, <1>7 DEF Invite, At
<1>8. ASSUME NEW h \in Handlers, Claim(h), At(h, "claiming", "claim") PROVE Enters(MemberOps)
  BY <1>2, <1>3, <1>8 DEF Claim, At
<1>9. ASSUME NEW h \in Handlers, Grant(h), At(h, "keyed", "grant") PROVE Enters(MemberOps)
  BY <1>2, <1>3, <1>9 DEF Grant, At
<1>10. ASSUME NEW h \in Handlers, Revoke(h), At(h, "keyed", "revoke") PROVE Enters(MemberOps)
  BY <1>2, <1>3, <1>10 DEF Revoke, At
<1>11. ASSUME NEW i \in Invites, InvitationExpires(i) PROVE UNCHANGED ledger
  BY <1>11 DEF InvitationExpires, ledgerVars
<1> QED
  BY <1>2, <1>4, <1>5, <1>6, <1>7, <1>8, <1>9, <1>10, <1>11 DEF MembershipNext

\* So does a transaction that changes the job.
LEMMA JobsEnter ==
  ASSUME JobTypes, JobNext
  PROVE  Enters(Edits \cup {"generate"})
<1> DEFINE ops == Edits \cup {"generate"}
<1>1. \A h \in Handlers : open[h].at # "idle" => open[h].request.op \in ops
  BY JobContents DEF JobRequests
<1>2. UNCHANGED ledger => Enters(ops)
  BY DEF Enters
<1>3. ASSUME NEW h \in Handlers, open[h].at # "idle", ledger' = Recorded(h)
      PROVE  Enters(ops)
  BY <1>1, <1>3 DEF Enters, Recorded
<1>4. PICK h \in Handlers :
        \/ \E by \in Users, op \in Edits \cup {"generate"}, revision \in 0..MaxEntries, key \in KeyNames :
             AskChangeOfJob(h, by, op, revision, key)
        \/ LockJob(h) \/ TakeJobKey(h) \/ Extract(h)
        \/ \E answer \in Extractions \cup {<<>>} : WriteExtraction(h, answer)
        \/ /\ open[h].at = "keyed" /\ open[h].request.op \in Edits
           /\ \E submitted \in Drafts \cup {<<>>} : Edit(h, submitted)
        \/ AbortEdit(h)
  BY DEF JobNext
<1>5. ASSUME NEW by \in Users, NEW op \in Edits \cup {"generate"}, NEW revision \in 0..MaxEntries,
             NEW key \in KeyNames, AskChangeOfJob(h, by, op, revision, key)
      PROVE  Enters(ops)
  <2>1. UNCHANGED ledger
    BY <1>5 DEF AskChangeOfJob, BeginJob
  <2> QED
    BY <1>2, <2>1
<1>6. CASE LockJob(h) \/ TakeJobKey(h) \/ Extract(h) \/ AbortEdit(h)
  BY <1>2, <1>6 DEF LockJob, TakeJobKey, TakeKey, Extract, AbortEdit
<1>7. ASSUME NEW answer \in Extractions \cup {<<>>}, WriteExtraction(h, answer)
      PROVE  Enters(ops)
  BY <1>2, <1>3, <1>7 DEF WriteExtraction, At
<1>8. ASSUME open[h].at = "keyed", NEW submitted \in Drafts \cup {<<>>}, Edit(h, submitted)
      PROVE  Enters(ops)
  BY <1>2, <1>3, <1>8 DEF Edit, Accept
<1> QED
  BY <1>4, <1>5, <1>6, <1>7, <1>8

\* And one that moves a card.
LEMMA CardsEnter ==
  ASSUME CrmTypes, CrmNext
  PROVE  Enters({"stage"})
<1>1. UNCHANGED ledger => Enters({"stage"})
  BY DEF Enters
<1>2. CASE StageNext
  <2>1. PICK h \in Handlers :
          \/ \E by \in Recruiters, c \in Cards, target \in Stages \ {"New"}, key \in KeyNames :
               AskTransition(h, by, c, target, key)
          \/ TakeCardKey(h) \/ Transition(h) \/ AbortCard(h)
    BY <1>2 DEF StageNext
  <2>2. CASE Transition(h)
    BY <1>1, <2>2 DEF Transition, At, Enters, Recorded
  <2> QED
    BY <1>1, <2>1, <2>2 DEF AskTransition, TakeCardKey, TakeKey, AbortCard
<1>3. RunNext \/ ReportNext \/ ExportNext => UNCHANGED ledger
  BY DEF RunNext, ReportNext, ExportNext, StartRun, EndPartially, BecomeReady, OnDemandEnds,
         WeekPasses, Materialize, AskReport, CountStages, Finalize, BeginExport, ExportRow,
         EndExport, AbortExport, ledgerVars
<1> QED
  BY <1>1, <1>2, <1>3 DEF CrmNext

\* What the parts promise of every state.
JobHolds == EditsBuildOnWhatTheySaw /\ ScorecardsAreHonest

CrmHolds ==
  /\ ActivitiesTellTheStage /\ ExportMissesNone
  /\ CohortIsTheBest /\ EarlySnapshotsAreComplete

\* It holds of the parts that a lane leaves alone.
RestHolds ==
  /\ lane \notin MemberLanes => MembershipsAgree
  /\ lane # "scorecards" => JobHolds
  /\ lane \notin CrmLanes => CrmHolds

\* Of the part that moves it follows from the invariant.
LEMMA PartsHold == LaneInv /\ RestHolds => MembershipsAgree /\ JobHolds /\ CrmHolds
<1>1. LaneInv /\ lane \in MemberLanes => MembershipsAgree
  BY InvAgrees DEF LaneInv
<1>2. LaneInv /\ lane = "scorecards" => JobHolds
  BY DEF LaneInv, JobInv, JobHolds
<1>3. LaneInv /\ lane \in CrmLanes => CrmHolds
  BY InvTellsTheStage, InvMissesNone, InvMeasuresTheBest DEF LaneInv, CrmHolds
<1> QED
  BY <1>1, <1>2, <1>3 DEF RestHolds

\* The members rest.
LEMMA MembersRest == MembershipsAgree /\ UNCHANGED membershipVars => MembershipsAgree'
BY DEF MembershipsAgree, AnOwnerStays, ActiveOwners, OneGoodInvitation, Pending, GrantsAgree,
       membershipVars

\* The job rests.
LEMMA JobRests ==
  ASSUME JobHolds, UNCHANGED jobVars, NEW ops, Enters(ops), ops \cap (Edits \cup {"generate"}) = {}
  PROVE  JobHolds'
<1>1. Changes' = Changes
  BY DEF Changes, Enters
<1> QED
  BY <1>1 DEF JobHolds, EditsBuildOnWhatTheySaw, ScorecardsAreHonest, InferencesAreConfirmed,
              StatedWasStated, jobVars

\* The cards rest.
LEMMA CardsRest ==
  ASSUME CrmHolds, UNCHANGED crmVars, NEW ops, Enters(ops), "stage" \notin ops
  PROVE  CrmHolds'
<1>1. \A c : Applied(c)' = Applied(c)
  BY DEF Applied, Enters
<1>2. RetriesApplyOnce'
  BY <1>1 DEF CrmHolds, ActivitiesTellTheStage, RetriesApplyOnce, Applied, crmVars
<1>3. ActivityIsAPath'
  BY DEF CrmHolds, ActivitiesTellTheStage, ActivityIsAPath, Matched, crmVars
<1>4. ExportMissesNone'
  BY DEF CrmHolds, ExportMissesNone, crmVars
<1>5. CohortIsTheBest' /\ EarlySnapshotsAreComplete'
  BY DEF CrmHolds, CohortIsTheBest, EarlySnapshotsAreComplete, RunsIn, crmVars
<1> QED
  BY <1>2, <1>3, <1>4, <1>5 DEF CrmHolds, ActivitiesTellTheStage

\* The parts that a lane leaves alone begin with what they promise.
LEMMA RestStarts == Init => RestHolds
<1> SUFFICES ASSUME Init PROVE RestHolds
  OBVIOUS
<1>1. ASSUME MembershipInit
      PROVE  MembershipsAgree
  <2>1. PICK owner \in Members :
          member = [m \in Members |-> IF m = owner THEN [role |-> "owner", active |-> TRUE]
                                      ELSE [role |-> "none", active |-> FALSE]]
    BY <1>1 DEF MembershipInit
  <2>2. AnOwnerStays
    BY <2>1 DEF AnOwnerStays, ActiveOwners
  <2>3. \A m \in Members : Pending(m) = {}
    BY <1>1 DEF MembershipInit, NoInvitation, Pending
  <2>4. OneGoodInvitation
    BY <2>3, FS_EmptySet DEF OneGoodInvitation
  <2>5. GrantsAgree
    BY <1>1 DEF MembershipInit, GrantsAgree
  <2> QED
    BY <2>2, <2>4, <2>5 DEF MembershipsAgree
<1>2. JobInit
  BY DEF Init
<1>3. EditsBuildOnWhatTheySaw
  <2>1. Changes = {}
    BY LedgersStart DEF Changes, Edits
  <2>2. 0..(0 - 1) = {}
    OBVIOUS
  <2> QED
    BY <1>2, <2>1, <2>2 DEF JobInit, NewJob, EditsBuildOnWhatTheySaw
<1>4. ScorecardsAreHonest
  BY <1>2 DEF JobInit, NewJob, ScorecardsAreHonest, InferencesAreConfirmed, StatedWasStated,
              CriteriaOf
<1>5. CrmHolds
  BY LedgersStart, InvTellsTheStage, InvMissesNone, InvMeasuresTheBest DEF CrmHolds
<1> QED
  BY <1>1, <1>3, <1>4, <1>5 DEF Init, RestHolds, JobHolds

\* A step of a lane is one of its part, and the other parts rest.
LEMMA LanesMove ==
  ASSUME LaneInv, Next
  PROVE  \/ /\ lane \in MemberLanes /\ MembershipNext /\ Enters(MemberOps)
            /\ UNCHANGED <<jobVars, crmVars>>
         \/ /\ lane = "scorecards" /\ JobNext /\ Enters(Edits \cup {"generate"})
            /\ UNCHANGED <<membershipVars, crmVars>>
         \/ /\ lane \in CrmLanes /\ CrmNext /\ Enters({"stage"})
            /\ UNCHANGED <<membershipVars, jobVars>>
         \/ UNCHANGED <<ledgerVars, membershipVars, jobVars, crmVars>>
<1>1. ASSUME lane \in MemberLanes, MemberStep
      PROVE  MembershipNext /\ Enters(MemberOps) /\ UNCHANGED <<jobVars, crmVars>>
  BY <1>1, MembersEnter DEF MemberStep, LaneInv, MembershipInv
<1>2. ASSUME lane = "scorecards", JobStep
      PROVE  JobNext /\ Enters(Edits \cup {"generate"}) /\ UNCHANGED <<membershipVars, crmVars>>
  BY <1>2, JobsEnter DEF JobStep, LaneInv, JobInv
<1>3. ASSUME CrmStep
      PROVE  /\ lane \in CrmLanes /\ CrmNext /\ Enters({"stage"})
             /\ UNCHANGED <<membershipVars, jobVars>>
  <2>1. lane \in CrmLanes /\ CrmNext /\ UNCHANGED <<membershipVars, jobVars>>
    BY <1>3, LanesOfCards DEF CrmStep
  <2> QED
    BY <2>1, CardsEnter DEF LaneInv, CrmInv
<1> QED
  BY <1>1, <1>2, <1>3 DEF Next

\* The parts that a lane leaves alone keep what they promise.
LEMMA RestGoesOn == LaneInv /\ RestHolds /\ [Next]_vars => RestHolds'
<1> SUFFICES ASSUME LaneInv, RestHolds, [Next]_vars PROVE RestHolds'
  OBVIOUS
<1>1. UNCHANGED lane
  BY DEF Next, vars
<1>2. /\ MemberOps \cap (Edits \cup {"generate"}) = {} /\ "stage" \notin MemberOps
      /\ "stage" \notin Edits \cup {"generate"} /\ {"stage"} \cap (Edits \cup {"generate"}) = {}
  BY DEF MemberOps, Edits
<1>3. MembershipsAgree /\ JobHolds /\ CrmHolds
  BY PartsHold
<1>4. CASE lane \in MemberLanes /\ Enters(MemberOps) /\ UNCHANGED <<jobVars, crmVars>>
  <2>1. UNCHANGED jobVars /\ UNCHANGED crmVars
    BY <1>4
  <2>2. JobHolds' /\ CrmHolds'
    BY <1>2, <1>3, <1>4, <2>1, JobRests, CardsRest
  <2> QED
    BY <1>1, <1>4, <2>2 DEF RestHolds
<1>5. CASE /\ lane = "scorecards" /\ Enters(Edits \cup {"generate"})
           /\ UNCHANGED <<membershipVars, crmVars>>
  <2>1. UNCHANGED membershipVars /\ UNCHANGED crmVars
    BY <1>5
  <2>2. MembershipsAgree' /\ CrmHolds'
    BY <1>2, <1>3, <1>5, <2>1, MembersRest, CardsRest
  <2> QED
    BY <1>1, <1>5, <2>2 DEF RestHolds
<1>6. CASE lane \in CrmLanes /\ Enters({"stage"}) /\ UNCHANGED <<membershipVars, jobVars>>
  <2>1. UNCHANGED membershipVars /\ UNCHANGED jobVars
    BY <1>6
  <2>2. MembershipsAgree' /\ JobHolds'
    BY <1>2, <1>3, <1>6, <2>1, MembersRest, JobRests
  <2> QED
    BY <1>1, <1>6, <2>2 DEF RestHolds
<1>7. CASE UNCHANGED <<ledgerVars, membershipVars, jobVars, crmVars>>
  <2>1. Enters({}) /\ UNCHANGED membershipVars /\ UNCHANGED jobVars /\ UNCHANGED crmVars
    BY <1>7 DEF Enters, ledgerVars
  <2>2. MembershipsAgree' /\ JobHolds' /\ CrmHolds'
    BY <1>3, <2>1, MembersRest, JobRests, CardsRest
  <2> QED
    BY <2>2 DEF RestHolds
<1> QED
  BY <1>4, <1>5, <1>6, <1>7, LanesMove DEF vars

\* In every lane, from every state that one begins in: the tables of the members
\* agree, no revision is overwritten unseen, scorecards are honest, activities tell
\* the stage, and an export misses nobody.
THEOREM WorkspaceStaysSafe ==
  Spec => [](/\ MembershipsAgree
             /\ EditsBuildOnWhatTheySaw
             /\ ScorecardsAreHonest
             /\ ActivitiesTellTheStage
             /\ ExportMissesNone)
<1>1. LaneInv /\ RestHolds => /\ MembershipsAgree
                              /\ EditsBuildOnWhatTheySaw
                              /\ ScorecardsAreHonest
                              /\ ActivitiesTellTheStage
                              /\ ExportMissesNone
  BY PartsHold DEF JobHolds, CrmHolds
<1> QED
  BY <1>1, LanesStart, LanesGoOn, RestStarts, RestGoesOn, PTL DEF Spec

\* And no step of a lane claims an invitation that is barred, or changes what was
\* measured; what is measured is the best candidates of a run.
THEOREM WorkspaceStepsAreSafe == Spec => OldInvitationsAreVoid /\ AcceptanceIsSound
<1>1. LaneInv /\ [Next]_vars
        => [\A i \in barred : invitation'[i].state # "claimed" \/ invitation[i].state = "claimed"
           ]_<<ledgerVars, membershipVars>>
  <2> SUFFICES ASSUME LaneInv, [Next]_vars, NEW i \in barred, invitation'[i].state = "claimed",
                      ~ UNCHANGED invitation
               PROVE  invitation[i].state = "claimed"
    OBVIOUS
  <2>1. Next
    BY DEF vars, membershipVars
  <2>2. MembershipInv /\ MembershipNext
    BY <2>1, LanesMove DEF LaneInv, membershipVars
  <2> QED
    BY <2>2, BarredAreNotClaimed
<1>2. LaneInv /\ [Next]_vars
        => [\A r \in JobRuns : jobRun[r].snapshot.taken => jobRun'[r].snapshot = jobRun[r].snapshot
           ]_<<ledgerVars, crmVars>>
  <2> SUFFICES ASSUME LaneInv, [Next]_vars, NEW r \in JobRuns, jobRun[r].snapshot.taken,
                      ~ UNCHANGED jobRun
               PROVE  jobRun'[r].snapshot = jobRun[r].snapshot
    OBVIOUS
  <2>1. Next
    BY DEF vars, crmVars
  <2>2. CrmInv /\ CrmNext
    BY <2>1, LanesMove DEF LaneInv, crmVars
  <2> QED
    BY <2>2, SnapshotIsKept
<1>3. LaneInv /\ RestHolds => CohortIsTheBest /\ EarlySnapshotsAreComplete
  BY PartsHold DEF CrmHolds
<1> QED
  BY <1>1, <1>2, <1>3, LanesStart, LanesGoOn, RestStarts, RestGoesOn, PTL
     DEF Spec, OldInvitationsAreVoid, AcceptanceIsSound, SnapshotsStay

\* The lanes begin with what can be scored and compiled, and keep it.
LEMMA LanesScore ==
  /\ Init => MatchInv /\ PlanInit
  /\ MatchInv /\ PlanInit /\ [Next]_vars => (MatchInv /\ PlanInit)' /\ [MatchNext]_matchVars
<1>1. Init => MatchInv /\ PlanInit
  BY MatchInvInit DEF Init
<1>2. ASSUME MatchInv, PlanInit, [Next]_vars
      PROVE  (MatchInv /\ PlanInit)' /\ [MatchNext]_matchVars
  <2>1. UNCHANGED asked
    BY <1>2 DEF Next, vars
  <2>2. [MatchNext]_matchVars
    BY <1>2 DEF Next, vars
  <2>3. MatchInv'
    BY <1>2, <2>2, MatchNextKeeps
  <2>4. PlanInit'
    BY <1>2, <2>1 DEF PlanInit
  <2> QED
    BY <2>2, <2>3, <2>4
<1> QED
  BY <1>1, <1>2

\* Every plan covers every title in every industry, that of the job first
\* (QueryPlanner.compile).
THEOREM PlansStayInOrder == Spec => []PlansCoverInOrder
<1>1. PlanInit => PlansCoverInOrder
  BY EveryPlanCovers DEF PlansCoverInOrder
<1> QED
  BY <1>1, LanesScore, PTL DEF Spec

\* A score loses no point to rounding, only evidence makes a near match, jobs held
\* at the same time count once, and nothing that is learned is hidden
\* (MatchingEngine.evaluate, _allocate, _years_experience).
THEOREM MatchesStaySound == Spec => MatchesAreSound
<1>1. MatchInv => (lane = "match" => PointsAddUp /\ HardGatesHold /\ YearsCountOnce)
  BY MatchInvIsSound
<1>2. MatchInv /\ [MatchNext]_matchVars =>
        [profile' # profile =>
           \A a \in Evaluation(scored, profile) : \A b \in Evaluation(scored', profile') :
             a.key = b.key => a.max = b.max /\ (a.state = b.state => a.points = b.points)]_matchVars
  BY StepRenormalizesNothing
<1> QED
  BY <1>1, <1>2, LanesScore, PTL DEF Spec, MatchesAreSound, NotRenormalized
=============================================================================
