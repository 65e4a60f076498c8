---------------------------- MODULE PeopleProofs ----------------------------
(***************************************************************************)
(* What holds of candidates, of the deletions of privacy requests and of    *)
(* the retention of contacts, for any number of rows, identifiers,          *)
(* requests, workers, processes and days: nobody on the suppression list    *)
(* comes back, a profile URL stays with one candidate, nothing of a         *)
(* completed deletion is left, and no contact outlives its policies.        *)
(*                                                                         *)
(* The first part rests on the gate.  Who ingests a person or applies a     *)
(* payload holds the locks of the person's digests, so that what was read   *)
(* under them is still true when it is written; and the suppression list    *)
(* grows only while nobody holds any.  The second part rests on how the     *)
(* expiry of a contact follows from its columns.                            *)
(***************************************************************************)
EXTENDS MCPeople, TLAPS

-----------------------------------------------------------------------------
(* The inductive invariant.                                                 *)

\* Two open transactions never hold the lock of one digest.
LocksApart ==
  \A v, w \in Workers : v # w /\ HoldsGate(v) /\ HoldsGate(w)
                          => work[v].locks \cap work[w].locks = {}

\* A provider id on the suppression list is nobody's.
ListedKeysAreGone == \A k \in Keys \cap suppressed : identity[k].row = NoRow

\* Only a person has identities, addresses and evidence of a match.
OnlyPersonsHaveData ==
  /\ \A k \in Keys : IF identity[k].row = NoRow THEN identity[k].url = NoUrl
                     ELSE row[identity[k].row] = "person"
  /\ \A r \in Rows : emails[r] # {} \/ evidence[r] = "personal" => row[r] = "person"

\* What an ingestion read under its locks is still so.
IngestionsHold ==
  \A w \in Workers : work[w].at = "ingest" =>
    /\ work[w].locks \cap suppressed = {}
    /\ work[w].url # NoUrl => work[w].url \in work[w].locks
    /\ work[w].row = NoRow => work[w].identity \in work[w].locks
    /\ work[w].identity \notin suppressed
    /\ work[w].row = identity[work[w].identity].row
    /\ work[w].url # NoUrl =>
         \A k \in Keys : identity[k].url = work[w].url => identity[k].row = work[w].row

\* The candidates a payload was read for are those of their identities, unless
\* they have been suppressed since.
ReadsHold ==
  \A w \in Workers : work[w].at = "read" =>
    \A k \in Keys : work[w].rowOf[k] # NoRow =>
      /\ work[w].rowOf[k] \in asked[work[w].request]
      /\ k \in suppressed \/ identity[k].row = work[w].rowOf[k]

\* An address is brought to a person.
PayloadsHold ==
  \A w \in Workers : work[w].at = "apply" =>
    \A r \in Rows : work[w].found[r] # {} => row[r] = "person"

\* A snapshot holds the data of candidates of its request.
ObjectsOfRequests ==
  \A q \in Requests : \A k \in object[q] : k \in suppressed \/ identity[k].row \in asked[q]

\* It has a row, or its transaction is open, or it was lost.
ObjectsAreKnown ==
  \A q \in Requests : object[q] # {} =>
    \/ reference[q].at # "none"
    \/ q \in lost
    \/ \E w \in Workers : work[w].at = "apply" /\ work[w].request = q

\* The states of a deletion whose candidate is redacted.
Executed == {"executing", "completed"}

\* A request that executes has suppressed its digests and redacted its candidate.
AsksHold ==
  \A p \in Asks :
    /\ ask[p].state # "none" => ask[p].row \in Rows
    /\ IF ask[p].state \in Executed
       THEN /\ ask[p].kind = "deletion"
            /\ row[ask[p].row] = "redacted"
            /\ ask[p].digests \subseteq suppressed
       ELSE ask[p].digests = {}

\* What was collected before the gate belongs to the candidate of the request,
\* or has been suppressed since; and so do the snapshots that hold it.
CollectionsHold ==
  \A m \in Managers : call[m].at = "collected" =>
    /\ call[m].ask \in Asks
    /\ ask[call[m].ask].kind = "deletion"
    /\ ask[call[m].ask].state \in {"approved", "executing"}
    /\ \A k \in Keys \cap call[m].digests :
         /\ k \in suppressed \/ identity[k].row = ask[call[m].ask].row
         /\ \A q \in Requests : k \in object[q] => ask[call[m].ask].row \in asked[q]

\* And the calls in general: one call collects for a request at a time.
CallsHold ==
  /\ CollectionsHold
  /\ \A m \in Managers : call[m].at = "prepared" => call[m].ask \in Asks
  /\ \A m, n \in Managers :
       call[m].at = "collected" /\ call[n].at = "collected" /\ call[m].ask = call[n].ask
         => m = n

\* A snapshot with data of an executing deletion is a target of it; a completed
\* one has no target left.
TargetsHold ==
  \A p \in Asks : \A q \in Requests :
    /\ ask[p].state \in Executed /\ object[q] \cap ask[p].digests # {}
         => targets[p][q] # "none" \/ q \in lost
    /\ ask[p].state = "completed" => targets[p][q] = "none"

\* A task that marks has a reference, a task of a deletion has its request.
CleanersHold ==
  \A c \in Cleaners :
    /\ cleaner[c].at = "mark" => cleaner[c].item \in Requests
    /\ cleaner[c].at \in {"claim", "finish"} => cleaner[c].ask \in Asks

\* The candidates, the snapshots, the privacy requests, and all of it.
PeopleInv ==
  /\ LocksApart
  /\ ListedKeysAreGone
  /\ OnlyPersonsHaveData
  /\ OneRowPerProfile
  /\ IngestionsHold

SnapshotInv == ReadsHold /\ PayloadsHold /\ ObjectsOfRequests /\ ObjectsAreKnown

RequestInv == AsksHold /\ CallsHold /\ TargetsHold /\ CleanersHold

DeletionInv == TypeOK /\ PeopleInv /\ SnapshotInv /\ RequestInv

-----------------------------------------------------------------------------
(* Types.                                                                   *)

\* The candidates and their snapshots.
PeopleTypes ==
  /\ identity \in [Keys -> [row : Rows \cup {NoRow}, url : Urls \cup {NoUrl}]]
  /\ row \in [Rows -> {"free", "person", "redacted"}]
  /\ emails \in [Rows -> SUBSET Emails]
  /\ suppressed \subseteq Digests
  /\ evidence \in [Rows -> Evidence]
  /\ card \in [Rows -> {"none", "personal", "blank"}]
  /\ asked \in [Requests -> SUBSET Rows]
  /\ object \in [Requests -> SUBSET Keys]
  /\ reference \in [Requests -> [at : {"none", "kept", "expired"}, claimed : BOOLEAN]]
  /\ work \in [Workers -> Works]
  /\ lost \subseteq Requests

\* The rows of privacy requests, and the calls that work on them.
AskRows == [row : Rows \cup {NoRow}, kind : Kinds \cup {"none"},
            state : {"none", "verify", "received", "approved", "manual", "executing"}
                      \cup Closed,
            digests : SUBSET Digests]

AskTypes ==
  /\ ask \in [Asks -> AskRows]
  /\ call \in [Managers -> [at : {"idle", "collected", "prepared"}, ask : Asks \cup {NoAsk},
                            digests : SUBSET Digests]]
  /\ targets \in [Asks -> [Requests -> {"none", "pending", "claimed", "delayed"}]]
  /\ ordered \subseteq Asks

\* The maintenance tasks.
CleanerRows == [at : {"idle", "claim", "purge", "mark", "finish"}, ask : Asks \cup {NoAsk},
                left : SUBSET Requests, item : Requests \cup {NoRequest}, failed : BOOLEAN]

CleanerTypes ==
  /\ cleaner \in [Cleaners -> CleanerRows]
  /\ leased \subseteq (Asks \cup {NoAsk}) \X Requests
  /\ troubles \in 0..MaxTroubles

\* TypeOK in three parts.
LEMMA TypesInParts ==
  /\ TypeOK <=> PeopleTypes /\ AskTypes /\ CleanerTypes
  /\ TypeOK' <=> PeopleTypes' /\ AskTypes' /\ CleanerTypes'
BY DEF TypeOK, PeopleTypes, AskTypes, AskRows, CleanerTypes, CleanerRows

\* What a transaction that was opened at a certain place consists of.
LEMMA WorkFields ==
  ASSUME PeopleTypes, NEW w \in Workers
  PROVE  /\ work[w].at \in {"idle", "ingest", "materialize", "read", "apply"}
         /\ work[w].at = "ingest" =>
              /\ work[w].locks \in SUBSET Digests /\ work[w].row \in Rows \cup {NoRow}
              /\ work[w].identity \in Keys /\ work[w].url \in Urls \cup {NoUrl}
         /\ work[w].at = "materialize" => work[w].read \in [Rows -> Evidence \ {"unscored"}]
         /\ work[w].at = "read" =>
              /\ work[w].request \in Requests
              /\ work[w].rowOf \in [Keys -> Rows \cup {NoRow}]
         /\ work[w].at = "apply" =>
              /\ work[w].request \in Requests /\ work[w].locks \in SUBSET Digests
              /\ work[w].found \in [Rows -> SUBSET Emails]
<1>1. work[w] \in Works
  BY DEF PeopleTypes
<1> QED
  BY <1>1 DEF Works, Idle

\* The identifiers of a candidate are digests.
LEMMA DigestTypes ==
  ASSUME PeopleTypes, NEW r \in Rows
  PROVE  DigestsOf(r) \subseteq Digests /\ KeysOf(r) \subseteq Keys
<1>1. \A k \in Keys : identity[k].url \in Urls \cup {NoUrl}
  BY DEF PeopleTypes
<1>2. emails[r] \subseteq Emails
  BY DEF PeopleTypes
<1> QED
  BY <1>1, <1>2 DEF DigestsOf, KeysOf, Digests

\* A provider id among them is the candidate's own.
LEMMA KeysOfDigests ==
  ASSUME PeopleTypes, NEW r \in Rows
  PROVE  \A k \in Keys \cap DigestsOf(r) : identity[k].row = r
<1>1. \A k \in Keys : identity[k].url \in Urls \cup {NoUrl}
  BY DEF PeopleTypes
<1>2. emails[r] \subseteq Emails
  BY DEF PeopleTypes
<1>3. \A d \in DigestsOf(r) : d \in KeysOf(r) \/ d \in Urls \cup {NoUrl} \/ d \in Emails
  BY <1>1, <1>2 DEF DigestsOf, KeysOf
<1> QED
  BY <1>3, PeopleAssumption DEF KeysOf

\* Redaction keeps the types.
LEMMA RedactTypes ==
  ASSUME PeopleTypes, NEW r, Redact(r),
         suppressed' \subseteq Digests,
         UNCHANGED <<asked, object, reference, work, lost>>
  PROVE  PeopleTypes'
BY DEF PeopleTypes, Redact, Evidence

\* An ingestion, from its beginning to its end.
LEMMA IngestTypes ==
  ASSUME PeopleTypes, OnlyPersonsHaveData, NEW w \in Workers,
         \/ \E k \in Keys, u \in Urls \cup {NoUrl} : BeginIngest(w, k, u)
         \/ FinishIngest(w)
  PROVE  PeopleTypes'
<1>1. ASSUME NEW k \in Keys, NEW u \in Urls \cup {NoUrl}, BeginIngest(w, k, u)
      PROVE  PeopleTypes'
  <2> DEFINE begun == [at |-> "ingest", locks |-> LockedDigests(k, u), row |-> Resolve(k, u),
                       identity |-> SourceIdentity(k, u), url |-> AcceptedUrl(k, u)]
  <2>1. \A j \in Keys : identity[j].row \in Rows \cup {NoRow}
    BY DEF PeopleTypes
  <2>2. ByUrl(u) \subseteq Rows \cup {NoRow}
    BY <2>1 DEF ByUrl
  <2>3. Resolve(k, u) \in Rows \cup {NoRow}
    BY <2>1, <2>2 DEF Resolve
  <2>4. SourceIdentity(k, u) \in Keys
    <3>1. CASE identity[k].row # NoRow \/ ByUrl(u) = {}
      BY <3>1 DEF SourceIdentity
    <3>2. CASE ~(identity[k].row # NoRow \/ ByUrl(u) = {})
      <4>1. \E j \in Keys : u # NoUrl /\ identity[j].url = u
        BY <3>2 DEF ByUrl
      <4>2. \E j \in Keys : identity[j].row # NoRow /\ identity[j].url = u
        BY <4>1 DEF OnlyPersonsHaveData
      <4> QED
        BY <3>2, <4>2 DEF SourceIdentity
    <3> QED
      BY <3>1, <3>2
  <2>5. LockedDigests(k, u) \subseteq Digests /\ AcceptedUrl(k, u) \in Urls \cup {NoUrl}
    BY DEF LockedDigests, PersonDigests, Digests, AcceptedUrl
  <2>6. begun \in Works
    BY <2>3, <2>4, <2>5 DEF Works
  <2>7. work' = [work EXCEPT ![w] = begun]
    BY <1>1 DEF BeginIngest
  <2> HIDE DEF begun
  <2> QED
    BY <1>1, <2>6, <2>7 DEF PeopleTypes, BeginIngest
<1>2. ASSUME FinishIngest(w)
      PROVE  PeopleTypes'
  <2>1. work[w].identity \in Keys /\ work[w].url \in Urls \cup {NoUrl}
        /\ work[w].row \in Rows \cup {NoRow}
    BY <1>2, WorkFields DEF FinishIngest
  <2>2. UrlsAfter(w) \subseteq Urls \cup {NoUrl}
    BY <2>1 DEF UrlsAfter, PeopleTypes
  <2>3. PICK r \in IF work[w].row = NoRow THEN FreeRows ELSE {work[w].row} :
          /\ \E url \in UrlsAfter(w) :
               identity' = [identity EXCEPT ![work[w].identity] = [row |-> r, url |-> url]]
          /\ row' = [row EXCEPT ![r] = "person"]
          /\ evidence' = [evidence EXCEPT ![r] = IF @ = "none" THEN "unscored" ELSE @]
    BY <1>2 DEF FinishIngest
  <2>4. r \in Rows
    BY <2>1, <2>3 DEF FreeRows
  <2>5. Idle \in Works
    BY DEF Works
  <2> QED
    BY <1>2, <2>1, <2>2, <2>3, <2>4, <2>5 DEF PeopleTypes, FinishIngest, Evidence
<1> QED
  BY <1>1, <1>2

\* Scores, cards and requests for enrichment.
LEMMA ScoreTypes ==
  ASSUME PeopleTypes,
         \/ \E r \in Rows : ScoreRow(r)
         \/ \E w \in Workers : ReadMatches(w) \/ WriteCards(w)
         \/ \E q \in Requests : AskEnrichment(q)
  PROVE  PeopleTypes'
<1>1. ASSUME NEW r \in Rows, ScoreRow(r)
      PROVE  PeopleTypes'
  BY <1>1 DEF PeopleTypes, ScoreRow, Shown, Evidence
<1>2. ASSUME NEW w \in Workers, ReadMatches(w)
      PROVE  PeopleTypes'
  <2>1. [at |-> "materialize", read |-> evidence] \in Works
    BY <1>2 DEF ReadMatches, PeopleTypes, Works
  <2> QED
    BY <1>2, <2>1 DEF PeopleTypes, ReadMatches
<1>3. ASSUME NEW w \in Workers, WriteCards(w)
      PROVE  PeopleTypes'
  <2>1. Idle \in Works
    BY DEF Works
  <2>2. \A r \in Rows : work[w].read[r] \in Evidence \ {"unscored"}
    BY <1>3, WorkFields DEF WriteCards
  <2> QED
    BY <1>3, <2>1, <2>2 DEF PeopleTypes, WriteCards, Evidence
<1>4. ASSUME NEW q \in Requests, AskEnrichment(q)
      PROVE  PeopleTypes'
  BY <1>4 DEF PeopleTypes, AskEnrichment
<1> QED
  BY <1>1, <1>2, <1>3, <1>4

\* A payload, from the read of its identities to its end.
LEMMA PayloadTypes ==
  ASSUME PeopleTypes, NEW w \in Workers,
         \/ \E q \in Requests : ReadIdentities(w, q)
         \/ PutSnapshot(w) \/ DropPayload(w) \/ CommitPayload(w) \/ LosePayload(w)
  PROVE  PeopleTypes'
<1>0. Idle \in Works
  BY DEF Works
<1>1. ASSUME NEW q \in Requests, ReadIdentities(w, q)
      PROVE  PeopleTypes'
  <2> DEFINE begun == [at |-> "read", request |-> q,
                       rowOf |-> [k \in Keys |-> IF identity[k].row \in asked[q]
                                                 THEN identity[k].row ELSE NoRow]]
  <2>1. begun \in Works
    BY DEF Works, PeopleTypes
  <2>2. work' = [work EXCEPT ![w] = begun]
    BY <1>1 DEF ReadIdentities
  <2> HIDE DEF begun
  <2> QED
    BY <1>1, <2>1, <2>2 DEF PeopleTypes, ReadIdentities
<1>2. ASSUME PutSnapshot(w)
      PROVE  PeopleTypes'
  <2> DEFINE q == work[w].request
  <2>1. PICK people \in (SUBSET Keys) \ {{}} :
          \E mail \in [people -> {{}} \cup {{e} : e \in Emails}] :
            /\ object' = [object EXCEPT ![q] = @ \cup
                 {k \in people : ~Suppressed({k} \cup mail[k])}]
            /\ work' = [work EXCEPT ![w] = [at |-> "apply", request |-> q,
                 locks |-> people \cup UNION {mail[k] : k \in people},
                 found |-> [r \in Rows |-> UNION {mail[k] : k \in
                   {j \in {k \in people : ~Suppressed({k} \cup mail[k])} :
                      work[w].rowOf[j] = r}}]]]
    BY <1>2 DEF PutSnapshot
  <2>2. PICK mail \in [people -> {{}} \cup {{e} : e \in Emails}] :
            /\ object' = [object EXCEPT ![q] = @ \cup
                 {k \in people : ~Suppressed({k} \cup mail[k])}]
            /\ work' = [work EXCEPT ![w] = [at |-> "apply", request |-> q,
                 locks |-> people \cup UNION {mail[k] : k \in people},
                 found |-> [r \in Rows |-> UNION {mail[k] : k \in
                   {j \in {k \in people : ~Suppressed({k} \cup mail[k])} :
                      work[w].rowOf[j] = r}}]]]
    BY <2>1
  <2> DEFINE allowed == {k \in people : ~Suppressed({k} \cup mail[k])}
             locks == people \cup UNION {mail[k] : k \in people}
             found == [r \in Rows |-> UNION {mail[k] : k \in
                         {j \in allowed : work[w].rowOf[j] = r}}]
             begun == [at |-> "apply", request |-> q, locks |-> locks, found |-> found]
  <2>3. q \in Requests
    BY <1>2, WorkFields DEF PutSnapshot
  <2>4. \A k \in people : mail[k] \subseteq Emails
    OBVIOUS
  <2>5. locks \subseteq Digests /\ allowed \subseteq Keys
    BY <2>4 DEF Digests
  <2>6. found \in [Rows -> SUBSET Emails]
    BY <2>4
  <2>7. work' = [work EXCEPT ![w] = begun] /\ object' = [object EXCEPT ![q] = @ \cup allowed]
    BY <2>2
  <2> HIDE DEF allowed, locks, found
  <2>8. begun \in Works
    BY <2>3, <2>5, <2>6 DEF Works
  <2> HIDE DEF begun
  <2>9. work' \in [Workers -> Works] /\ object' \in [Requests -> SUBSET Keys]
    BY <2>3, <2>5, <2>7, <2>8 DEF PeopleTypes
  <2> QED
    BY <1>2, <2>9 DEF PeopleTypes, PutSnapshot
<1>3. ASSUME DropPayload(w)
      PROVE  PeopleTypes'
  BY <1>0, <1>3 DEF PeopleTypes, DropPayload
<1>4. ASSUME CommitPayload(w)
      PROVE  PeopleTypes'
  <2>1. work[w].request \in Requests /\ work[w].found \in [Rows -> SUBSET Emails]
    BY <1>4, WorkFields DEF CommitPayload
  <2> QED
    BY <1>0, <1>4, <2>1 DEF PeopleTypes, CommitPayload
<1>5. ASSUME LosePayload(w)
      PROVE  PeopleTypes'
  <2>1. work[w].request \in Requests
    BY <1>5, WorkFields DEF LosePayload
  <2> QED
    BY <1>0, <1>5, <2>1 DEF PeopleTypes, LosePayload
<1> QED
  BY <1>1, <1>2, <1>3, <1>4, <1>5

\* A request changes its state, and is given digests.
LEMMA AskRowChanges ==
  ASSUME NEW rec \in AskRows,
         NEW to \in {"received", "approved", "manual", "rejected", "executing", "completed"},
         NEW D \in SUBSET Digests
  PROVE  /\ [rec EXCEPT !.state = to] \in AskRows
         /\ [rec EXCEPT !.state = to, !.digests = @ \cup D] \in AskRows
BY DEF AskRows, Closed

\* Each step of a request and of its deletion keeps the types.
LEMMA AskStepTypes ==
  ASSUME TypeOK, AsksHold, CallsHold, CleanersHold, NEW p \in Asks,
         \/ \E r \in Rows, kind \in Kinds : Submit(p, r, kind)
         \/ Verify(p) \/ Approve(p) \/ Reject(p) \/ Fulfil(p)
         \/ Resume(p)
         \/ \E q \in Requests : BackoffEnds(p, q)
  PROVE  TypeOK'
<1>0. PeopleTypes /\ AskTypes /\ CleanerTypes
  BY TypesInParts
<1>1. UNCHANGED peopleVars /\ UNCHANGED <<cleaner, leased, troubles>>
  BY DEF Submit, Verify, Approve, Reject, Fulfil, Move, Resume, BackoffEnds
<1>2. PeopleTypes' /\ CleanerTypes'
  BY <1>0, <1>1 DEF PeopleTypes, CleanerTypes, peopleVars
<1>3. ASSUME NEW r \in Rows, NEW kind \in Kinds, Submit(p, r, kind)
      PROVE  AskTypes'
  BY <1>0, <1>3 DEF AskTypes, AskRows, Submit, Kinds
<1>4. ASSUME Verify(p) \/ Approve(p) \/ Reject(p) \/ Fulfil(p)
      PROVE  AskTypes'
  <2>1. PICK to \in {"received", "approved", "manual", "rejected"} :
          ask' = [ask EXCEPT ![p].state = to] /\ UNCHANGED <<call, targets, ordered>>
    BY <1>4 DEF Verify, Approve, Reject, Fulfil, Move
  <2>2. [ask[p] EXCEPT !.state = to] \in AskRows
    BY <1>0, AskRowChanges DEF AskTypes
  <2>3. ask' = [ask EXCEPT ![p] = [ask[p] EXCEPT !.state = to]]
    BY <2>1
  <2> QED
    BY <1>0, <2>1, <2>2, <2>3 DEF AskTypes
<1>5. ASSUME Resume(p)
      PROVE  AskTypes'
  BY <1>0, <1>5 DEF AskTypes, Resume
<1>6. ASSUME NEW q \in Requests, BackoffEnds(p, q)
      PROVE  AskTypes'
  BY <1>0, <1>6 DEF AskTypes, BackoffEnds
<1> QED
  BY <1>2, <1>3, <1>4, <1>5, <1>6, TypesInParts

\* The steps of execute_delete.
LEMMA CallTypes ==
  ASSUME TypeOK, AsksHold, CallsHold, NEW m \in Managers,
         \/ \E p \in Asks : CollectDigests(m, p)
         \/ PrepareDeletion(m) \/ FinishCall(m) \/ CallDies(m)
  PROVE  TypeOK'
<1>0. PeopleTypes /\ AskTypes /\ CleanerTypes
  BY TypesInParts
<1>1. ASSUME NEW p \in Asks, CollectDigests(m, p)
      PROVE  TypeOK'
  <2>1. ask[p].row \in Rows
    BY <1>1 DEF CollectDigests, AsksHold
  <2>2. DigestsOf(ask[p].row) \in SUBSET Digests
    BY <1>0, <2>1, DigestTypes
  <2>3. AskTypes'
    BY <1>0, <1>1, <2>2 DEF AskTypes, CollectDigests
  <2>4. PeopleTypes' /\ CleanerTypes'
    BY <1>0, <1>1 DEF PeopleTypes, CleanerTypes, CollectDigests, peopleVars
  <2> QED
    BY <2>3, <2>4, TypesInParts
<1>2. ASSUME PrepareDeletion(m)
      PROVE  TypeOK'
  <2> DEFINE p == call[m].ask
  <2>1. p \in Asks /\ ask[p].row \in Rows
    BY <1>2 DEF PrepareDeletion, AsksHold, CallsHold, CollectionsHold
  <2>2. AllDigests(m) \in SUBSET Digests
    BY <1>0, <2>1, DigestTypes DEF AllDigests, AskTypes
  <2>3. Redact(ask[p].row) /\ suppressed' = suppressed \cup AllDigests(m)
        /\ UNCHANGED <<asked, object, reference, work, lost>>
    BY <1>2 DEF PrepareDeletion
  <2>4. PeopleTypes'
    BY <1>0, <2>2, <2>3, RedactTypes DEF PeopleTypes
  <2>5. ask' = [ask EXCEPT ![p].state = "executing", ![p].digests = @ \cup AllDigests(m)]
        /\ call' = [call EXCEPT ![m].at = "prepared"]
        /\ targets' = [targets EXCEPT ![p] = [q \in Requests |->
             IF q \in SnapshotsOf(ask[p].row) /\ @[q] = "none" THEN "pending" ELSE @[q]]]
        /\ UNCHANGED <<ordered, cleaner, leased, troubles>>
    BY <1>2 DEF PrepareDeletion
  <2>6. AskTypes'
    <3> DEFINE rec == [ask[p] EXCEPT !.state = "executing", !.digests = @ \cup AllDigests(m)]
    <3>1. rec \in AskRows
      BY <1>0, <2>1, <2>2, AskRowChanges DEF AskTypes
    <3>2. ask' = [ask EXCEPT ![p] = rec]
      <4>1. ask \in [Asks -> AskRows]
        BY <1>0 DEF AskTypes
      <4>2. ask' = [ask EXCEPT ![p].state = "executing", ![p].digests = @ \cup AllDigests(m)]
        BY <2>5
      <4> QED
        BY <4>1, <4>2, <2>1
    <3> HIDE DEF rec
    <3>3. ask' \in [Asks -> AskRows]
      BY <1>0, <3>1, <3>2 DEF AskTypes
    <3>4. targets' \in [Asks -> [Requests -> {"none", "pending", "claimed", "delayed"}]]
      BY <1>0, <2>1, <2>5 DEF AskTypes
    <3>5. call' \in [Managers -> [at : {"idle", "collected", "prepared"},
                                  ask : Asks \cup {NoAsk}, digests : SUBSET Digests]]
      BY <1>0, <2>5 DEF AskTypes
    <3>6. ordered' \subseteq Asks
      BY <1>0, <2>5 DEF AskTypes
    <3> QED
      BY <3>3, <3>4, <3>5, <3>6 DEF AskTypes
  <2>7. CleanerTypes'
    BY <1>0, <2>5 DEF CleanerTypes
  <2> QED
    BY <2>4, <2>6, <2>7, TypesInParts
<1>3. ASSUME FinishCall(m)
      PROVE  TypeOK'
  <2> DEFINE p == call[m].ask
  <2>1. p \in Asks
    BY <1>3 DEF FinishCall, CallsHold
  <2>2. ordered' \in SUBSET Asks
    BY <1>0, <1>3, <2>1 DEF FinishCall, AskTypes
  <2>3. Finalize(p) /\ call' = [call EXCEPT ![m] = NoCall]
        /\ UNCHANGED <<suppressed, asked, object, reference, work, lost, targets, cleaner,
                       leased, troubles>>
    BY <1>3 DEF FinishCall
  <2>4. call' \in [Managers -> [at : {"idle", "collected", "prepared"},
                                ask : Asks \cup {NoAsk}, digests : SUBSET Digests]]
    BY <1>0, <2>3 DEF AskTypes, NoCall
  <2>5. CASE ask[p].state = "executing" /\ Pending(p) = {}
    <3>1. Redact(ask[p].row) /\ ask' = [ask EXCEPT ![p].state = "completed"]
      BY <2>3, <2>5 DEF Finalize
    <3>2. PeopleTypes'
      BY <1>0, <2>3, <3>1, RedactTypes DEF PeopleTypes
    <3>3. [ask[p] EXCEPT !.state = "completed"] \in AskRows
      BY <1>0, <2>1, AskRowChanges DEF AskTypes
    <3>4. ask' = [ask EXCEPT ![p] = [ask[p] EXCEPT !.state = "completed"]]
      BY <3>1
    <3>5. AskTypes'
      BY <1>0, <2>1, <2>2, <2>3, <2>4, <3>3, <3>4 DEF AskTypes
    <3> QED
      BY <1>0, <2>3, <3>2, <3>5, TypesInParts DEF CleanerTypes
  <2>6. CASE ~(ask[p].state = "executing" /\ Pending(p) = {})
    <3>1. UNCHANGED <<identity, row, emails, evidence, card, ask>>
      BY <2>3, <2>6 DEF Finalize
    <3>2. PeopleTypes' /\ AskTypes' /\ CleanerTypes'
      BY <1>0, <2>2, <2>3, <2>4, <3>1 DEF PeopleTypes, AskTypes, CleanerTypes
    <3> QED
      BY <3>2, TypesInParts
  <2> QED
    BY <2>5, <2>6
<1>4. ASSUME CallDies(m)
      PROVE  TypeOK'
  <2>1. PeopleTypes' /\ CleanerTypes'
    BY <1>0, <1>4, DeletionAssumption DEF PeopleTypes, CleanerTypes, CallDies, peopleVars
  <2>2. AskTypes'
    BY <1>0, <1>4 DEF AskTypes, CallDies, NoCall
  <2> QED
    BY <2>1, <2>2, TypesInParts
<1> QED
  BY <1>1, <1>2, <1>3, <1>4

\* What a reference and a target are.
References == [at : {"none", "kept", "expired"}, claimed : BOOLEAN]
Statuses == {"none", "pending", "claimed", "delayed"}

\* A maintenance process begins and ends.
LEMMA CleanerBegins ==
  /\ IdleCleaner \in CleanerRows
  /\ \A p \in Asks : [IdleCleaner EXCEPT !.at = "claim", !.ask = p] \in CleanerRows
  /\ \A D \in SUBSET Requests : [IdleCleaner EXCEPT !.at = "purge", !.left = D] \in CleanerRows
BY DEF CleanerRows, IdleCleaner

\* It goes on.
LEMMA CleanerGoesOn ==
  ASSUME NEW rec \in CleanerRows
  PROVE  /\ \A at \in {"finish", "purge"}, D \in SUBSET Requests :
              [rec EXCEPT !.at = at, !.left = D] \in CleanerRows
         /\ \A q \in Requests :
              /\ [rec EXCEPT !.at = "mark", !.item = q, !.left = rec.left \ {q}] \in CleanerRows
              /\ [rec EXCEPT !.left = rec.left \ {q}, !.failed = TRUE] \in CleanerRows
         /\ [rec EXCEPT !.at = "purge", !.item = NoRequest] \in CleanerRows
         /\ [rec EXCEPT !.at = "claim"] \in CleanerRows
BY DEF CleanerRows

\* The steps of maintenance.
LEMMA CleanerStepTypes ==
  ASSUME TypeOK, AsksHold, CleanersHold, NEW c \in Cleaners,
         \/ \E p \in Asks : TakeOrder(c, p)
         \/ ClaimTargets(c) \/ ClaimExpired(c)
         \/ \E q \in Requests : Purge(c, q) \/ PurgeFails(c, q)
         \/ MarkDeleted(c) \/ EndBatch(c) \/ FinishTask(c) \/ CleanerDies(c)
  PROVE  TypeOK'
<1>0. PeopleTypes /\ AskTypes /\ CleanerTypes
  BY TypesInParts
<1>1. ASSUME NEW p \in Asks, TakeOrder(c, p)
      PROVE  TypeOK'
  <2>1. PeopleTypes' /\ AskTypes'
    BY <1>0, <1>1 DEF PeopleTypes, AskTypes, TakeOrder, peopleVars
  <2>2. CleanerTypes'
    BY <1>0, <1>1, CleanerBegins DEF CleanerTypes, TakeOrder
  <2> QED
    BY <2>1, <2>2, TypesInParts
<1>2. ASSUME ClaimTargets(c)
      PROVE  TypeOK'
  <2> DEFINE p == cleaner[c].ask
             due == {q \in Requests : ask[p].state = "executing" /\ Claimable(p, q)}
  <2>1. p \in Asks
    BY <1>2 DEF ClaimTargets, CleanersHold
  <2>2. /\ targets' = [targets EXCEPT ![p] = [q \in Requests |->
                          IF q \in due THEN "claimed" ELSE @[q]]]
        /\ leased' = leased \cup ({p} \X due)
        /\ cleaner' = [cleaner EXCEPT ![c].at = IF due = {} THEN "finish" ELSE "purge",
                                      ![c].left = due]
        /\ UNCHANGED <<peopleVars, ask, call, ordered, troubles>>
    BY <1>2 DEF ClaimTargets
  <2>3. due \in SUBSET Requests
    OBVIOUS
  <2> HIDE DEF due
  <2>4. targets' \in [Asks -> [Requests -> {"none", "pending", "claimed", "delayed"}]]
    BY <1>0, <2>1, <2>2 DEF AskTypes
  <2>5. PeopleTypes' /\ AskTypes'
    BY <1>0, <2>2, <2>4 DEF PeopleTypes, AskTypes, peopleVars
  <2>6. CleanerTypes'
    <3> DEFINE place == [cleaner[c] EXCEPT !.at = IF due = {} THEN "finish" ELSE "purge",
                                         !.left = due]
    <3>1. place \in CleanerRows
      BY <1>0, <2>3, CleanerGoesOn DEF CleanerTypes
    <3>2. cleaner' = [cleaner EXCEPT ![c] = place]
      <4>1. cleaner \in [Cleaners -> CleanerRows]
        BY <1>0 DEF CleanerTypes
      <4>2. cleaner' = [cleaner EXCEPT ![c].at = IF due = {} THEN "finish" ELSE "purge",
                                      ![c].left = due]
        BY <2>2
      <4> QED
        BY <4>1, <4>2
    <3> HIDE DEF place
    <3> QED
      BY <1>0, <3>1, <3>2, <2>1, <2>2, <2>3 DEF CleanerTypes
  <2> QED
    BY <2>5, <2>6, TypesInParts
<1>3. ASSUME ClaimExpired(c)
      PROVE  TypeOK'
  <2>1. PICK due \in SUBSET Requests :
          /\ reference' = [q \in Requests |->
               IF q \in due THEN [reference[q] EXCEPT !.claimed = TRUE] ELSE reference[q]]
          /\ leased' = leased \cup ({NoAsk} \X due)
          /\ cleaner' = [cleaner EXCEPT ![c] = [IdleCleaner EXCEPT !.at = "purge", !.left = due]]
          /\ UNCHANGED <<identity, row, emails, suppressed, evidence, card, asked, object, work,
                         lost, ask, call, targets, ordered, troubles>>
    BY <1>3 DEF ClaimExpired
  <2>2. reference' \in [Requests -> [at : {"none", "kept", "expired"}, claimed : BOOLEAN]]
    BY <1>0, <2>1 DEF PeopleTypes
  <2>3. PeopleTypes' /\ AskTypes'
    BY <1>0, <2>1, <2>2 DEF PeopleTypes, AskTypes
  <2>4. CleanerTypes'
    BY <1>0, <2>1, CleanerBegins DEF CleanerTypes
  <2> QED
    BY <2>3, <2>4, TypesInParts
<1>4. ASSUME NEW q \in Requests, Purge(c, q)
      PROVE  TypeOK'
  <2>1. PeopleTypes' /\ AskTypes'
    BY <1>0, <1>4 DEF PeopleTypes, AskTypes, Purge
  <2>2. CleanerTypes'
    <3> DEFINE place == [cleaner[c] EXCEPT !.at = "mark", !.item = q, !.left = cleaner[c].left \ {q}]
    <3>1. place \in CleanerRows
      BY <1>0, CleanerGoesOn DEF CleanerTypes
    <3>2. cleaner' = [cleaner EXCEPT ![c] = place]
      <4>1. cleaner \in [Cleaners -> CleanerRows]
        BY <1>0 DEF CleanerTypes
      <4>2. cleaner' = [cleaner EXCEPT ![c].at = "mark", ![c].item = q, ![c].left = @ \ {q}]
        BY <1>4 DEF Purge
      <4> QED
        BY <4>1, <4>2
    <3> HIDE DEF place
    <3> QED
      BY <1>0, <3>1, <3>2, <1>4 DEF CleanerTypes, Purge
  <2> QED
    BY <2>1, <2>2, TypesInParts
<1>5. ASSUME NEW q \in Requests, PurgeFails(c, q)
      PROVE  TypeOK'
  <2> DEFINE p == cleaner[c].ask
  <2>1. p \in Asks \cup {NoAsk}
    BY <1>0 DEF CleanerTypes, CleanerRows
  <2>2. reference' \in [Requests -> References]
    <3>1. [reference[q] EXCEPT !.claimed = FALSE] \in References
      BY <1>0 DEF PeopleTypes, References
    <3>2. reference \in [Requests -> References]
      BY <1>0 DEF PeopleTypes, References
    <3>3. reference' \in {reference, [reference EXCEPT ![q] = [reference[q] EXCEPT !.claimed = FALSE]]}
      BY <1>5, <3>2 DEF PurgeFails
    <3> QED
      BY <3>1, <3>2, <3>3
  <2>3. targets' \in [Asks -> [Requests -> {"none", "pending", "claimed", "delayed"}]]
    <3>1. CASE p = NoAsk
      BY <1>0, <1>5, <3>1 DEF AskTypes, PurgeFails
    <3>2. CASE p # NoAsk
      <4>1. targets \in [Asks -> [Requests -> Statuses]] /\ p \in Asks
        BY <1>0, <2>1, <3>2 DEF AskTypes, Statuses
      <4>2. targets' = [targets EXCEPT ![p][q] = IF @ = "none" THEN @ ELSE "delayed"]
        BY <1>5, <3>2 DEF PurgeFails
      <4> QED
        BY <4>1, <4>2 DEF Statuses
    <3> QED
      BY <3>1, <3>2
  <2>4. PeopleTypes' /\ AskTypes'
    BY <1>0, <1>5, <2>2, <2>3 DEF PeopleTypes, References, AskTypes, PurgeFails
  <2>5. CleanerTypes'
    <3> DEFINE place == [cleaner[c] EXCEPT !.left = cleaner[c].left \ {q}, !.failed = TRUE]
    <3>1. place \in CleanerRows
      BY <1>0, CleanerGoesOn DEF CleanerTypes
    <3>2. cleaner' = [cleaner EXCEPT ![c] = place]
      <4>1. cleaner \in [Cleaners -> CleanerRows]
        BY <1>0 DEF CleanerTypes
      <4>2. cleaner' = [cleaner EXCEPT ![c].left = @ \ {q}, ![c].failed = TRUE]
        BY <1>5 DEF PurgeFails
      <4> QED
        BY <4>1, <4>2
    <3> HIDE DEF place
    <3>3. cleaner' \in [Cleaners -> CleanerRows]
      BY <1>0, <3>1, <3>2 DEF CleanerTypes
    <3>4. leased' \subseteq (Asks \cup {NoAsk}) \X Requests
      BY <1>0, <1>5 DEF CleanerTypes, PurgeFails
    <3>5. troubles' \in 0..MaxTroubles
      <4>1. troubles \in 0..MaxTroubles /\ troubles < MaxTroubles /\ troubles' = troubles + 1
        BY <1>0, <1>5 DEF CleanerTypes, PurgeFails
      <4> QED
        BY <4>1, DeletionAssumption
    <3> QED
      BY <3>3, <3>4, <3>5 DEF CleanerTypes
  <2> QED
    BY <2>4, <2>5, TypesInParts
<1>6. ASSUME MarkDeleted(c)
      PROVE  TypeOK'
  <2>1. cleaner[c].item \in Requests
    BY <1>6 DEF MarkDeleted, CleanersHold
  <2>2. reference' \in [Requests -> References]
    <3>1. NoReference \in References
      BY DEF NoReference, References
    <3>2. reference \in [Requests -> References]
      BY <1>0 DEF PeopleTypes, References
    <3> QED
      BY <1>6, <2>1, <3>1, <3>2 DEF MarkDeleted
  <2>3. targets' \in [Asks -> [Requests -> {"none", "pending", "claimed", "delayed"}]]
    BY <1>0, <1>6, <2>1 DEF AskTypes, MarkDeleted
  <2>4. PeopleTypes' /\ AskTypes'
    BY <1>0, <1>6, <2>1, <2>2, <2>3 DEF PeopleTypes, References, AskTypes, MarkDeleted
  <2>5. CleanerTypes'
    <3> DEFINE place == [cleaner[c] EXCEPT !.at = "purge", !.item = NoRequest]
    <3>1. place \in CleanerRows
      BY <1>0, CleanerGoesOn DEF CleanerTypes
    <3>2. cleaner' = [cleaner EXCEPT ![c] = place]
      <4>1. cleaner \in [Cleaners -> CleanerRows]
        BY <1>0 DEF CleanerTypes
      <4>2. cleaner' = [cleaner EXCEPT ![c].at = "purge", ![c].item = NoRequest]
        BY <1>6 DEF MarkDeleted
      <4> QED
        BY <4>1, <4>2
    <3> HIDE DEF place
    <3> QED
      BY <1>0, <3>1, <3>2, <1>6 DEF CleanerTypes, MarkDeleted
  <2> QED
    BY <2>4, <2>5, TypesInParts
<1>7. ASSUME EndBatch(c)
      PROVE  TypeOK'
  <2>1. ordered' \in SUBSET Asks
    BY <1>0, <1>7 DEF AskTypes, CleanerTypes, CleanerRows, EndBatch
  <2>2. PeopleTypes' /\ AskTypes'
    BY <1>0, <1>7, <2>1 DEF PeopleTypes, AskTypes, EndBatch, peopleVars
  <2>3. CleanerTypes'
    <3>1. [cleaner[c] EXCEPT !.at = "claim"] \in CleanerRows /\ IdleCleaner \in CleanerRows
      BY <1>0, CleanerBegins, CleanerGoesOn DEF CleanerTypes
    <3>2. PICK place \in CleanerRows : cleaner' = [cleaner EXCEPT ![c] = place]
      <4>1. \/ cleaner' = [cleaner EXCEPT ![c] = IdleCleaner]
            \/ cleaner' = [cleaner EXCEPT ![c] = [cleaner[c] EXCEPT !.at = "claim"]]
        BY <1>7 DEF EndBatch
      <4> QED
        BY <3>1, <4>1
    <3> QED
      BY <1>0, <1>7, <3>2 DEF CleanerTypes, EndBatch
  <2> QED
    BY <2>2, <2>3, TypesInParts
<1>8. ASSUME FinishTask(c)
      PROVE  TypeOK'
  <2> DEFINE p == cleaner[c].ask
  <2>1. p \in Asks
    BY <1>8 DEF FinishTask, CleanersHold
  <2>2. ordered' \in SUBSET Asks
    BY <1>0, <1>8, <2>1 DEF FinishTask, AskTypes
  <2>3. Finalize(p) /\ UNCHANGED <<suppressed, asked, object, reference, work, lost, call,
                                   targets, leased, troubles>>
    BY <1>8 DEF FinishTask
  <2>4. CleanerTypes'
    BY <1>0, <1>8, CleanerBegins DEF CleanerTypes, FinishTask
  <2>5. CASE ask[p].state = "executing" /\ Pending(p) = {}
    <3>1. Redact(ask[p].row) /\ ask' = [ask EXCEPT ![p].state = "completed"]
      BY <2>3, <2>5 DEF Finalize
    <3>2. PeopleTypes'
      BY <1>0, <2>3, <3>1, RedactTypes DEF PeopleTypes
    <3>3. [ask[p] EXCEPT !.state = "completed"] \in AskRows
      BY <1>0, <2>1, AskRowChanges DEF AskTypes
    <3>4. ask' = [ask EXCEPT ![p] = [ask[p] EXCEPT !.state = "completed"]]
      BY <3>1
    <3>5. AskTypes'
      BY <1>0, <2>1, <2>2, <2>3, <3>3, <3>4 DEF AskTypes
    <3> QED
      BY <2>4, <3>2, <3>5, TypesInParts
  <2>6. CASE ~(ask[p].state = "executing" /\ Pending(p) = {})
    <3>1. UNCHANGED <<identity, row, emails, evidence, card, ask>>
      BY <2>3, <2>6 DEF Finalize
    <3>2. PeopleTypes' /\ AskTypes'
      BY <1>0, <2>2, <2>3, <3>1 DEF PeopleTypes, AskTypes
    <3> QED
      BY <2>4, <3>2, TypesInParts
  <2> QED
    BY <2>5, <2>6
<1>9. ASSUME CleanerDies(c)
      PROVE  TypeOK'
  <2>1. ordered' \in SUBSET Asks
    BY <1>0, <1>9 DEF AskTypes, CleanerTypes, CleanerRows, CleanerDies
  <2>2. PeopleTypes' /\ AskTypes'
    BY <1>0, <1>9, <2>1 DEF PeopleTypes, AskTypes, CleanerDies, peopleVars
  <2>3. CleanerTypes'
    <3>1. cleaner' \in [Cleaners -> CleanerRows] /\ UNCHANGED leased
      BY <1>0, <1>9, CleanerBegins DEF CleanerTypes, CleanerDies
    <3>2. troubles' \in 0..MaxTroubles
      BY <1>0, <1>9, DeletionAssumption DEF CleanerTypes, CleanerDies
    <3> QED
      BY <1>0, <3>1, <3>2 DEF CleanerTypes
  <2> QED
    BY <2>2, <2>3, TypesInParts
<1> QED
  BY <1>1, <1>2, <1>3, <1>4, <1>5, <1>6, <1>7, <1>8, <1>9

\* The invariant contains what the types rest on, and every step keeps them.
LEMMA TypesKept ==
  ASSUME DeletionInv, [DeletionNext]_deletionVars
  PROVE  TypeOK'
<1>0. /\ TypeOK /\ PeopleTypes /\ AskTypes /\ CleanerTypes
      /\ OnlyPersonsHaveData /\ AsksHold /\ CallsHold /\ CleanersHold
  BY TypesInParts DEF DeletionInv, PeopleInv, RequestInv
<1>1. ASSUME PeopleNext, UNCHANGED privacyVars
      PROVE  TypeOK'
  <2>1. PeopleTypes'
    <3>1. ASSUME NEW w \in Workers,
                 \/ \E k \in Keys, u \in Urls \cup {NoUrl} : BeginIngest(w, k, u)
                 \/ FinishIngest(w)
          PROVE  PeopleTypes'
      BY <1>0, <3>1, IngestTypes
    <3>2. ASSUME NEW w \in Workers,
                 \/ \E q \in Requests : ReadIdentities(w, q)
                 \/ PutSnapshot(w) \/ DropPayload(w) \/ CommitPayload(w) \/ LosePayload(w)
          PROVE  PeopleTypes'
      BY <1>0, <3>2, PayloadTypes
    <3>3. ASSUME \/ \E r \in Rows : ScoreRow(r)
                 \/ \E w \in Workers : ReadMatches(w) \/ WriteCards(w)
                 \/ \E q \in Requests : AskEnrichment(q)
          PROVE  PeopleTypes'
      BY <1>0, <3>3, ScoreTypes
    <3> QED
      BY <1>1, <3>1, <3>2, <3>3 DEF PeopleNext
  <2>2. AskTypes' /\ CleanerTypes'
    BY <1>0, <1>1 DEF AskTypes, CleanerTypes, privacyVars
  <2> QED
    BY <2>1, <2>2, TypesInParts
<1>2. ASSUME PrivacyNext
      PROVE  TypeOK'
  <2>1. ASSUME NEW l \in leased, LeaseEnds(l)
        PROVE  TypeOK'
    BY <1>0, <2>1, TypesInParts
       DEF LeaseEnds, PeopleTypes, AskTypes, CleanerTypes, peopleVars
  <2>2. ASSUME NEW q \in Requests, SnapshotExpires(q)
        PROVE  TypeOK'
    <3>1. [reference[q] EXCEPT !.at = "expired"] \in References
          /\ reference \in [Requests -> References]
      BY <1>0 DEF PeopleTypes, References
    <3>2. reference' \in [Requests -> References]
      BY <2>2, <3>1 DEF SnapshotExpires
    <3> QED
      BY <1>0, <2>2, <3>2, TypesInParts
         DEF SnapshotExpires, PeopleTypes, References, AskTypes, CleanerTypes, privacyVars
  <2> QED
    BY <1>0, <1>2, <2>1, <2>2, AskStepTypes, CallTypes, CleanerStepTypes DEF PrivacyNext
<1>3. ASSUME UNCHANGED deletionVars
      PROVE  TypeOK'
  BY <1>0, <1>3, TypesInParts
     DEF deletionVars, peopleVars, privacyVars, PeopleTypes, AskTypes, CleanerTypes
<1> QED
  BY <1>1, <1>2, <1>3 DEF DeletionNext

-----------------------------------------------------------------------------
(* People: who is ingested under which locks.                               *)

\* What is read about people changes in few steps only.
LEMMA PeopleInvStays ==
  ASSUME PeopleInv, UNCHANGED <<identity, row, emails, suppressed, evidence, work>>
  PROVE  PeopleInv'
BY DEF PeopleInv, LocksApart, HoldsGate, ListedKeysAreGone, OnlyPersonsHaveData,
       OneRowPerProfile, IngestionsHold

\* An ingestion begins with the locks of its digests, none of which is listed,
\* and with what the identities say under these locks.
LEMMA BeginIngestReads ==
  ASSUME PeopleTypes, PeopleInv, NEW w \in Workers, NEW k \in Keys,
         NEW u \in Urls \cup {NoUrl}, BeginIngest(w, k, u)
  PROVE  /\ work' = [work EXCEPT ![w] = [at |-> "ingest", locks |-> {k, u} \ {NoUrl},
                       row |-> Resolve(k, u), identity |-> SourceIdentity(k, u),
                       url |-> AcceptedUrl(k, u)]]
         /\ ({k, u} \ {NoUrl}) \cap suppressed = {}
         /\ AcceptedUrl(k, u) # NoUrl => AcceptedUrl(k, u) \in {k, u} \ {NoUrl}
         /\ Resolve(k, u) = NoRow => SourceIdentity(k, u) \in {k, u} \ {NoUrl}
         /\ SourceIdentity(k, u) \in Keys \ suppressed
         /\ Resolve(k, u) = identity[SourceIdentity(k, u)].row
         /\ AcceptedUrl(k, u) # NoUrl =>
              \A j \in Keys : identity[j].url = AcceptedUrl(k, u)
                                => identity[j].row = Resolve(k, u)
<1>1. /\ work' = [work EXCEPT ![w] = [at |-> "ingest", locks |-> {k, u} \ {NoUrl},
                       row |-> Resolve(k, u), identity |-> SourceIdentity(k, u),
                       url |-> AcceptedUrl(k, u)]]
      /\ ({k, u} \ {NoUrl}) \cap suppressed = {}
  BY DEF BeginIngest, LockedDigests, PersonDigests, Suppressed
<1>2. k # NoUrl /\ k \notin suppressed
  BY <1>1, PeopleAssumption
<1>3. AcceptedUrl(k, u) # NoUrl => AcceptedUrl(k, u) \in {k, u} \ {NoUrl}
  BY DEF AcceptedUrl
<1>4. AcceptedUrl(k, u) # NoUrl =>
        \A j \in Keys : identity[j].url = AcceptedUrl(k, u) => identity[j].row = Resolve(k, u)
  BY DEF AcceptedUrl, ByUrl
<1>5. CASE identity[k].row # NoRow \/ ByUrl(u) = {}
  <2>1. Resolve(k, u) = identity[k].row /\ SourceIdentity(k, u) = k
    BY <1>5 DEF Resolve, SourceIdentity
  <2> QED
    BY <1>1, <1>2, <1>3, <1>4, <2>1
<1>6. CASE identity[k].row = NoRow /\ ByUrl(u) # {}
  <2>1. \A r \in ByUrl(u) : \E j \in Keys : u # NoUrl /\ identity[j].url = u
                                              /\ identity[j].row = r
    BY DEF ByUrl
  <2>2. Resolve(k, u) \in ByUrl(u)
    BY <1>6 DEF Resolve
  <2>3. PICK i \in Keys : u # NoUrl /\ identity[i].url = u /\ identity[i].row = Resolve(k, u)
    BY <2>1, <2>2
  <2>4. identity[i].row # NoRow
    BY <2>3 DEF PeopleInv, OnlyPersonsHaveData
  <2>5. /\ SourceIdentity(k, u) \in Keys
        /\ identity[SourceIdentity(k, u)].row # NoRow
        /\ identity[SourceIdentity(k, u)].url = u
    BY <1>6, <2>3, <2>4 DEF SourceIdentity
  <2>6. identity[SourceIdentity(k, u)].row = Resolve(k, u)
    BY <2>3, <2>5 DEF PeopleInv, OneRowPerProfile
  <2>7. SourceIdentity(k, u) \notin suppressed
    BY <2>5 DEF PeopleInv, ListedKeysAreGone
  <2> QED
    BY <1>1, <1>3, <1>4, <2>3, <2>4, <2>5, <2>6, <2>7
<1> QED
  BY <1>5, <1>6

\* An ingestion begins with locks nobody holds, on digests nobody has listed.
LEMMA BeginIngestKeepsPeople ==
  ASSUME PeopleTypes, PeopleInv, NEW w \in Workers, NEW k \in Keys,
         NEW u \in Urls \cup {NoUrl}, BeginIngest(w, k, u)
  PROVE  PeopleInv'
<1> DEFINE rw == Resolve(k, u)
           i == SourceIdentity(k, u)
           url == AcceptedUrl(k, u)
           locks == {k, u} \ {NoUrl}
<1>1. /\ work' = [work EXCEPT ![w] = [at |-> "ingest", locks |-> locks, row |-> rw,
                                       identity |-> i, url |-> url]]
      /\ locks \cap suppressed = {}
      /\ url # NoUrl => url \in locks
      /\ rw = NoRow => i \in locks
      /\ i \notin suppressed
      /\ rw = identity[i].row
      /\ url # NoUrl => \A j \in Keys : identity[j].url = url => identity[j].row = rw
  BY BeginIngestReads
<1>2. UNCHANGED <<identity, row, emails, suppressed, evidence>>
  BY DEF BeginIngest
<1>3. CanLock(locks)
  BY DEF BeginIngest, LockedDigests, PersonDigests
<1> HIDE DEF rw, i, url, locks
<1>4. /\ work'[w] = [at |-> "ingest", locks |-> locks, row |-> rw, identity |-> i, url |-> url]
      /\ \A v \in Workers \ {w} : work'[v] = work[v]
  BY <1>1 DEF PeopleTypes
<1>5. LocksApart'
  BY <1>3, <1>4 DEF PeopleInv, LocksApart, HoldsGate, CanLock
<1>6. IngestionsHold'
  BY <1>1, <1>2, <1>4 DEF PeopleInv, IngestionsHold
<1> QED
  BY <1>2, <1>5, <1>6 DEF PeopleInv, ListedKeysAreGone, OnlyPersonsHaveData, OneRowPerProfile

\* What an ingestion writes: one identity, which had the row already unless it
\* had none, and a URL that is its own or that no other candidate has.
LEMMA FinishIngestWrites ==
  ASSUME PeopleTypes, PeopleInv, NEW w \in Workers, FinishIngest(w)
  PROVE  \E i \in Keys, r \in Rows, url \in Urls \cup {NoUrl} :
           /\ identity' = [identity EXCEPT ![i] = [row |-> r, url |-> url]]
           /\ row' = [row EXCEPT ![r] = "person"]
           /\ \A o \in Rows : evidence'[o] = "personal" => evidence[o] = "personal"
           /\ i = work[w].identity /\ i \notin suppressed
           /\ work[w].row = identity[i].row
           /\ identity[i].row \in {NoRow, r}
           /\ identity[i].row = NoRow => i \in work[w].locks
           /\ url \in {NoUrl, identity[i].url} \/ (url \in work[w].locks \ suppressed)
           /\ url # NoUrl => \A j \in Keys : identity[j].url = url => identity[j].row = r
<1>1. PICK r \in IF work[w].row = NoRow THEN FreeRows ELSE {work[w].row} :
        /\ \E url \in UrlsAfter(w) :
             identity' = [identity EXCEPT ![work[w].identity] = [row |-> r, url |-> url]]
        /\ row' = [row EXCEPT ![r] = "person"]
        /\ evidence' = [evidence EXCEPT ![r] = IF @ = "none" THEN "unscored" ELSE @]
  BY DEF FinishIngest
<1>2. PICK url \in UrlsAfter(w) :
        identity' = [identity EXCEPT ![work[w].identity] = [row |-> r, url |-> url]]
  BY <1>1
<1>3. work[w].at = "ingest"
  BY DEF FinishIngest
<1>4. /\ work[w].identity \in Keys /\ work[w].url \in Urls \cup {NoUrl}
      /\ work[w].row \in Rows \cup {NoRow}
  BY <1>3, WorkFields
<1>5. /\ work[w].locks \cap suppressed = {}
      /\ work[w].url # NoUrl => work[w].url \in work[w].locks
      /\ work[w].row = NoRow => work[w].identity \in work[w].locks
      /\ work[w].identity \notin suppressed
      /\ work[w].row = identity[work[w].identity].row
      /\ work[w].url # NoUrl =>
           \A k \in Keys : identity[k].url = work[w].url => identity[k].row = work[w].row
  BY <1>3 DEF PeopleInv, IngestionsHold
<1>6. r \in Rows /\ work[w].row \in {NoRow, r}
  BY <1>1, <1>4 DEF FreeRows
<1>7. url \in Urls \cup {NoUrl}
  BY <1>4 DEF UrlsAfter, PeopleTypes
<1>8. \A o \in Rows : evidence'[o] = "personal" => evidence[o] = "personal"
  BY <1>1, <1>6 DEF PeopleTypes
<1>9. url \in {NoUrl, identity[work[w].identity].url} \/ (url \in work[w].locks \ suppressed)
  BY <1>5 DEF UrlsAfter
<1>10. url # NoUrl => \A j \in Keys : identity[j].url = url => identity[j].row = r
  <2> SUFFICES ASSUME url # NoUrl, NEW j \in Keys, identity[j].url = url
               PROVE  identity[j].row = r
    OBVIOUS
  <2>1. identity[j].row # NoRow
    BY DEF PeopleInv, OnlyPersonsHaveData
  <2>2. CASE url = work[w].url
    BY <1>5, <1>6, <2>1, <2>2
  <2>3. CASE url # work[w].url
    <3>1. work[w].row # NoRow /\ url = identity[work[w].identity].url
      BY <2>3 DEF UrlsAfter
    <3>2. identity[j].row = identity[work[w].identity].row
      BY <1>4, <3>1 DEF PeopleInv, OneRowPerProfile
    <3> QED
      BY <1>5, <1>6, <3>1, <3>2
  <2> QED
    BY <2>2, <2>3
<1> QED
  BY <1>1, <1>2, <1>4, <1>5, <1>6, <1>7, <1>8, <1>9, <1>10

\* It writes what its locks kept true: its identity is still nobody's or its own,
\* and its profile URL nobody else's.
LEMMA FinishIngestKeepsPeople ==
  ASSUME PeopleTypes, PeopleInv, NEW w \in Workers, FinishIngest(w)
  PROVE  PeopleInv'
<1>1. PICK i \in Keys, r \in Rows, url \in Urls \cup {NoUrl} :
           /\ identity' = [identity EXCEPT ![i] = [row |-> r, url |-> url]]
           /\ row' = [row EXCEPT ![r] = "person"]
           /\ \A o \in Rows : evidence'[o] = "personal" => evidence[o] = "personal"
           /\ i = work[w].identity /\ i \notin suppressed
           /\ work[w].row = identity[i].row
           /\ identity[i].row \in {NoRow, r}
           /\ identity[i].row = NoRow => i \in work[w].locks
           /\ url \in {NoUrl, identity[i].url} \/ (url \in work[w].locks \ suppressed)
           /\ url # NoUrl => \A j \in Keys : identity[j].url = url => identity[j].row = r
  BY FinishIngestWrites
<1>2. UNCHANGED <<emails, suppressed>> /\ work[w].at = "ingest"
  BY DEF FinishIngest
<1>3. /\ work'[w].at = "idle"
      /\ \A v \in Workers \ {w} : work'[v] = work[v]
  BY DEF FinishIngest, PeopleTypes, Idle
<1>4. /\ identity'[i].row = r /\ identity'[i].url = url
      /\ \A j \in Keys \ {i} : identity'[j] = identity[j]
  BY <1>1 DEF PeopleTypes
<1>5. /\ row'[r] = "person"
      /\ \A o \in Rows \ {r} : row'[o] = row[o]
  BY <1>1 DEF PeopleTypes
<1>6. r # NoRow
  BY PeopleAssumption
<1>7. LocksApart'
  BY <1>3 DEF PeopleInv, LocksApart, HoldsGate
<1>8. ListedKeysAreGone'
  BY <1>1, <1>2, <1>4 DEF PeopleInv, ListedKeysAreGone
<1>9. OnlyPersonsHaveData'
  <2>1. \A o \in Rows : row[o] = "person" => row'[o] = "person"
    BY <1>5
  <2>2. \A j \in Keys : identity[j].row \in Rows \cup {NoRow}
    BY DEF PeopleTypes
  <2> QED
    BY <1>1, <1>2, <1>4, <1>5, <1>6, <2>1, <2>2 DEF PeopleInv, OnlyPersonsHaveData
<1>10. OneRowPerProfile'
  BY <1>1, <1>4 DEF PeopleInv, OneRowPerProfile
<1>11. IngestionsHold'
  <2> SUFFICES ASSUME NEW v \in Workers, work'[v].at = "ingest"
               PROVE  /\ work'[v].locks \cap suppressed' = {}
                      /\ work'[v].url # NoUrl => work'[v].url \in work'[v].locks
                      /\ work'[v].row = NoRow => work'[v].identity \in work'[v].locks
                      /\ work'[v].identity \notin suppressed'
                      /\ work'[v].row = identity'[work'[v].identity].row
                      /\ work'[v].url # NoUrl =>
                           \A k \in Keys : identity'[k].url = work'[v].url
                                             => identity'[k].row = work'[v].row
    BY DEF IngestionsHold
  <2>1. v # w /\ work'[v] = work[v] /\ work[v].at = "ingest"
    BY <1>3
  <2>2. /\ work[v].locks \cap suppressed = {}
        /\ work[v].url # NoUrl => work[v].url \in work[v].locks
        /\ work[v].row = NoRow => work[v].identity \in work[v].locks
        /\ work[v].identity \notin suppressed
        /\ work[v].row = identity[work[v].identity].row
        /\ work[v].url # NoUrl =>
             \A k \in Keys : identity[k].url = work[v].url => identity[k].row = work[v].row
    BY <2>1 DEF PeopleInv, IngestionsHold
  <2>3. work[v].locks \cap work[w].locks = {}
    BY <1>2, <2>1 DEF PeopleInv, LocksApart, HoldsGate
  <2>4. work[v].identity \in Keys
    BY <2>1, WorkFields
  <2>5. work[v].row = identity'[work[v].identity].row
    BY <1>1, <1>4, <2>2, <2>3, <2>4
  <2>6. ASSUME work[v].url # NoUrl, NEW k \in Keys, identity'[k].url = work[v].url
        PROVE  identity'[k].row = work[v].row
    <3>1. CASE k # i
      BY <1>4, <2>2, <2>6, <3>1
    <3>2. CASE k = i
      <4>1. url = identity[i].url
        BY <1>1, <1>4, <2>2, <2>3, <2>6, <3>2
      <4>2. identity[i].row = work[v].row
        BY <1>4, <2>2, <2>6, <3>2, <4>1
      <4>3. identity[i].row # NoRow
        BY <1>4, <2>6, <3>2, <4>1 DEF PeopleInv, OnlyPersonsHaveData
      <4> QED
        BY <1>1, <1>4, <3>2, <4>2, <4>3
    <3> QED
      BY <3>1, <3>2
  <2> QED
    BY <1>2, <2>1, <2>2, <2>5, <2>6
<1> QED
  BY <1>7, <1>8, <1>9, <1>10, <1>11 DEF PeopleInv

\* A payload takes the locks of its digests, and keeps the data of keys that are
\* not listed and whose candidates were read.
LEMMA PutSnapshotWrites ==
  ASSUME PeopleTypes, NEW w \in Workers, PutSnapshot(w)
  PROVE  /\ CanLock(work'[w].locks)
         /\ work'[w].at = "apply" /\ work'[w].request = work[w].request
         /\ \A v \in Workers \ {w} : work'[v] = work[v]
         /\ \E allowed \in SUBSET Keys :
              /\ object' = [object EXCEPT ![work[w].request] = @ \cup allowed]
              /\ \A k \in allowed : k \notin suppressed /\ work[w].rowOf[k] # NoRow
              /\ \A r \in Rows : work'[w].found[r] # {} => \E k \in allowed : work[w].rowOf[k] = r
<1>0. PICK people \in (SUBSET Keys) \ {{}} :
          \E mail \in [people -> {{}} \cup {{e} : e \in Emails}] :
            /\ CanLock(people \cup UNION {mail[k] : k \in people})
            /\ \A k \in people : work[w].rowOf[k] = NoRow => Suppressed({k})
            /\ object' = [object EXCEPT ![work[w].request] = @ \cup
                 {k \in people : ~Suppressed({k} \cup mail[k])}]
            /\ work' = [work EXCEPT ![w] = [at |-> "apply", request |-> work[w].request,
                 locks |-> people \cup UNION {mail[k] : k \in people},
                 found |-> [r \in Rows |-> UNION {mail[k] : k \in
                   {j \in {k \in people : ~Suppressed({k} \cup mail[k])} :
                      work[w].rowOf[j] = r}}]]]
  BY DEF PutSnapshot
<1>1. PICK mail \in [people -> {{}} \cup {{e} : e \in Emails}] :
            /\ CanLock(people \cup UNION {mail[k] : k \in people})
            /\ \A k \in people : work[w].rowOf[k] = NoRow => Suppressed({k})
            /\ object' = [object EXCEPT ![work[w].request] = @ \cup
                 {k \in people : ~Suppressed({k} \cup mail[k])}]
            /\ work' = [work EXCEPT ![w] = [at |-> "apply", request |-> work[w].request,
                 locks |-> people \cup UNION {mail[k] : k \in people},
                 found |-> [r \in Rows |-> UNION {mail[k] : k \in
                   {j \in {k \in people : ~Suppressed({k} \cup mail[k])} :
                      work[w].rowOf[j] = r}}]]]
  BY <1>0
<1> DEFINE allowed == {k \in people : ~Suppressed({k} \cup mail[k])}
           locks == people \cup UNION {mail[k] : k \in people}
           found == [r \in Rows |-> UNION {mail[k] : k \in
                       {j \in allowed : work[w].rowOf[j] = r}}]
<1>2. \A k \in people : mail[k] \subseteq Emails
  OBVIOUS
<1>3. locks \in SUBSET Digests /\ allowed \in SUBSET Keys /\ found \in [Rows -> SUBSET Emails]
  BY <1>2 DEF Digests
<1>4. \A k \in allowed : k \notin suppressed /\ work[w].rowOf[k] # NoRow
  BY <1>1 DEF Suppressed
<1>5. \A r \in Rows : found[r] # {} => \E k \in allowed : work[w].rowOf[k] = r
  OBVIOUS
<1>6. /\ CanLock(locks)
      /\ object' = [object EXCEPT ![work[w].request] = @ \cup allowed]
      /\ work' = [work EXCEPT ![w] = [at |-> "apply", request |-> work[w].request,
                                      locks |-> locks, found |-> found]]
  BY <1>1
<1> HIDE DEF allowed, locks, found
<1>7. /\ work'[w] = [at |-> "apply", request |-> work[w].request, locks |-> locks, found |-> found]
      /\ \A v \in Workers \ {w} : work'[v] = work[v]
  BY <1>6 DEF PeopleTypes
<1>8. /\ work'[w].at = "apply" /\ work'[w].request = work[w].request
      /\ work'[w].locks = locks /\ work'[w].found = found
  BY <1>7
<1>9. \A r \in Rows : work'[w].found[r] # {} => \E k \in allowed : work[w].rowOf[k] = r
  BY <1>5, <1>8
<1>10. CanLock(work'[w].locks)
  BY <1>6, <1>8
<1> QED
  BY <1>3, <1>4, <1>6, <1>7, <1>8, <1>9, <1>10

\* A payload disturbs nothing of an ingestion.
LEMMA PayloadKeepsPeople ==
  ASSUME PeopleTypes, PeopleInv, PayloadsHold, NEW w \in Workers,
         \/ \E q \in Requests : ReadIdentities(w, q)
         \/ PutSnapshot(w) \/ DropPayload(w) \/ CommitPayload(w) \/ LosePayload(w)
         \/ ReadMatches(w) \/ WriteCards(w)
  PROVE  PeopleInv'
<1>1. UNCHANGED <<identity, row, suppressed, evidence>>
  BY DEF ReadIdentities, PutSnapshot, DropPayload, CommitPayload, LosePayload, ReadMatches,
         WriteCards
<1>2. /\ work'[w].at # "ingest"
      /\ \A v \in Workers \ {w} : work'[v] = work[v]
      /\ work'[w].at = "apply" => CanLock(work'[w].locks)
  <2>1. CASE PutSnapshot(w)
    BY <2>1, PutSnapshotWrites DEF PeopleTypes
  <2>2. CASE ~PutSnapshot(w)
    BY <2>2 DEF ReadIdentities, DropPayload, CommitPayload, LosePayload, ReadMatches,
                WriteCards, PeopleTypes, Idle
  <2> QED
    BY <2>1, <2>2
<1>3. LocksApart'
  BY <1>2 DEF PeopleInv, LocksApart, HoldsGate, CanLock
<1>4. IngestionsHold'
  BY <1>1, <1>2 DEF PeopleInv, IngestionsHold
<1>5. \A r \in Rows : emails'[r] # {} => row[r] = "person"
  <2>1. CASE CommitPayload(w)
    <3>1. \A r \in Rows : emails'[r] = emails[r] \cup work[w].found[r]
      BY <2>1 DEF CommitPayload
    <3>2. work[w].at = "apply"
      BY <2>1 DEF CommitPayload
    <3> QED
      BY <3>1, <3>2 DEF PayloadsHold, PeopleInv, OnlyPersonsHaveData
  <2>2. CASE ~CommitPayload(w)
    <3>1. UNCHANGED emails
      BY <2>2 DEF ReadIdentities, PutSnapshot, DropPayload, LosePayload, ReadMatches, WriteCards
    <3> QED
      BY <3>1 DEF PeopleInv, OnlyPersonsHaveData
  <2> QED
    BY <2>1, <2>2
<1>6. OnlyPersonsHaveData'
  BY <1>1, <1>5 DEF PeopleInv, OnlyPersonsHaveData
<1> QED
  BY <1>1, <1>3, <1>4, <1>6 DEF PeopleInv, ListedKeysAreGone, OneRowPerProfile

\* A redacted row is scored as blank.
LEMMA ScoreKeepsPeople ==
  ASSUME PeopleTypes, PeopleInv, NEW r \in Rows, ScoreRow(r)
  PROVE  PeopleInv'
<1>1. UNCHANGED <<identity, row, emails, suppressed, work>>
  BY DEF ScoreRow
<1>2. \A o \in Rows : evidence'[o] = "personal" => evidence[o] = "personal" \/ row[o] = "person"
  BY DEF ScoreRow, Shown, PeopleTypes
<1> QED
  BY <1>1, <1>2 DEF PeopleInv, LocksApart, HoldsGate, ListedKeysAreGone, OnlyPersonsHaveData,
                    OneRowPerProfile, IngestionsHold

-----------------------------------------------------------------------------
(* The two redactions.                                                      *)

\* The first: the digests that were collected, and those of the candidate now,
\* are listed; what was collected is listed already or the candidate's.
LEMMA PrepareWrites ==
  ASSUME TypeOK, AsksHold, CallsHold, NEW m \in Managers, PrepareDeletion(m)
  PROVE  \E p \in Asks, r \in Rows, D \in SUBSET Digests :
           /\ p = call[m].ask /\ r = ask[p].row /\ DigestsOf(r) \subseteq D
           /\ D = call[m].digests \cup DigestsOf(r)
           /\ \A k \in Keys \cap D : k \in suppressed \/ identity[k].row = r
           /\ suppressed' = suppressed \cup D
           /\ ask[p].state \in {"approved", "executing"} /\ ask[p].kind = "deletion"
           /\ ask'[p].row = r /\ ask'[p].kind = "deletion" /\ ask'[p].state = "executing"
           /\ ask'[p].digests = ask[p].digests \cup D
           /\ \A o \in Asks \ {p} : ask'[o] = ask[o]
           /\ \A k \in Keys : identity'[k] = IF identity[k].row = r
                                             THEN [row |-> NoRow, url |-> NoUrl] ELSE identity[k]
           /\ row' = [row EXCEPT ![r] = "redacted"]
           /\ \A o \in Rows : emails'[o] = IF o = r THEN {} ELSE emails[o]
           /\ \A o \in Rows : evidence'[o] = "personal" => o # r /\ evidence[o] = "personal"
           /\ \A w \in Workers : ~HoldsGate(w)
<1>0. PeopleTypes /\ AskTypes /\ ask \in [Asks -> AskRows]
  BY TypesInParts DEF AskTypes
<1> DEFINE p == call[m].ask
           r == ask[p].row
           D == AllDigests(m)
<1>1. /\ p \in Asks /\ r \in Rows
      /\ ask[p].state \in {"approved", "executing"} /\ ask[p].kind = "deletion"
  BY DEF PrepareDeletion, AsksHold, CallsHold, CollectionsHold
<1>2. D = call[m].digests \cup DigestsOf(r)
  BY DEF AllDigests
<1>3. D \in SUBSET Digests
  BY <1>0, <1>1, <1>2, DigestTypes DEF AskTypes
<1>4. \A k \in Keys \cap DigestsOf(r) : identity[k].row = r
  BY <1>0, <1>1, KeysOfDigests
<1>5. \A k \in Keys \cap D : k \in suppressed \/ identity[k].row = r
  BY <1>2, <1>4 DEF PrepareDeletion, CallsHold, CollectionsHold
<1>6. /\ suppressed' = suppressed \cup D /\ GateIsFree /\ Redact(r)
      /\ ask' = [ask EXCEPT ![p].state = "executing", ![p].digests = @ \cup D]
  BY DEF PrepareDeletion
<1> HIDE DEF p, r, D
<1>7. /\ ask'[p].row = ask[p].row /\ ask'[p].kind = ask[p].kind /\ ask'[p].state = "executing"
      /\ ask'[p].digests = ask[p].digests \cup D
      /\ \A o \in Asks \ {p} : ask'[o] = ask[o]
  BY <1>0, <1>1, <1>6 DEF AskRows
<1>8. /\ \A k \in Keys : identity'[k] = IF identity[k].row = r
                                        THEN [row |-> NoRow, url |-> NoUrl] ELSE identity[k]
      /\ row' = [row EXCEPT ![r] = "redacted"]
      /\ \A o \in Rows : emails'[o] = IF o = r THEN {} ELSE emails[o]
      /\ \A o \in Rows : evidence'[o] = "personal" => o # r /\ evidence[o] = "personal"
  BY <1>0, <1>1, <1>6 DEF Redact, PeopleTypes
<1>9. p = call[m].ask /\ r = ask[p].row
  BY DEF p, r
<1> p \in Asks /\ r \in Rows /\ D \in SUBSET Digests
  BY <1>1, <1>3
<1> WITNESS p \in Asks, r \in Rows, D \in SUBSET Digests
<1> QED
  BY <1>1, <1>2, <1>5, <1>6, <1>7, <1>8, <1>9 DEF GateIsFree

\* The second: nothing was left of the candidate but evidence that says nothing.
LEMMA FinalizeWrites ==
  ASSUME TypeOK, OnlyPersonsHaveData, AsksHold, NEW p \in Asks, Finalize(p)
  PROVE  /\ UNCHANGED <<identity, row, emails>>
         /\ \A r \in Rows : evidence'[r] = "personal" => evidence[r] = "personal"
         /\ \/ UNCHANGED ask
            \/ /\ ask[p].state = "executing" /\ Pending(p) = {}
               /\ ask' = [ask EXCEPT ![p].state = "completed"]
<1>0. PeopleTypes /\ AskTypes
  BY TypesInParts
<1>1. CASE ask[p].state = "executing" /\ Pending(p) = {}
  <2> DEFINE r == ask[p].row
  <2>1. Redact(r) /\ ask' = [ask EXCEPT ![p].state = "completed"]
    BY <1>1 DEF Finalize
  <2>2. r \in Rows /\ row[r] = "redacted"
    BY <1>1 DEF AsksHold, Executed
  <2>3. \A k \in Keys : identity[k].row # r
    BY <2>2, PeopleAssumption DEF OnlyPersonsHaveData
  <2>4. emails[r] = {} /\ evidence[r] # "personal"
    BY <2>2 DEF OnlyPersonsHaveData
  <2> HIDE DEF r
  <2>5. identity' = identity
    BY <1>0, <2>1, <2>3 DEF Redact, PeopleTypes
  <2>6. row' = row /\ emails' = emails
    BY <1>0, <2>1, <2>2, <2>4 DEF Redact, PeopleTypes
  <2>7. \A o \in Rows : evidence'[o] = "personal" => evidence[o] = "personal"
    BY <1>0, <2>1, <2>2 DEF Redact, PeopleTypes
  <2> QED
    BY <1>1, <2>1, <2>5, <2>6, <2>7
<1>2. CASE ~(ask[p].state = "executing" /\ Pending(p) = {})
  BY <1>2 DEF Finalize
<1> QED
  BY <1>1, <1>2

\* A deletion is prepared while no transaction is open under a lock.
LEMMA PrepareKeepsPeople ==
  ASSUME DeletionInv, NEW m \in Managers, PrepareDeletion(m)
  PROVE  PeopleInv'
<1>0. TypeOK /\ PeopleTypes /\ AsksHold /\ CallsHold /\ PeopleInv
  BY TypesInParts DEF DeletionInv, RequestInv
<1>1. PICK p \in Asks, r \in Rows, D \in SUBSET Digests :
           /\ \A k \in Keys \cap D : k \in suppressed \/ identity[k].row = r
           /\ suppressed' = suppressed \cup D
           /\ \A k \in Keys : identity'[k] = IF identity[k].row = r
                                             THEN [row |-> NoRow, url |-> NoUrl] ELSE identity[k]
           /\ row' = [row EXCEPT ![r] = "redacted"]
           /\ \A o \in Rows : emails'[o] = IF o = r THEN {} ELSE emails[o]
           /\ \A o \in Rows : evidence'[o] = "personal" => o # r /\ evidence[o] = "personal"
           /\ \A w \in Workers : ~HoldsGate(w)
  BY <1>0, PrepareWrites
<1>2. UNCHANGED work
  BY DEF PrepareDeletion
<1>3. LocksApart' /\ IngestionsHold'
  BY <1>1, <1>2 DEF LocksApart, IngestionsHold, HoldsGate
<1>4. ListedKeysAreGone'
  BY <1>0, <1>1 DEF PeopleInv, ListedKeysAreGone
<1>5. OnlyPersonsHaveData'
  <2>1. \A o \in Rows : o # r => row'[o] = row[o]
    BY <1>0, <1>1 DEF PeopleTypes
  <2>2. \A k \in Keys : identity[k].row \in Rows \cup {NoRow}
    BY <1>0 DEF PeopleTypes
  <2> QED
    BY <1>0, <1>1, <2>1, <2>2 DEF PeopleInv, OnlyPersonsHaveData
<1>6. OneRowPerProfile'
  BY <1>0, <1>1 DEF PeopleInv, OneRowPerProfile
<1> QED
  BY <1>3, <1>4, <1>5, <1>6 DEF PeopleInv

\* The redacted row of the request has nothing left for finalization to change, but
\* for evidence, which it only makes less.
LEMMA FinalizeKeepsPeople ==
  ASSUME TypeOK, PeopleInv, AsksHold, NEW p \in Asks, Finalize(p),
         UNCHANGED <<suppressed, work>>
  PROVE  PeopleInv'
<1>1. /\ UNCHANGED <<identity, row, emails, suppressed, work>>
      /\ \A r \in Rows : evidence'[r] = "personal" => evidence[r] = "personal"
  BY FinalizeWrites DEF PeopleInv
<1> QED
  BY <1>1 DEF PeopleInv, LocksApart, HoldsGate, ListedKeysAreGone, OnlyPersonsHaveData,
              OneRowPerProfile, IngestionsHold

\* What every other step leaves alone: people, their snapshots but for the purge
\* and the expiry, and the digests of requests.
LEMMA OtherSteps ==
  ASSUME [DeletionNext]_deletionVars
  PROVE  \/ PeopleNext
         \/ \E m \in Managers : PrepareDeletion(m) \/ FinishCall(m)
         \/ \E c \in Cleaners : FinishTask(c)
         \/ UNCHANGED <<identity, row, emails, suppressed, evidence, work, asked>>
<1> DEFINE Same == UNCHANGED <<identity, row, emails, suppressed, evidence, work, asked>>
<1>1. ASSUME NEW p \in Asks,
             \/ \E r \in Rows, kind \in Kinds : Submit(p, r, kind)
             \/ Verify(p) \/ Approve(p) \/ Reject(p) \/ Fulfil(p)
             \/ Resume(p)
             \/ \E q \in Requests : BackoffEnds(p, q)
      PROVE  Same
  BY <1>1 DEF Submit, Verify, Approve, Reject, Fulfil, Move, Resume, BackoffEnds, peopleVars
<1>2. ASSUME NEW m \in Managers, (\E p \in Asks : CollectDigests(m, p)) \/ CallDies(m)
      PROVE  Same
  BY <1>2 DEF CollectDigests, CallDies, peopleVars
<1>3. ASSUME NEW c \in Cleaners,
             \/ \E p \in Asks : TakeOrder(c, p)
             \/ ClaimTargets(c) \/ ClaimExpired(c)
             \/ \E q \in Requests : Purge(c, q) \/ PurgeFails(c, q)
             \/ MarkDeleted(c) \/ EndBatch(c) \/ CleanerDies(c)
      PROVE  Same
  BY <1>3 DEF TakeOrder, ClaimTargets, ClaimExpired, Purge, PurgeFails, MarkDeleted, EndBatch,
              CleanerDies, peopleVars
<1>4. ASSUME \/ \E l \in leased : LeaseEnds(l)
             \/ \E q \in Requests : SnapshotExpires(q)
             \/ UNCHANGED deletionVars
      PROVE  Same
  BY <1>4 DEF LeaseEnds, SnapshotExpires, deletionVars, peopleVars
<1> HIDE DEF Same
<1>5. PrivacyNext => \/ \E m \in Managers : PrepareDeletion(m) \/ FinishCall(m)
                     \/ \E c \in Cleaners : FinishTask(c)
                     \/ Same
  BY <1>1, <1>2, <1>3, <1>4 DEF PrivacyNext
<1>6. \/ PeopleNext
      \/ \E m \in Managers : PrepareDeletion(m) \/ FinishCall(m)
      \/ \E c \in Cleaners : FinishTask(c)
      \/ Same
  BY <1>4, <1>5 DEF DeletionNext
<1> QED
  BY <1>6 DEF Same

\* Every step keeps it.
LEMMA PeopleInvKept ==
  ASSUME DeletionInv, [DeletionNext]_deletionVars
  PROVE  PeopleInv'
<1>0. /\ TypeOK /\ PeopleTypes /\ PeopleInv /\ PayloadsHold
      /\ AsksHold /\ CallsHold /\ CleanersHold
  BY TypesInParts DEF DeletionInv, SnapshotInv, RequestInv
<1>1. CASE PeopleNext
  <2>1. ASSUME NEW w \in Workers, NEW k \in Keys, NEW u \in Urls \cup {NoUrl},
               BeginIngest(w, k, u)
        PROVE  PeopleInv'
    BY <1>0, <2>1, BeginIngestKeepsPeople
  <2>2. ASSUME NEW w \in Workers, FinishIngest(w)
        PROVE  PeopleInv'
    BY <1>0, <2>2, FinishIngestKeepsPeople
  <2>3. ASSUME NEW w \in Workers,
               \/ \E q \in Requests : ReadIdentities(w, q)
               \/ PutSnapshot(w) \/ DropPayload(w) \/ CommitPayload(w) \/ LosePayload(w)
               \/ ReadMatches(w) \/ WriteCards(w)
        PROVE  PeopleInv'
    BY <1>0, <2>3, PayloadKeepsPeople
  <2>4. ASSUME NEW r \in Rows, ScoreRow(r)
        PROVE  PeopleInv'
    BY <1>0, <2>4, ScoreKeepsPeople
  <2>5. ASSUME NEW q \in Requests, AskEnrichment(q)
        PROVE  PeopleInv'
    BY <1>0, <2>5, PeopleInvStays DEF AskEnrichment
  <2> QED
    BY <1>1, <2>1, <2>2, <2>3, <2>4, <2>5 DEF PeopleNext
<1>2. ASSUME NEW m \in Managers, PrepareDeletion(m)
      PROVE  PeopleInv'
  BY <1>2, PrepareKeepsPeople
<1>3. ASSUME NEW m \in Managers, FinishCall(m)
      PROVE  PeopleInv'
  <2>1. call[m].ask \in Asks /\ Finalize(call[m].ask) /\ UNCHANGED <<suppressed, work>>
    BY <1>0, <1>3 DEF FinishCall, CallsHold
  <2> QED
    BY <1>0, <2>1, FinalizeKeepsPeople
<1>4. ASSUME NEW c \in Cleaners, FinishTask(c)
      PROVE  PeopleInv'
  <2>1. cleaner[c].ask \in Asks /\ Finalize(cleaner[c].ask) /\ UNCHANGED <<suppressed, work>>
    BY <1>0, <1>4 DEF FinishTask, CleanersHold
  <2> QED
    BY <1>0, <2>1, FinalizeKeepsPeople
<1>5. ASSUME UNCHANGED <<identity, row, emails, suppressed, evidence, work>>
      PROVE  PeopleInv'
  BY <1>0, <1>5, PeopleInvStays
<1>6. \/ PeopleNext
      \/ \E m \in Managers : PrepareDeletion(m) \/ FinishCall(m)
      \/ \E c \in Cleaners : FinishTask(c)
      \/ UNCHANGED <<identity, row, emails, suppressed, evidence, work>>
  BY OtherSteps
<1> QED
  BY <1>1, <1>2, <1>3, <1>4, <1>5, <1>6

-----------------------------------------------------------------------------
(* Snapshots: whose data they hold.                                         *)

\* A key that is not listed stays with its candidate; a request keeps its
\* candidates; and a person is redacted only behind the gate, for good.
LEMMA IdentitiesStay ==
  ASSUME DeletionInv, [DeletionNext]_deletionVars
  PROVE  /\ suppressed \subseteq suppressed'
         /\ \A k \in Keys : identity[k].row # NoRow /\ k \notin suppressed'
                              => identity'[k].row = identity[k].row
         /\ \A q \in Requests : asked[q] \subseteq asked'[q]
         /\ \A r \in Rows : row[r] = "person" /\ row'[r] # "person"
                              => UNCHANGED work /\ \A w \in Workers : ~HoldsGate(w)
         /\ \A r \in Rows : row[r] = "redacted" => row'[r] = "redacted"
<1>0. /\ TypeOK /\ PeopleTypes /\ PeopleInv /\ OnlyPersonsHaveData
      /\ AsksHold /\ CallsHold /\ CleanersHold
  BY TypesInParts DEF DeletionInv, PeopleInv, RequestInv
<1>1. \A q \in Requests : asked[q] \subseteq asked'[q]
  <2>1. (\E q \in Requests : AskEnrichment(q)) \/ UNCHANGED asked
    <3>1. PeopleNext => (\E q \in Requests : AskEnrichment(q)) \/ UNCHANGED asked
      BY DEF PeopleNext, BeginIngest, FinishIngest, ScoreRow, ReadMatches, WriteCards,
             ReadIdentities, PutSnapshot, DropPayload, CommitPayload, LosePayload
    <3>2. ASSUME \/ \E m \in Managers : PrepareDeletion(m) \/ FinishCall(m)
                 \/ \E c \in Cleaners : FinishTask(c)
          PROVE  UNCHANGED asked
      BY <3>2 DEF PrepareDeletion, FinishCall, FinishTask
    <3> QED
      BY <3>1, <3>2, OtherSteps
  <2>2. ASSUME NEW q \in Requests, AskEnrichment(q)
        PROVE  \A o \in Requests : asked[o] \subseteq asked'[o]
    BY <1>0, <2>2 DEF AskEnrichment, PeopleTypes
  <2> QED
    BY <2>1, <2>2
<1>2. ASSUME NEW w \in Workers, FinishIngest(w)
      PROVE  /\ UNCHANGED suppressed
             /\ \A k \in Keys : identity[k].row # NoRow => identity'[k].row = identity[k].row
             /\ \A r \in Rows : row[r] = "person" => row'[r] = "person"
             /\ \A r \in Rows : row[r] = "redacted" => row'[r] = "redacted"
  <2>1. PICK i \in Keys, r \in Rows, url \in Urls \cup {NoUrl} :
           /\ identity' = [identity EXCEPT ![i] = [row |-> r, url |-> url]]
           /\ row' = [row EXCEPT ![r] = "person"]
           /\ work[w].row = identity[i].row
           /\ identity[i].row \in {NoRow, r}
    BY <1>0, <1>2, FinishIngestWrites
  <2>2. \A k \in Keys : identity[k].row # NoRow => identity'[k].row = identity[k].row
    BY <1>0, <2>1 DEF PeopleTypes
  <2>3. \A o \in Rows : row[o] = "person" => row'[o] = "person"
    BY <1>0, <2>1 DEF PeopleTypes
  <2>4. row[r] # "redacted"
    <3>1. CASE work[w].row = NoRow
      <4>1. PICK f \in FreeRows : row' = [row EXCEPT ![f] = "person"]
        BY <1>2, <3>1 DEF FinishIngest
      <4>2. row'[r] = "person" /\ (f # r => row'[r] = row[r])
        BY <1>0, <2>1, <4>1 DEF PeopleTypes, FreeRows
      <4> QED
        BY <4>1, <4>2 DEF FreeRows
    <3>2. CASE work[w].row # NoRow
      BY <1>0, <2>1, <3>2 DEF OnlyPersonsHaveData
    <3> QED
      BY <3>1, <3>2
  <2>5. \A o \in Rows : row[o] = "redacted" => row'[o] = "redacted"
    BY <1>0, <2>1, <2>4 DEF PeopleTypes
  <2> QED
    BY <1>2, <2>2, <2>3, <2>5 DEF FinishIngest
<1>3. ASSUME NEW m \in Managers, PrepareDeletion(m)
      PROVE  /\ suppressed \subseteq suppressed'
             /\ \A k \in Keys : k \notin suppressed' => identity'[k].row = identity[k].row
             /\ UNCHANGED work /\ \A w \in Workers : ~HoldsGate(w)
             /\ \A r \in Rows : row[r] = "redacted" => row'[r] = "redacted"
  <2>1. PICK p \in Asks, r \in Rows, D \in SUBSET Digests :
           /\ DigestsOf(r) \subseteq D
           /\ suppressed' = suppressed \cup D
           /\ \A k \in Keys : identity'[k] = IF identity[k].row = r
                                             THEN [row |-> NoRow, url |-> NoUrl] ELSE identity[k]
           /\ row' = [row EXCEPT ![r] = "redacted"]
           /\ \A w \in Workers : ~HoldsGate(w)
    BY <1>0, <1>3, PrepareWrites
  <2>2. \A k \in Keys : identity[k].row = r => k \in D
    BY <2>1, PeopleAssumption DEF DigestsOf, KeysOf
  <2>3. \A o \in Rows : row[o] = "redacted" => row'[o] = "redacted"
    BY <1>0, <2>1 DEF PeopleTypes
  <2> QED
    BY <1>3, <2>1, <2>2, <2>3 DEF PrepareDeletion
<1>4. ASSUME \/ \E m \in Managers : FinishCall(m)
             \/ \E c \in Cleaners : FinishTask(c)
      PROVE  UNCHANGED <<identity, row, suppressed>>
  <2>1. ASSUME NEW m \in Managers, FinishCall(m)
        PROVE  UNCHANGED <<identity, row, suppressed>>
    BY <1>0, <2>1, FinalizeWrites DEF FinishCall, CallsHold
  <2>2. ASSUME NEW c \in Cleaners, FinishTask(c)
        PROVE  UNCHANGED <<identity, row, suppressed>>
    BY <1>0, <2>2, FinalizeWrites DEF FinishTask, CleanersHold
  <2> QED
    BY <1>4, <2>1, <2>2
<1>5. PeopleNext => (\E w \in Workers : FinishIngest(w)) \/ UNCHANGED <<identity, row, suppressed>>
  BY DEF PeopleNext, BeginIngest, ScoreRow, ReadMatches, WriteCards, AskEnrichment,
         ReadIdentities, PutSnapshot, DropPayload, CommitPayload, LosePayload
<1>6. \/ \E w \in Workers : FinishIngest(w)
      \/ \E m \in Managers : PrepareDeletion(m)
      \/ UNCHANGED <<identity, row, suppressed>>
  BY <1>4, <1>5, OtherSteps
<1>7. CASE UNCHANGED <<identity, row, suppressed>>
  BY <1>1, <1>7
<1>8. CASE \E w \in Workers : FinishIngest(w)
  BY <1>1, <1>2, <1>8
<1>9. CASE \E m \in Managers : PrepareDeletion(m)
  BY <1>1, <1>3, <1>9
<1> QED
  BY <1>6, <1>7, <1>8, <1>9

\* Who changes the place of a worker.
LEMMA WorkSteps ==
  ASSUME DeletionInv, [DeletionNext]_deletionVars, NEW v \in Workers
  PROVE  \/ work'[v] = work[v]
         \/ \E q \in Requests : ReadIdentities(v, q)
         \/ PutSnapshot(v)
         \/ CommitPayload(v) \/ LosePayload(v)
         \/ work'[v].at \notin {"read", "apply"} /\ work[v].at # "apply"
<1>0. PeopleTypes
  BY TypesInParts DEF DeletionInv
<1>1. ASSUME NEW w \in Workers,
             \/ \E k \in Keys, u \in Urls \cup {NoUrl} : BeginIngest(w, k, u)
             \/ FinishIngest(w)
             \/ ReadMatches(w) \/ WriteCards(w)
             \/ DropPayload(w)
      PROVE  work'[v] = work[v] \/ (work'[v].at \notin {"read", "apply"} /\ work[v].at # "apply")
  BY <1>0, <1>1 DEF BeginIngest, FinishIngest, ReadMatches, WriteCards, DropPayload, Idle,
                    PeopleTypes
<1>2. ASSUME NEW w \in Workers, w # v,
             \/ \E q \in Requests : ReadIdentities(w, q)
             \/ PutSnapshot(w) \/ CommitPayload(w) \/ LosePayload(w)
      PROVE  work'[v] = work[v]
  <2>1. CASE PutSnapshot(w)
    BY <1>0, <1>2, <2>1, PutSnapshotWrites
  <2>2. CASE ~PutSnapshot(w)
    BY <1>0, <1>2, <2>2 DEF ReadIdentities, CommitPayload, LosePayload, PeopleTypes
  <2> QED
    BY <2>1, <2>2
<1>3. ASSUME \/ \E r \in Rows : ScoreRow(r)
             \/ \E q \in Requests : AskEnrichment(q)
             \/ \E m \in Managers : PrepareDeletion(m) \/ FinishCall(m)
             \/ \E c \in Cleaners : FinishTask(c)
      PROVE  UNCHANGED work
  BY <1>3 DEF ScoreRow, AskEnrichment, PrepareDeletion, FinishCall, FinishTask
<1>4. PeopleNext \/ UNCHANGED work
  BY <1>3, OtherSteps
<1> QED
  BY <1>1, <1>2, <1>3, <1>4 DEF PeopleNext

\* What a payload read of its identities stays true until they are listed.
LEMMA ReadsKept ==
  ASSUME DeletionInv, [DeletionNext]_deletionVars
  PROVE  ReadsHold'
<1>0. PeopleTypes /\ ReadsHold
  BY TypesInParts DEF DeletionInv, SnapshotInv
<1> SUFFICES ASSUME NEW w \in Workers, work'[w].at = "read",
                    NEW k \in Keys, work'[w].rowOf[k] # NoRow
             PROVE  /\ work'[w].rowOf[k] \in asked'[work'[w].request]
                    /\ k \in suppressed' \/ identity'[k].row = work'[w].rowOf[k]
  BY DEF ReadsHold
<1>1. CASE work'[w] = work[w]
  <2>1. work[w].request \in Requests
    BY <1>0, <1>1, WorkFields
  <2>2. /\ work[w].rowOf[k] \in asked[work[w].request]
        /\ k \in suppressed \/ identity[k].row = work[w].rowOf[k]
    BY <1>0, <1>1 DEF ReadsHold
  <2> QED
    BY <1>1, <2>1, <2>2, IdentitiesStay
<1>2. ASSUME NEW q \in Requests, ReadIdentities(w, q)
      PROVE  /\ work'[w].rowOf[k] \in asked'[work'[w].request]
             /\ k \in suppressed' \/ identity'[k].row = work'[w].rowOf[k]
  BY <1>0, <1>2 DEF ReadIdentities, PeopleTypes
<1>3. ~PutSnapshot(w) /\ ~CommitPayload(w) /\ ~LosePayload(w)
  BY <1>0, PutSnapshotWrites DEF CommitPayload, LosePayload, Idle, PeopleTypes
<1> QED
  BY <1>1, <1>2, <1>3, WorkSteps

\* What a payload keeps belongs to a candidate of its request.
LEMMA PutSnapshotKeeps ==
  ASSUME DeletionInv, NEW w \in Workers, PutSnapshot(w)
  PROVE  /\ work[w].request \in Requests
         /\ \E allowed \in SUBSET Keys :
              /\ object' = [object EXCEPT ![work[w].request] = @ \cup allowed]
              /\ \A k \in allowed : /\ k \notin suppressed
                                    /\ identity[k].row \in asked[work[w].request]
                                    /\ row[identity[k].row] = "person"
              /\ \A r \in Rows : work'[w].found[r] # {} => \E k \in allowed : identity[k].row = r
<1>0. PeopleTypes /\ ReadsHold /\ OnlyPersonsHaveData /\ work[w].at = "read"
  BY TypesInParts DEF DeletionInv, SnapshotInv, PeopleInv, PutSnapshot
<1>1. work[w].request \in Requests
  BY <1>0, WorkFields
<1>2. PICK allowed \in SUBSET Keys :
        /\ object' = [object EXCEPT ![work[w].request] = @ \cup allowed]
        /\ \A k \in allowed : k \notin suppressed /\ work[w].rowOf[k] # NoRow
        /\ \A r \in Rows : work'[w].found[r] # {} => \E k \in allowed : work[w].rowOf[k] = r
  BY <1>0, PutSnapshotWrites
<1>3. \A k \in allowed : /\ identity[k].row = work[w].rowOf[k]
                         /\ identity[k].row \in asked[work[w].request]
                         /\ identity[k].row # NoRow
  BY <1>0, <1>2 DEF ReadsHold
<1>4. \A k \in allowed : row[identity[k].row] = "person"
  BY <1>0, <1>2, <1>3 DEF OnlyPersonsHaveData
<1>5. \A r \in Rows : work'[w].found[r] # {} => \E k \in allowed : identity[k].row = r
  BY <1>2, <1>3
<1> QED
  BY <1>1, <1>2, <1>3, <1>4, <1>5

\* A payload's locks keep the persons it has addresses for.
LEMMA PayloadsKept ==
  ASSUME DeletionInv, [DeletionNext]_deletionVars
  PROVE  PayloadsHold'
<1>0. PeopleTypes /\ PayloadsHold
  BY TypesInParts DEF DeletionInv, SnapshotInv
<1> SUFFICES ASSUME NEW w \in Workers, work'[w].at = "apply",
                    NEW r \in Rows, work'[w].found[r] # {}
             PROVE  row'[r] = "person"
  BY DEF PayloadsHold
<1>1. CASE work'[w] = work[w]
  BY <1>0, <1>1, IdentitiesStay DEF PayloadsHold, HoldsGate
<1>2. CASE PutSnapshot(w)
  <2>1. \E k \in Keys : identity[k].row = r /\ row[identity[k].row] = "person"
    BY <1>2, PutSnapshotKeeps
  <2>2. UNCHANGED row
    BY <1>2 DEF PutSnapshot
  <2> QED
    BY <2>1, <2>2
<1>3. ~CommitPayload(w) /\ ~LosePayload(w) /\ \A q \in Requests : ~ReadIdentities(w, q)
  BY <1>0 DEF CommitPayload, LosePayload, ReadIdentities, Idle, PeopleTypes
<1> QED
  BY <1>1, <1>2, <1>3, WorkSteps

\* Who changes snapshots, their rows, or what is known of lost ones.
LEMMA SnapshotSteps ==
  ASSUME [DeletionNext]_deletionVars
  PROVE  \/ \E w \in Workers : PutSnapshot(w) \/ CommitPayload(w) \/ LosePayload(w)
         \/ \E c \in Cleaners : \/ ClaimExpired(c) \/ MarkDeleted(c)
                                \/ \E q \in Requests : Purge(c, q) \/ PurgeFails(c, q)
         \/ \E q \in Requests : SnapshotExpires(q)
         \/ UNCHANGED <<object, reference, lost>>
<1> DEFINE Same == UNCHANGED <<object, reference, lost>>
           Touch == \/ \E w \in Workers : PutSnapshot(w) \/ CommitPayload(w) \/ LosePayload(w)
                    \/ \E c \in Cleaners : \/ ClaimExpired(c) \/ MarkDeleted(c)
                                           \/ \E q \in Requests : Purge(c, q) \/ PurgeFails(c, q)
                    \/ \E q \in Requests : SnapshotExpires(q)
<1>1. ASSUME PeopleNext
      PROVE  Same \/ Touch
  BY <1>1 DEF PeopleNext, BeginIngest, FinishIngest, ScoreRow, ReadMatches, WriteCards,
              AskEnrichment, ReadIdentities, DropPayload
<1>2. ASSUME NEW p \in Asks,
             \/ \E r \in Rows, kind \in Kinds : Submit(p, r, kind)
             \/ Verify(p) \/ Approve(p) \/ Reject(p) \/ Fulfil(p)
             \/ Resume(p)
             \/ \E q \in Requests : BackoffEnds(p, q)
      PROVE  Same
  BY <1>2 DEF Submit, Verify, Approve, Reject, Fulfil, Move, Resume, BackoffEnds, peopleVars
<1>3. ASSUME NEW m \in Managers,
             \/ \E p \in Asks : CollectDigests(m, p)
             \/ PrepareDeletion(m) \/ FinishCall(m) \/ CallDies(m)
      PROVE  Same
  BY <1>3 DEF CollectDigests, PrepareDeletion, FinishCall, CallDies, peopleVars
<1>4. ASSUME NEW c \in Cleaners,
             \/ \E p \in Asks : TakeOrder(c, p)
             \/ ClaimTargets(c) \/ EndBatch(c) \/ FinishTask(c) \/ CleanerDies(c)
      PROVE  Same
  BY <1>4 DEF TakeOrder, ClaimTargets, EndBatch, FinishTask, CleanerDies, peopleVars
<1>5. ASSUME (\E l \in leased : LeaseEnds(l)) \/ UNCHANGED deletionVars
      PROVE  Same
  BY <1>5 DEF LeaseEnds, deletionVars, peopleVars
<1> HIDE DEF Same
<1>6. PrivacyNext => Same \/ Touch
  BY <1>2, <1>3, <1>4, <1>5 DEF PrivacyNext
<1>7. Same \/ Touch
  BY <1>1, <1>5, <1>6 DEF DeletionNext
<1> QED
  BY <1>7 DEF Same

\* A snapshot changes only by a payload and by a purge.
LEMMA ObjectSteps ==
  ASSUME [DeletionNext]_deletionVars
  PROVE  \/ \E w \in Workers : PutSnapshot(w)
         \/ \E c \in Cleaners, q \in Requests : Purge(c, q)
         \/ UNCHANGED object
<1>1. ASSUME \/ \E w \in Workers : CommitPayload(w) \/ LosePayload(w)
             \/ \E c \in Cleaners : \/ ClaimExpired(c) \/ MarkDeleted(c)
                                    \/ \E q \in Requests : PurgeFails(c, q)
             \/ \E q \in Requests : SnapshotExpires(q)
      PROVE  UNCHANGED object
  BY <1>1 DEF CommitPayload, LosePayload, ClaimExpired, MarkDeleted, PurgeFails, SnapshotExpires
<1> QED
  BY <1>1, SnapshotSteps

\* An object never gets the data of others than its request's candidates.
LEMMA ObjectsKept ==
  ASSUME DeletionInv, [DeletionNext]_deletionVars
  PROVE  ObjectsOfRequests'
<1>0. PeopleTypes /\ ObjectsOfRequests /\ (\A r \in Rows : r # NoRow)
  BY TypesInParts, PeopleAssumption DEF DeletionInv, SnapshotInv
<1>1. ASSUME NEW q \in Requests, NEW k \in object[q]
      PROVE  k \in suppressed' \/ identity'[k].row \in asked'[q]
  <2>1. k \in suppressed \/ identity[k].row \in asked[q]
    BY <1>0, <1>1 DEF ObjectsOfRequests
  <2>2. k \in Keys /\ asked[q] \subseteq Rows
    BY <1>0, <1>1 DEF PeopleTypes
  <2> QED
    BY <1>0, <2>1, <2>2, IdentitiesStay
<1>2. ASSUME NEW w \in Workers, PutSnapshot(w)
      PROVE  ObjectsOfRequests'
  <2>1. PICK allowed \in SUBSET Keys :
          /\ object' = [object EXCEPT ![work[w].request] = @ \cup allowed]
          /\ \A k \in allowed : identity[k].row \in asked[work[w].request]
    BY <1>2, PutSnapshotKeeps
  <2>2. UNCHANGED <<identity, asked, suppressed>>
    BY <1>2 DEF PutSnapshot
  <2>3. work[w].request \in Requests
    BY <1>2, PutSnapshotKeeps
  <2> QED
    BY <1>0, <2>1, <2>2, <2>3 DEF ObjectsOfRequests, PeopleTypes
<1>3. ASSUME NEW c \in Cleaners, NEW q \in Requests, Purge(c, q)
      PROVE  ObjectsOfRequests'
  <2>1. \A o \in Requests : object'[o] \subseteq object[o]
    BY <1>0, <1>3 DEF Purge, PeopleTypes
  <2> QED
    BY <1>1, <2>1 DEF ObjectsOfRequests
<1>4. CASE UNCHANGED object
  BY <1>1, <1>4 DEF ObjectsOfRequests
<1> QED
  BY <1>2, <1>3, <1>4, ObjectSteps

\* A snapshot that appears is known by the payload that put it; that payload
\* makes it a row or loses it, and no other step takes the row away from data.
LEMMA KnownKept ==
  ASSUME DeletionInv, [DeletionNext]_deletionVars
  PROVE  ObjectsAreKnown'
<1>0. /\ TypeOK /\ PeopleTypes /\ AskTypes /\ CleanerTypes
      /\ ObjectsAreKnown /\ ReadsHold /\ CleanersHold
  BY TypesInParts DEF DeletionInv, SnapshotInv, RequestInv
<1>1. ASSUME NEW w \in Workers, PutSnapshot(w)
      PROVE  ObjectsAreKnown'
  <2>1. /\ work'[w].at = "apply" /\ work'[w].request = work[w].request
        /\ \A v \in Workers \ {w} : work'[v] = work[v]
    BY <1>0, <1>1, PutSnapshotWrites
  <2>2. work[w].at = "read" /\ UNCHANGED <<reference, lost>>
    BY <1>1 DEF PutSnapshot
  <2>3. \A q \in Requests : q # work[w].request => object'[q] = object[q]
    BY <1>0, <1>1, PutSnapshotKeeps DEF PeopleTypes
  <2> SUFFICES ASSUME NEW q \in Requests, object'[q] # {}
               PROVE  \/ reference'[q].at # "none"
                      \/ q \in lost'
                      \/ \E v \in Workers : work'[v].at = "apply" /\ work'[v].request = q
    BY DEF ObjectsAreKnown
  <2>4. CASE q = work[w].request
    BY <2>1, <2>4
  <2>5. CASE q # work[w].request
    <3>1. object[q] # {}
      BY <2>3, <2>5
    <3>2. CASE \E v \in Workers : work[v].at = "apply" /\ work[v].request = q
      BY <2>1, <2>2, <3>2
    <3> QED
      BY <1>0, <2>2, <3>1, <3>2 DEF ObjectsAreKnown
  <2> QED
    BY <2>4, <2>5
<1>2. ASSUME NEW w \in Workers, CommitPayload(w) \/ LosePayload(w)
      PROVE  ObjectsAreKnown'
  <2>1. work[w].at = "apply" /\ work[w].request \in Requests
    BY <1>0, <1>2, WorkFields DEF CommitPayload, LosePayload
  <2>2. UNCHANGED object /\ \A v \in Workers \ {w} : work'[v] = work[v]
    BY <1>0, <1>2 DEF CommitPayload, LosePayload, PeopleTypes
  <2>3. /\ reference'[work[w].request].at # "none" \/ work[w].request \in lost'
        /\ \A q \in Requests : reference[q].at # "none" => reference'[q].at # "none"
        /\ lost \subseteq lost'
    <3>1. CASE CommitPayload(w)
      BY <1>0, <2>1, <3>1 DEF CommitPayload, PeopleTypes
    <3>2. CASE LosePayload(w)
      BY <1>0, <2>1, <3>2 DEF LosePayload, PeopleTypes
    <3> QED
      BY <1>2, <3>1, <3>2
  <2> QED
    BY <1>0, <2>2, <2>3 DEF ObjectsAreKnown
<1>3. ASSUME UNCHANGED work,
             \A q \in Requests : object'[q] # {} => object[q] # {},
             \A q \in Requests : object'[q] # {} /\ reference[q].at # "none"
                                   => reference'[q].at # "none" \/ q \in lost',
             \A q \in Requests : object'[q] # {} /\ q \in lost => q \in lost'
      PROVE  ObjectsAreKnown'
  BY <1>0, <1>3 DEF ObjectsAreKnown
<1>4. ASSUME NEW c \in Cleaners, ClaimExpired(c)
      PROVE  ObjectsAreKnown'
  <2>1. \A q \in Requests : reference'[q].at = reference[q].at
    BY <1>0, <1>4 DEF ClaimExpired, PeopleTypes
  <2> QED
    BY <1>3, <1>4, <2>1 DEF ClaimExpired
<1>5. ASSUME NEW c \in Cleaners, MarkDeleted(c)
      PROVE  ObjectsAreKnown'
  <2>1. cleaner[c].item \in Requests /\ UNCHANGED <<object, work>>
    BY <1>0, <1>5 DEF MarkDeleted, CleanersHold
  <2>2. \/ UNCHANGED <<reference, lost>>
        \/ /\ reference' = [reference EXCEPT ![cleaner[c].item] = NoReference]
           /\ lost' = IF object[cleaner[c].item] = {} THEN lost
                      ELSE lost \cup {cleaner[c].item}
    BY <1>5 DEF MarkDeleted
  <2>3. CASE UNCHANGED <<reference, lost>>
    BY <1>3, <2>1, <2>3
  <2>4. CASE /\ reference' = [reference EXCEPT ![cleaner[c].item] = NoReference]
             /\ lost' = IF object[cleaner[c].item] = {} THEN lost
                        ELSE lost \cup {cleaner[c].item}
    <3>1. \A q \in Requests : q # cleaner[c].item => reference'[q] = reference[q]
      BY <1>0, <2>1, <2>4 DEF PeopleTypes
    <3> QED
      BY <1>3, <2>1, <2>4, <3>1
  <2> QED
    BY <2>2, <2>3, <2>4
<1>6. ASSUME NEW c \in Cleaners, NEW q \in Requests, Purge(c, q)
      PROVE  ObjectsAreKnown'
  <2>1. /\ UNCHANGED <<work, reference>>
        /\ object'[q] = {} /\ \A o \in Requests \ {q} : object'[o] = object[o]
        /\ lost' = lost \ {q}
    BY <1>0, <1>6 DEF Purge, PeopleTypes
  <2> QED
    BY <1>3, <2>1
<1>7. ASSUME NEW c \in Cleaners, NEW q \in Requests, PurgeFails(c, q)
      PROVE  ObjectsAreKnown'
  <2>1. UNCHANGED <<object, work, lost>>
    BY <1>7 DEF PurgeFails
  <2>2. \A o \in Requests : reference'[o].at = reference[o].at
    BY <1>0, <1>7 DEF PurgeFails, PeopleTypes
  <2> QED
    BY <1>3, <2>1, <2>2
<1>8. ASSUME NEW q \in Requests, SnapshotExpires(q)
      PROVE  ObjectsAreKnown'
  <2>1. UNCHANGED <<object, work, lost>>
    BY <1>8 DEF SnapshotExpires
  <2>2. \A o \in Requests : reference[o].at # "none" => reference'[o].at # "none"
    BY <1>0, <1>8 DEF SnapshotExpires, PeopleTypes
  <2> QED
    BY <1>3, <2>1, <2>2
<1>9. ASSUME UNCHANGED <<object, reference, lost>>
      PROVE  ObjectsAreKnown'
  <2> SUFFICES ASSUME NEW q \in Requests, object[q] # {}, reference[q].at = "none", q \notin lost
               PROVE  \E v \in Workers : work'[v].at = "apply" /\ work'[v].request = q
    BY <1>9 DEF ObjectsAreKnown
  <2>1. PICK v \in Workers : work[v].at = "apply" /\ work[v].request = q
    BY <1>0 DEF ObjectsAreKnown
  <2>2. ~CommitPayload(v)
    BY <1>0, <1>9, <2>1 DEF CommitPayload, PeopleTypes
  <2>3. ~LosePayload(v)
    BY <1>0, <1>9, <2>1 DEF LosePayload, PeopleTypes
  <2>4. ~PutSnapshot(v) /\ \A o \in Requests : ~ReadIdentities(v, o)
    BY <2>1 DEF PutSnapshot, ReadIdentities
  <2> QED
    BY <2>1, <2>2, <2>3, <2>4, WorkSteps
<1> QED
  BY <1>1, <1>2, <1>4, <1>5, <1>6, <1>7, <1>8, <1>9, SnapshotSteps

\* All of it together.
LEMMA SnapshotInvKept ==
  ASSUME DeletionInv, [DeletionNext]_deletionVars
  PROVE  SnapshotInv'
BY ReadsKept, PayloadsKept, ObjectsKept, KnownKept DEF SnapshotInv

-----------------------------------------------------------------------------
(* Requests: what executes is redacted, and its snapshots are targets.      *)

\* The states a request may move to a decision from.
Moved == {"verify", "received", "approved", "manual"}

\* What may happen to a request in one step.
LEMMA AskSteps ==
  ASSUME DeletionInv, [DeletionNext]_deletionVars, NEW p \in Asks
  PROVE  \/ ask'[p] = ask[p]
         \/ /\ ask[p].row = NoRow /\ ask'[p].row \in Rows
            /\ ask'[p].state = "verify" /\ ask'[p].digests = {}
         \/ /\ ask[p].state \in Moved /\ ~Locked(p)
            /\ ask'[p].state \in {"received", "approved", "manual", "rejected"}
            /\ ask'[p].row = ask[p].row /\ ask'[p].digests = ask[p].digests
         \/ \E m \in Managers : PrepareDeletion(m) /\ p = call[m].ask
         \/ /\ ask[p].state = "executing" /\ Pending(p) = {} /\ ~Locked(p)
            /\ ask'[p].state = "completed" /\ ask'[p].kind = ask[p].kind
            /\ ask'[p].row = ask[p].row /\ ask'[p].digests = ask[p].digests
            /\ UNCHANGED <<targets, suppressed>>
<1>0. /\ TypeOK /\ AsksHold /\ CallsHold /\ CleanersHold /\ OnlyPersonsHaveData
      /\ ask \in [Asks -> AskRows]
  BY TypesInParts DEF DeletionInv, PeopleInv, RequestInv, AskTypes
<1> DEFINE Goal == \/ ask'[p] = ask[p]
                   \/ /\ ask[p].row = NoRow /\ ask'[p].row \in Rows
                      /\ ask'[p].state = "verify" /\ ask'[p].digests = {}
                   \/ /\ ask[p].state \in Moved /\ ~Locked(p)
                      /\ ask'[p].state \in {"received", "approved", "manual", "rejected"}
                      /\ ask'[p].row = ask[p].row /\ ask'[p].digests = ask[p].digests
                   \/ \E m \in Managers : PrepareDeletion(m) /\ p = call[m].ask
                   \/ /\ ask[p].state = "executing" /\ Pending(p) = {} /\ ~Locked(p)
                      /\ ask'[p].state = "completed" /\ ask'[p].kind = ask[p].kind
                      /\ ask'[p].row = ask[p].row /\ ask'[p].digests = ask[p].digests
                      /\ UNCHANGED <<targets, suppressed>>
<1>1. ASSUME NEW o \in Asks, NEW r \in Rows, NEW kind \in Kinds, Submit(o, r, kind)
      PROVE  Goal
  BY <1>0, <1>1 DEF Submit
<1>2. ASSUME NEW o \in Asks, Verify(o) \/ Approve(o) \/ Reject(o) \/ Fulfil(o)
      PROVE  Goal
  <2>1. PICK from \in SUBSET Moved, to \in {"received", "approved", "manual", "rejected"} :
          Move(o, from, to)
    BY <1>2 DEF Verify, Approve, Reject, Fulfil, Moved
  <2>2. ask[o].state \in Moved /\ ~Locked(o) /\ ask' = [ask EXCEPT ![o].state = to]
    BY <2>1 DEF Move
  <2>3. CASE o = p
    <3>1. /\ ask'[p].state = to /\ ask'[p].row = ask[p].row
          /\ ask'[p].digests = ask[p].digests
      BY <1>0, <2>2, <2>3 DEF AskRows
    <3> QED
      BY <2>2, <2>3, <3>1
  <2>4. CASE o # p
    BY <1>0, <2>2, <2>4
  <2> QED
    BY <2>3, <2>4
<1>3. ASSUME NEW m \in Managers, PrepareDeletion(m)
      PROVE  Goal
  BY <1>0, <1>3, PrepareWrites
<1>4. ASSUME NEW o \in Asks, Finalize(o), ~Locked(o), UNCHANGED <<targets, suppressed>>
      PROVE  Goal
  <2>1. \/ UNCHANGED ask
        \/ /\ ask[o].state = "executing" /\ Pending(o) = {}
           /\ ask' = [ask EXCEPT ![o].state = "completed"]
    BY <1>0, <1>4, FinalizeWrites
  <2>2. CASE UNCHANGED ask
    BY <2>2
  <2>3. CASE /\ ask[o].state = "executing" /\ Pending(o) = {}
             /\ ask' = [ask EXCEPT ![o].state = "completed"]
    <3>1. CASE o = p
      <4>1. /\ ask'[p].state = "completed" /\ ask'[p].kind = ask[p].kind
            /\ ask'[p].row = ask[p].row /\ ask'[p].digests = ask[p].digests
        BY <1>0, <2>3, <3>1 DEF AskRows
      <4> QED
        BY <1>4, <2>3, <3>1, <4>1
    <3>2. CASE o # p
      BY <1>0, <2>3, <3>2
    <3> QED
      BY <3>1, <3>2
  <2> QED
    BY <2>1, <2>2, <2>3
<1>5. ASSUME NEW m \in Managers, FinishCall(m)
      PROVE  Goal
  <2>1. /\ call[m].ask \in Asks /\ Finalize(call[m].ask) /\ ~Locked(call[m].ask)
        /\ UNCHANGED <<targets, suppressed>>
    BY <1>0, <1>5 DEF FinishCall, CallsHold
  <2> QED
    BY <1>4, <2>1
<1>6. ASSUME NEW c \in Cleaners, FinishTask(c)
      PROVE  Goal
  <2>1. /\ cleaner[c].ask \in Asks /\ Finalize(cleaner[c].ask) /\ ~Locked(cleaner[c].ask)
        /\ UNCHANGED <<targets, suppressed>>
    BY <1>0, <1>6 DEF FinishTask, CleanersHold
  <2> QED
    BY <1>4, <2>1
<1>7. ASSUME UNCHANGED ask
      PROVE  Goal
  BY <1>7
<1> HIDE DEF Goal
<1>8. ASSUME NEW o \in Asks, Resume(o) \/ \E q \in Requests : BackoffEnds(o, q)
      PROVE  UNCHANGED ask
  BY <1>8 DEF Resume, BackoffEnds
<1>9. ASSUME NEW m \in Managers, (\E o \in Asks : CollectDigests(m, o)) \/ CallDies(m)
      PROVE  UNCHANGED ask
  BY <1>9 DEF CollectDigests, CallDies
<1>10. ASSUME NEW c \in Cleaners,
              \/ \E o \in Asks : TakeOrder(c, o)
              \/ ClaimTargets(c) \/ ClaimExpired(c)
              \/ \E q \in Requests : Purge(c, q) \/ PurgeFails(c, q)
              \/ MarkDeleted(c) \/ EndBatch(c) \/ CleanerDies(c)
       PROVE  UNCHANGED ask
  BY <1>10 DEF TakeOrder, ClaimTargets, ClaimExpired, Purge, PurgeFails, MarkDeleted, EndBatch,
               CleanerDies
<1>11. ASSUME \/ \E l \in leased : LeaseEnds(l)
              \/ \E q \in Requests : SnapshotExpires(q)
              \/ UNCHANGED privacyVars \/ UNCHANGED deletionVars
       PROVE  UNCHANGED ask
  BY <1>11 DEF LeaseEnds, SnapshotExpires, privacyVars, deletionVars
<1>12. PrivacyNext => Goal
  BY <1>1, <1>2, <1>3, <1>5, <1>6, <1>7, <1>8, <1>9, <1>10, <1>11 DEF PrivacyNext
<1>13. Goal
  BY <1>7, <1>11, <1>12 DEF DeletionNext
<1> QED
  BY <1>13 DEF Goal

\* Only an execution lists digests for a request, and it redacts the row.
LEMMA AsksKept ==
  ASSUME DeletionInv, [DeletionNext]_deletionVars
  PROVE  AsksHold'
<1>0. /\ TypeOK /\ PeopleTypes /\ AsksHold /\ CallsHold
      /\ ask \in [Asks -> AskRows]
  BY TypesInParts DEF DeletionInv, RequestInv, AskTypes
<1> SUFFICES ASSUME NEW p \in Asks
             PROVE  /\ ask'[p].state # "none" => ask'[p].row \in Rows
                    /\ IF ask'[p].state \in Executed
                       THEN /\ ask'[p].kind = "deletion"
                            /\ row'[ask'[p].row] = "redacted"
                            /\ ask'[p].digests \subseteq suppressed'
                       ELSE ask'[p].digests = {}
  BY DEF AsksHold
<1>1. /\ ask[p].state # "none" => ask[p].row \in Rows
      /\ IF ask[p].state \in Executed
         THEN /\ ask[p].kind = "deletion"
              /\ row[ask[p].row] = "redacted"
              /\ ask[p].digests \subseteq suppressed
         ELSE ask[p].digests = {}
  BY <1>0 DEF AsksHold
<1>2. /\ suppressed \subseteq suppressed'
      /\ \A r \in Rows : row[r] = "redacted" => row'[r] = "redacted"
  BY IdentitiesStay
<1>3. CASE ask'[p] = ask[p]
  BY <1>1, <1>2, <1>3 DEF Executed
<1>4. CASE /\ ask'[p].row \in Rows
           /\ ask'[p].state = "verify" /\ ask'[p].digests = {}
  BY <1>4 DEF Executed
<1>5. CASE /\ ask[p].state \in Moved
           /\ ask'[p].state \in {"received", "approved", "manual", "rejected"}
           /\ ask'[p].row = ask[p].row /\ ask'[p].digests = ask[p].digests
  BY <1>1, <1>5 DEF Executed, Moved
<1>6. ASSUME NEW m \in Managers, PrepareDeletion(m), p = call[m].ask
      PROVE  /\ ask'[p].row \in Rows /\ ask'[p].state = "executing" /\ ask'[p].kind = "deletion"
             /\ row'[ask'[p].row] = "redacted"
             /\ ask'[p].digests \subseteq suppressed'
  <2>1. PICK r \in Rows, D \in SUBSET Digests :
           /\ suppressed' = suppressed \cup D
           /\ ask'[p].row = r /\ ask'[p].kind = "deletion" /\ ask'[p].state = "executing"
           /\ ask'[p].digests = ask[p].digests \cup D
           /\ row' = [row EXCEPT ![r] = "redacted"]
    BY <1>0, <1>6, PrepareWrites
  <2>2. row'[r] = "redacted"
    BY <1>0, <2>1 DEF PeopleTypes
  <2> QED
    BY <1>1, <2>1, <2>2
<1>7. CASE /\ ask[p].state = "executing"
           /\ ask'[p].state = "completed" /\ ask'[p].kind = ask[p].kind
           /\ ask'[p].row = ask[p].row /\ ask'[p].digests = ask[p].digests
  BY <1>1, <1>2, <1>7 DEF Executed
<1> QED
  BY <1>3, <1>4, <1>5, <1>6, <1>7, AskSteps DEF Executed

\* What may happen to an open execute_delete in one step.
LEMMA CallSteps ==
  ASSUME DeletionInv, [DeletionNext]_deletionVars, NEW n \in Managers
  PROVE  \/ call'[n] = call[n]
         \/ \E p \in Asks : CollectDigests(n, p)
         \/ PrepareDeletion(n) /\ call'[n].at = "prepared" /\ call'[n].ask = call[n].ask
         \/ call'[n] = NoCall
<1>0. call \in [Managers -> [at : {"idle", "collected", "prepared"}, ask : Asks \cup {NoAsk},
                            digests : SUBSET Digests]]
  BY TypesInParts DEF DeletionInv, AskTypes
<1> DEFINE Goal == \/ call'[n] = call[n]
                   \/ \E p \in Asks : CollectDigests(n, p)
                   \/ PrepareDeletion(n) /\ call'[n].at = "prepared" /\ call'[n].ask = call[n].ask
                   \/ call'[n] = NoCall
<1>1. ASSUME NEW m \in Managers,
             \/ \E p \in Asks : CollectDigests(m, p)
             \/ FinishCall(m) \/ CallDies(m)
      PROVE  Goal
  BY <1>0, <1>1 DEF CollectDigests, FinishCall, CallDies
<1>2. ASSUME NEW m \in Managers, PrepareDeletion(m)
      PROVE  Goal
  BY <1>0, <1>2 DEF PrepareDeletion
<1>3. ASSUME UNCHANGED call
      PROVE  Goal
  BY <1>3
<1> HIDE DEF Goal
<1>4. ASSUME NEW p \in Asks,
             \/ \E r \in Rows, kind \in Kinds : Submit(p, r, kind)
             \/ Verify(p) \/ Approve(p) \/ Reject(p) \/ Fulfil(p)
             \/ Resume(p)
             \/ \E q \in Requests : BackoffEnds(p, q)
      PROVE  UNCHANGED call
  BY <1>4 DEF Submit, Verify, Approve, Reject, Fulfil, Move, Resume, BackoffEnds
<1>5. ASSUME NEW c \in Cleaners,
             \/ \E p \in Asks : TakeOrder(c, p)
             \/ ClaimTargets(c) \/ ClaimExpired(c)
             \/ \E q \in Requests : Purge(c, q) \/ PurgeFails(c, q)
             \/ MarkDeleted(c) \/ EndBatch(c) \/ FinishTask(c) \/ CleanerDies(c)
      PROVE  UNCHANGED call
  BY <1>5 DEF TakeOrder, ClaimTargets, ClaimExpired, Purge, PurgeFails, MarkDeleted, EndBatch,
              FinishTask, CleanerDies
<1>6. ASSUME \/ \E l \in leased : LeaseEnds(l)
             \/ \E q \in Requests : SnapshotExpires(q)
             \/ UNCHANGED privacyVars \/ UNCHANGED deletionVars
      PROVE  UNCHANGED call
  BY <1>6 DEF LeaseEnds, SnapshotExpires, privacyVars, deletionVars
<1>7. PrivacyNext => Goal
  BY <1>1, <1>2, <1>3, <1>4, <1>5, <1>6 DEF PrivacyNext
<1>8. Goal
  BY <1>3, <1>6, <1>7 DEF DeletionNext
<1> QED
  BY <1>8 DEF Goal

\* Between the collection and the gate an identity leaves its candidate only by
\* being listed.
LEMMA CollectionsKept ==
  ASSUME DeletionInv, [DeletionNext]_deletionVars
  PROVE  CollectionsHold'
<1>0. /\ TypeOK /\ PeopleTypes /\ AsksHold /\ CallsHold /\ CollectionsHold
      /\ ListedKeysAreGone /\ ObjectsOfRequests /\ PeopleInv /\ AskTypes
      /\ \A r \in Rows : r # NoRow
  BY TypesInParts, PeopleAssumption DEF DeletionInv, PeopleInv, SnapshotInv, RequestInv, CallsHold
<1> SUFFICES ASSUME NEW n \in Managers, call'[n].at = "collected"
             PROVE  /\ call'[n].ask \in Asks
                    /\ ask'[call'[n].ask].kind = "deletion"
                    /\ ask'[call'[n].ask].state \in {"approved", "executing"}
                    /\ \A k \in Keys \cap call'[n].digests :
                         /\ k \in suppressed' \/ identity'[k].row = ask'[call'[n].ask].row
                         /\ \A q \in Requests :
                              k \in object'[q] => ask'[call'[n].ask].row \in asked'[q]
  BY DEF CollectionsHold
<1>1. CASE call'[n] = call[n]
  <2> DEFINE p == call[n].ask
  <2>1. /\ p \in Asks /\ ask[p].kind = "deletion" /\ ask[p].state \in {"approved", "executing"}
        /\ \A k \in Keys \cap call[n].digests :
             /\ k \in suppressed \/ identity[k].row = ask[p].row
             /\ \A q \in Requests : k \in object[q] => ask[p].row \in asked[q]
    BY <1>0, <1>1 DEF CollectionsHold
  <2>2. Locked(p) /\ ask[p].row \in Rows
    BY <1>0, <1>1, <2>1 DEF Locked, AsksHold
  <2>3. ask'[p] = ask[p]
    <3>1. ASSUME NEW m \in Managers, PrepareDeletion(m), p = call[m].ask
          PROVE  FALSE
      <4>1. m = n
        BY <1>0, <1>1, <3>1 DEF PrepareDeletion, CallsHold
      <4> QED
        BY <1>0, <1>1, <3>1, <4>1 DEF PrepareDeletion, AskTypes
    <3> QED
      BY <1>0, <2>1, <2>2, <3>1, AskSteps
  <2>4. \A q \in Requests : asked[q] \subseteq asked'[q]
    BY IdentitiesStay
  <2>5. ASSUME NEW k \in Keys \cap call[n].digests
        PROVE  /\ k \in suppressed' \/ identity'[k].row = ask[p].row
               /\ \A q \in Requests : k \in object'[q] => ask[p].row \in asked'[q]
    <3>1. k \in suppressed' \/ identity'[k].row = ask[p].row
      BY <1>0, <2>1, <2>2, <2>5, IdentitiesStay
    <3>2. ASSUME NEW q \in Requests, k \in object'[q]
          PROVE  ask[p].row \in asked[q]
      <4>1. CASE k \in object[q]
        BY <2>1, <2>5, <4>1
      <4>2. CASE k \notin object[q]
        <5>1. \A c \in Cleaners, o \in Requests : ~Purge(c, o)
          BY <1>0, <3>2, <4>2 DEF Purge, PeopleTypes
        <5>2. PICK w \in Workers : PutSnapshot(w)
          BY <3>2, <4>2, <5>1, ObjectSteps
        <5>3. PICK allowed \in SUBSET Keys :
                /\ object' = [object EXCEPT ![work[w].request] = @ \cup allowed]
                /\ \A j \in allowed : j \notin suppressed
                                      /\ identity[j].row \in asked[work[w].request]
          BY <5>2, PutSnapshotKeeps
        <5>4. q = work[w].request /\ k \in allowed
          BY <1>0, <3>2, <4>2, <5>3 DEF PeopleTypes
        <5> QED
          BY <2>1, <2>5, <5>3, <5>4
      <4> QED
        BY <4>1, <4>2
    <3> QED
      BY <2>4, <3>1, <3>2
  <2> QED
    BY <1>1, <2>1, <2>3, <2>5
<1>2. ASSUME NEW p \in Asks, CollectDigests(n, p)
      PROVE  /\ call'[n].ask \in Asks
             /\ ask'[call'[n].ask].kind = "deletion"
             /\ ask'[call'[n].ask].state \in {"approved", "executing"}
             /\ \A k \in Keys \cap call'[n].digests :
                  /\ k \in suppressed' \/ identity'[k].row = ask'[call'[n].ask].row
                  /\ \A q \in Requests :
                       k \in object'[q] => ask'[call'[n].ask].row \in asked'[q]
  <2>1. /\ ask[p].kind = "deletion" /\ ask[p].state \in {"approved", "executing"}
        /\ UNCHANGED <<ask, suppressed, identity, object, asked>>
    BY <1>2 DEF CollectDigests, peopleVars
  <2>2. call'[n].ask = p /\ call'[n].digests = DigestsOf(ask[p].row)
    BY <1>0, <1>2 DEF CollectDigests, AskTypes
  <2>3. ask[p].row \in Rows
    BY <1>0, <2>1 DEF AsksHold
  <2>4. \A k \in Keys \cap DigestsOf(ask[p].row) : identity[k].row = ask[p].row
    BY <1>0, <2>3, KeysOfDigests
  <2>5. \A k \in Keys \cap DigestsOf(ask[p].row) : k \notin suppressed
    BY <1>0, <2>3, <2>4 DEF ListedKeysAreGone
  <2>6. \A k \in Keys \cap DigestsOf(ask[p].row), q \in Requests :
          k \in object[q] => ask[p].row \in asked[q]
    BY <1>0, <2>4, <2>5 DEF ObjectsOfRequests
  <2> QED
    BY <2>1, <2>2, <2>4, <2>6
<1> QED
  BY <1>1, <1>2, CallSteps DEF NoCall

\* One call at a time collects for a request.
LEMMA CallsKept ==
  ASSUME DeletionInv, [DeletionNext]_deletionVars
  PROVE  CallsHold'
<1>0. /\ AskTypes /\ CallsHold /\ CollectionsHold
  BY TypesInParts DEF DeletionInv, RequestInv, CallsHold
<1>1. ASSUME NEW m \in Managers, call'[m].at = "prepared"
      PROVE  call'[m].ask \in Asks
  <2>1. \A p \in Asks : ~CollectDigests(m, p)
    BY <1>0, <1>1 DEF CollectDigests, AskTypes
  <2>2. PrepareDeletion(m) => call[m].ask \in Asks
    BY <1>0 DEF PrepareDeletion, CollectionsHold
  <2> QED
    BY <1>0, <1>1, <2>1, <2>2, CallSteps DEF CallsHold, NoCall
<1>2. ASSUME NEW m \in Managers, NEW n \in Managers, m # n,
             call'[m].at = "collected", call'[n].at = "collected"
      PROVE  call'[m].ask # call'[n].ask
  <2>1. ASSUME NEW i \in Managers, NEW j \in Managers, i # j,
               call'[i].at = "collected", call'[j].at = "collected",
               NEW p \in Asks, CollectDigests(i, p)
        PROVE  call'[i].ask # call'[j].ask
    <3>1. call'[i].ask = p /\ call'[j] = call[j]
      BY <1>0, <2>1 DEF CollectDigests, AskTypes
    <3>2. call[j].at = "collected" /\ ~Locked(p)
      BY <2>1, <3>1 DEF CollectDigests
    <3> QED
      BY <3>1, <3>2 DEF Locked
  <2>2. CASE call'[m] = call[m] /\ call'[n] = call[n]
    BY <1>0, <1>2, <2>2 DEF CallsHold
  <2>3. \/ call'[m] = call[m] /\ call'[n] = call[n]
        \/ \E p \in Asks : CollectDigests(m, p) \/ CollectDigests(n, p)
    BY <1>2, CallSteps DEF NoCall
  <2> QED
    BY <1>2, <2>1, <2>2, <2>3
<1> QED
  BY <1>1, <1>2, CollectionsKept DEF CallsHold

\* What may happen to a target in one step.
LEMMA TargetSteps ==
  ASSUME DeletionInv, [DeletionNext]_deletionVars, NEW p \in Asks, NEW q \in Requests
  PROVE  \/ targets'[p][q] = "none" <=> targets[p][q] = "none"
         \/ \E m \in Managers : PrepareDeletion(m) /\ p = call[m].ask
         \/ /\ targets'[p][q] = "none"
            /\ UNCHANGED <<object, ask>> /\ (object[q] # {} => q \in lost')
<1>0. /\ TypeOK /\ PeopleTypes /\ AskTypes /\ CleanersHold /\ CallsHold
      /\ targets \in [Asks -> [Requests -> Statuses]]
  BY TypesInParts DEF DeletionInv, RequestInv, AskTypes, Statuses
<1> DEFINE Goal == \/ targets'[p][q] = "none" <=> targets[p][q] = "none"
                   \/ \E m \in Managers : PrepareDeletion(m) /\ p = call[m].ask
                   \/ /\ targets'[p][q] = "none"
                      /\ UNCHANGED <<object, ask>> /\ (object[q] # {} => q \in lost')
<1>1. ASSUME UNCHANGED targets
      PROVE  Goal
  BY <1>1
<1>2. ASSUME NEW o \in Asks, NEW r \in Requests, BackoffEnds(o, r)
      PROVE  Goal
  BY <1>0, <1>2 DEF BackoffEnds
<1>3. ASSUME NEW m \in Managers, PrepareDeletion(m)
      PROVE  Goal
  <2>1. call[m].ask \in Asks
    BY <1>0, <1>3 DEF PrepareDeletion, CallsHold, CollectionsHold
  <2> QED
    BY <1>0, <1>3, <2>1 DEF PrepareDeletion
<1>4. ASSUME NEW c \in Cleaners, ClaimTargets(c)
      PROVE  Goal
  <2>1. cleaner[c].ask \in Asks
    BY <1>0, <1>4 DEF ClaimTargets, CleanersHold
  <2>2. targets' = [targets EXCEPT ![cleaner[c].ask] = [r \in Requests |->
           IF ask[cleaner[c].ask].state = "executing" /\ Claimable(cleaner[c].ask, r)
           THEN "claimed" ELSE @[r]]]
    BY <1>4 DEF ClaimTargets
  <2>3. Claimable(p, q) => targets[p][q] # "none"
    BY DEF Claimable
  <2>4. \/ targets'[p][q] = targets[p][q]
        \/ Claimable(p, q) /\ targets'[p][q] = "claimed"
    BY <1>0, <2>1, <2>2
  <2> QED
    BY <2>3, <2>4
<1>5. ASSUME NEW c \in Cleaners, NEW r \in Requests, PurgeFails(c, r)
      PROVE  Goal
  <2>1. \/ UNCHANGED targets
        \/ targets' = [targets EXCEPT ![cleaner[c].ask][r] = IF @ = "none" THEN @ ELSE "delayed"]
    BY <1>5 DEF PurgeFails
  <2>2. CASE targets' = [targets EXCEPT ![cleaner[c].ask][r] =
                                          IF @ = "none" THEN @ ELSE "delayed"]
    BY <1>0, <2>2
  <2> QED
    BY <1>1, <2>1, <2>2
<1>6. ASSUME NEW c \in Cleaners, MarkDeleted(c)
      PROVE  Goal
  <2>1. cleaner[c].item \in Requests /\ UNCHANGED <<object, ask>>
    BY <1>0, <1>6 DEF MarkDeleted, CleanersHold
  <2>2. \/ UNCHANGED targets
        \/ /\ targets' = [o \in Asks |-> [targets[o] EXCEPT ![cleaner[c].item] = "none"]]
           /\ lost' = IF object[cleaner[c].item] = {} THEN lost
                      ELSE lost \cup {cleaner[c].item}
    BY <1>6 DEF MarkDeleted
  <2>3. CASE /\ targets' = [o \in Asks |-> [targets[o] EXCEPT ![cleaner[c].item] = "none"]]
             /\ lost' = IF object[cleaner[c].item] = {} THEN lost
                        ELSE lost \cup {cleaner[c].item}
    <3>1. CASE q = cleaner[c].item
      <4>1. targets'[p][q] = "none"
        BY <1>0, <2>3, <3>1
      <4> QED
        BY <2>1, <2>3, <3>1, <4>1
    <3>2. CASE q # cleaner[c].item
      <4>1. targets'[p][q] = targets[p][q]
        BY <1>0, <2>3, <3>2
      <4> QED
        BY <4>1
    <3> QED
      BY <3>1, <3>2
  <2> QED
    BY <1>1, <2>1, <2>2, <2>3
<1> HIDE DEF Goal
<1>7. ASSUME NEW o \in Asks,
             \/ \E r \in Rows, kind \in Kinds : Submit(o, r, kind)
             \/ Verify(o) \/ Approve(o) \/ Reject(o) \/ Fulfil(o)
             \/ Resume(o)
      PROVE  UNCHANGED targets
  BY <1>7 DEF Submit, Verify, Approve, Reject, Fulfil, Move, Resume
<1>8. ASSUME NEW m \in Managers,
             \/ \E o \in Asks : CollectDigests(m, o)
             \/ FinishCall(m) \/ CallDies(m)
      PROVE  UNCHANGED targets
  BY <1>8 DEF CollectDigests, FinishCall, CallDies
<1>9. ASSUME NEW c \in Cleaners,
             \/ \E o \in Asks : TakeOrder(c, o)
             \/ ClaimExpired(c)
             \/ \E r \in Requests : Purge(c, r)
             \/ EndBatch(c) \/ FinishTask(c) \/ CleanerDies(c)
      PROVE  UNCHANGED targets
  BY <1>9 DEF TakeOrder, ClaimExpired, Purge, EndBatch, FinishTask, CleanerDies
<1>10. ASSUME \/ \E l \in leased : LeaseEnds(l)
              \/ \E r \in Requests : SnapshotExpires(r)
              \/ UNCHANGED privacyVars \/ UNCHANGED deletionVars
       PROVE  UNCHANGED targets
  BY <1>10 DEF LeaseEnds, SnapshotExpires, privacyVars, deletionVars
<1>11. PrivacyNext => Goal
  BY <1>1, <1>2, <1>3, <1>4, <1>5, <1>6, <1>7, <1>8, <1>9, <1>10 DEF PrivacyNext
<1>12. Goal
  BY <1>1, <1>10, <1>11 DEF DeletionNext
<1> QED
  BY <1>12 DEF Goal

\* What was lost is known to be, until it is purged.
LEMMA LostStays ==
  ASSUME DeletionInv, [DeletionNext]_deletionVars, NEW q \in lost
  PROVE  q \in lost' \/ object'[q] = {}
<1>0. PeopleTypes
  BY TypesInParts DEF DeletionInv
<1>1. ASSUME NEW w \in Workers, PutSnapshot(w) \/ CommitPayload(w) \/ LosePayload(w)
      PROVE  q \in lost'
  BY <1>1 DEF PutSnapshot, CommitPayload, LosePayload
<1>2. ASSUME NEW c \in Cleaners,
             ClaimExpired(c) \/ MarkDeleted(c) \/ \E o \in Requests : PurgeFails(c, o)
      PROVE  q \in lost'
  BY <1>2 DEF ClaimExpired, MarkDeleted, PurgeFails
<1>3. ASSUME NEW c \in Cleaners, NEW o \in Requests, Purge(c, o)
      PROVE  q \in lost' \/ object'[q] = {}
  BY <1>0, <1>3 DEF Purge, PeopleTypes
<1>4. ASSUME \E o \in Requests : SnapshotExpires(o)
      PROVE  q \in lost'
  BY <1>4 DEF SnapshotExpires
<1> QED
  BY <1>1, <1>2, <1>3, <1>4, SnapshotSteps

\* A payload never brings a listed key back into a snapshot.
LEMMA ObjectsGainNoListedKey ==
  ASSUME DeletionInv, [DeletionNext]_deletionVars, NEW q \in Requests,
         NEW k \in object'[q], k \in suppressed
  PROVE  k \in object[q]
<1>0. PeopleTypes
  BY TypesInParts DEF DeletionInv
<1>1. ASSUME NEW w \in Workers, PutSnapshot(w)
      PROVE  k \in object[q]
  <2>1. PICK allowed \in SUBSET Keys :
          /\ object' = [object EXCEPT ![work[w].request] = @ \cup allowed]
          /\ \A j \in allowed : j \notin suppressed
    BY <1>1, PutSnapshotKeeps
  <2> QED
    BY <1>0, <2>1 DEF PeopleTypes
<1>2. ASSUME NEW c \in Cleaners, NEW o \in Requests, Purge(c, o)
      PROVE  k \in object[q]
  BY <1>0, <1>2 DEF Purge, PeopleTypes
<1> QED
  BY <1>1, <1>2, ObjectSteps

\* The targets are listed behind the gate, when every snapshot has a row or was
\* lost and every key of the candidate in one is a key of its request.
LEMMA PrepareListsTargets ==
  ASSUME DeletionInv, NEW m \in Managers, PrepareDeletion(m), NEW q \in Requests,
         object[q] \cap ask'[call[m].ask].digests # {}
  PROVE  targets'[call[m].ask][q] # "none" \/ q \in lost
<1>0. /\ TypeOK /\ PeopleTypes /\ AskTypes /\ AsksHold /\ CallsHold /\ TargetsHold
      /\ CollectionsHold /\ ListedKeysAreGone /\ ObjectsOfRequests /\ ObjectsAreKnown
      /\ \A r \in Rows : r # NoRow
  BY TypesInParts, PeopleAssumption
     DEF DeletionInv, PeopleInv, SnapshotInv, RequestInv, CallsHold
<1>1. PICK p \in Asks, r \in Rows, D \in SUBSET Digests :
        /\ p = call[m].ask /\ r = ask[p].row
        /\ D = call[m].digests \cup DigestsOf(r)
        /\ ask[p].state \in {"approved", "executing"}
        /\ ask'[p].digests = ask[p].digests \cup D
        /\ \A w \in Workers : ~HoldsGate(w)
  BY <1>0, PrepareWrites
<1>2. PICK k \in Keys : k \in object[q] /\ k \in ask[p].digests \cup D
  BY <1>0, <1>1 DEF PeopleTypes
<1>3. targets'[p][q] = IF q \in SnapshotsOf(r) /\ targets[p][q] = "none" THEN "pending"
                       ELSE targets[p][q]
  BY <1>0, <1>1 DEF PrepareDeletion, AskTypes
<1>4. CASE k \in ask[p].digests
  <2>1. ask[p].state \in Executed
    BY <1>0, <1>4 DEF AsksHold
  <2>2. targets[p][q] # "none" \/ q \in lost
    BY <1>0, <1>2, <1>4, <2>1 DEF TargetsHold
  <2> QED
    BY <1>1, <1>3, <2>2
<1>5. CASE k \in D
  <2>1. r \in asked[q]
    <3>1. CASE k \in call[m].digests
      BY <1>0, <1>1, <1>2, <3>1 DEF CollectionsHold, PrepareDeletion
    <3>2. CASE k \in DigestsOf(r)
      BY <1>0, <1>2, <3>2, KeysOfDigests DEF ListedKeysAreGone, ObjectsOfRequests
    <3> QED
      BY <1>1, <1>5, <3>1, <3>2
  <2>2. reference[q].at # "none" \/ q \in lost
    BY <1>0, <1>1, <1>2 DEF ObjectsAreKnown, HoldsGate
  <2>3. reference[q].at # "none" => q \in SnapshotsOf(r)
    BY <2>1 DEF SnapshotsOf
  <2> QED
    BY <1>1, <1>3, <2>2, <2>3
<1> QED
  BY <1>2, <1>4, <1>5

\* The targets of a deletion cover every snapshot its candidate is in, until each
\* is deleted.
LEMMA TargetsKept ==
  ASSUME DeletionInv, [DeletionNext]_deletionVars
  PROVE  TargetsHold'
<1>0. AsksHold /\ TargetsHold
  BY DEF DeletionInv, RequestInv
<1> SUFFICES ASSUME NEW p \in Asks, NEW q \in Requests, ask'[p].state \in Executed
             PROVE  /\ object'[q] \cap ask'[p].digests # {}
                         => targets'[p][q] # "none" \/ q \in lost'
                    /\ ask'[p].state = "completed" => targets'[p][q] = "none"
  BY DEF TargetsHold, Executed
<1>1. CASE \E m \in Managers : PrepareDeletion(m) /\ p = call[m].ask
  <2>1. PICK m \in Managers : PrepareDeletion(m) /\ p = call[m].ask
    BY <1>1
  <2>2. UNCHANGED <<object, lost>>
    BY <2>1 DEF PrepareDeletion
  <2>3. ask'[p].state = "executing"
    BY <2>1, PrepareWrites DEF DeletionInv, RequestInv
  <2> QED
    BY <2>1, <2>2, <2>3, PrepareListsTargets
<1>2. CASE ~\E m \in Managers : PrepareDeletion(m) /\ p = call[m].ask
  <2>1. \/ ask'[p] = ask[p]
        \/ /\ ask[p].state = "executing" /\ Pending(p) = {}
           /\ ask'[p].digests = ask[p].digests /\ UNCHANGED targets
    BY <1>2, AskSteps DEF Executed
  <2>2. ask[p].state \in Executed /\ ask'[p].digests = ask[p].digests
    BY <2>1 DEF Executed
  <2>3. ask[p].digests \subseteq suppressed
    BY <1>0, <2>2 DEF AsksHold
  <2>4. ASSUME object'[q] \cap ask'[p].digests # {}
        PROVE  targets'[p][q] # "none" \/ q \in lost'
    <3>1. object[q] \cap ask[p].digests # {}
      BY <2>2, <2>3, <2>4, ObjectsGainNoListedKey
    <3>2. targets[p][q] # "none" \/ q \in lost
      BY <1>0, <2>2, <3>1 DEF TargetsHold
    <3> QED
      BY <1>2, <2>4, <3>1, <3>2, TargetSteps, LostStays
  <2>5. ASSUME ask'[p].state = "completed"
        PROVE  targets'[p][q] = "none"
    <3>1. targets[p][q] = "none"
      BY <1>0, <2>1, <2>5 DEF TargetsHold, Pending
    <3> QED
      BY <1>2, <3>1, TargetSteps
  <2> QED
    BY <2>4, <2>5
<1> QED
  BY <1>1, <1>2

\* The maintenance tasks keep what they hold.
LEMMA CleanersKept ==
  ASSUME DeletionInv, [DeletionNext]_deletionVars
  PROVE  CleanersHold'
<1>0. CleanersHold /\ CleanerTypes /\ cleaner \in [Cleaners -> CleanerRows]
  BY TypesInParts DEF DeletionInv, RequestInv, CleanerTypes
<1>1. ASSUME NEW c \in Cleaners,
             \/ \E p \in Asks : TakeOrder(c, p)
             \/ ClaimExpired(c) \/ FinishTask(c) \/ CleanerDies(c)
             \/ \E q \in Requests : Purge(c, q)
             \/ MarkDeleted(c)
      PROVE  CleanersHold'
  <2>1. /\ cleaner'[c].at = "mark" => cleaner'[c].item \in Requests
        /\ cleaner'[c].at \in {"claim", "finish"} => cleaner'[c].ask \in Asks
    <3>1. ASSUME NEW p \in Asks, TakeOrder(c, p)
          PROVE  cleaner'[c].at = "claim" /\ cleaner'[c].ask \in Asks
      BY <1>0, <3>1 DEF TakeOrder, IdleCleaner
    <3>2. ASSUME ClaimExpired(c) \/ FinishTask(c) \/ CleanerDies(c) \/ MarkDeleted(c)
          PROVE  cleaner'[c].at \in {"idle", "purge"}
      <4>1. ClaimExpired(c) => cleaner'[c].at = "purge"
        BY <1>0 DEF ClaimExpired, IdleCleaner
      <4>2. FinishTask(c) \/ CleanerDies(c) => cleaner'[c].at = "idle"
        BY <1>0 DEF FinishTask, CleanerDies, IdleCleaner
      <4>3. MarkDeleted(c) => cleaner'[c].at = "purge"
        BY <1>0 DEF MarkDeleted, CleanerRows
      <4> QED
        BY <3>2, <4>1, <4>2, <4>3
    <3>3. ASSUME NEW q \in Requests, Purge(c, q)
          PROVE  cleaner'[c].at = "mark" /\ cleaner'[c].item = q
      BY <1>0, <3>3 DEF Purge, CleanerRows
    <3> QED
      BY <1>1, <3>1, <3>2, <3>3
  <2>2. \A o \in Cleaners \ {c} : cleaner'[o] = cleaner[o]
    BY <1>0, <1>1 DEF TakeOrder, ClaimExpired, FinishTask, CleanerDies, Purge, MarkDeleted
  <2> QED
    BY <1>0, <2>1, <2>2 DEF CleanersHold
<1>2. ASSUME NEW c \in Cleaners, ClaimTargets(c)
      PROVE  CleanersHold'
  <2>1. PICK at \in {"finish", "purge"}, due \in SUBSET Requests :
          cleaner' = [cleaner EXCEPT ![c].at = at, ![c].left = due]
    BY <1>2 DEF ClaimTargets
  <2>2. cleaner[c].ask \in Asks
    BY <1>0, <1>2 DEF ClaimTargets, CleanersHold
  <2>3. /\ cleaner'[c].at = at /\ cleaner'[c].ask = cleaner[c].ask
        /\ \A o \in Cleaners \ {c} : cleaner'[o] = cleaner[o]
    BY <1>0, <2>1 DEF CleanerRows
  <2> QED
    BY <1>0, <2>2, <2>3 DEF CleanersHold
<1>3. ASSUME NEW c \in Cleaners, NEW q \in Requests, PurgeFails(c, q)
      PROVE  CleanersHold'
  <2>1. /\ cleaner'[c].at = "purge"
        /\ \A o \in Cleaners \ {c} : cleaner'[o] = cleaner[o]
    BY <1>0, <1>3 DEF PurgeFails, CleanerRows
  <2> QED
    BY <1>0, <2>1 DEF CleanersHold
<1>4. ASSUME NEW c \in Cleaners, EndBatch(c)
      PROVE  CleanersHold'
  <2>1. \/ cleaner' = [cleaner EXCEPT ![c] = IdleCleaner]
        \/ /\ cleaner[c].ask # NoAsk
           /\ cleaner' = [cleaner EXCEPT ![c] = [cleaner[c] EXCEPT !.at = "claim"]]
    BY <1>4 DEF EndBatch
  <2>2. /\ \/ cleaner'[c].at = "idle"
           \/ cleaner'[c].at = "claim" /\ cleaner'[c].ask \in Asks
        /\ \A o \in Cleaners \ {c} : cleaner'[o] = cleaner[o]
    BY <1>0, <2>1 DEF CleanerRows, IdleCleaner
  <2> QED
    BY <1>0, <2>2 DEF CleanersHold
<1>5. ASSUME UNCHANGED cleaner
      PROVE  CleanersHold'
  BY <1>0, <1>5 DEF CleanersHold
<1>6. ASSUME NEW p \in Asks,
             \/ \E r \in Rows, kind \in Kinds : Submit(p, r, kind)
             \/ Verify(p) \/ Approve(p) \/ Reject(p) \/ Fulfil(p)
             \/ Resume(p)
             \/ \E q \in Requests : BackoffEnds(p, q)
      PROVE  UNCHANGED cleaner
  BY <1>6 DEF Submit, Verify, Approve, Reject, Fulfil, Move, Resume, BackoffEnds
<1>7. ASSUME NEW m \in Managers,
             \/ \E p \in Asks : CollectDigests(m, p)
             \/ PrepareDeletion(m) \/ FinishCall(m) \/ CallDies(m)
      PROVE  UNCHANGED cleaner
  BY <1>7 DEF CollectDigests, PrepareDeletion, FinishCall, CallDies
<1>8. ASSUME \/ \E l \in leased : LeaseEnds(l)
             \/ \E q \in Requests : SnapshotExpires(q)
             \/ UNCHANGED privacyVars \/ UNCHANGED deletionVars
      PROVE  UNCHANGED cleaner
  BY <1>8 DEF LeaseEnds, SnapshotExpires, privacyVars, deletionVars
<1>9. PrivacyNext => CleanersHold'
  BY <1>1, <1>2, <1>3, <1>4, <1>5, <1>6, <1>7, <1>8 DEF PrivacyNext
<1> QED
  BY <1>5, <1>8, <1>9 DEF DeletionNext

-----------------------------------------------------------------------------
(* The theorems.                                                            *)

\* It holds at first, when nothing is stored.
LEMMA DeletionInvInit == DeletionInit => DeletionInv
<1> SUFFICES ASSUME DeletionInit
             PROVE  DeletionInv
  OBVIOUS
<1>1. TypeOK
  BY DeletionAssumption
     DEF DeletionInit, PeopleInit, PrivacyInit, PrivacyInitBesidesAsk, TypeOK, Works, Evidence,
         NoReference, NoRequestRow, NoCall, NoTargets, IdleCleaner, Kinds, Closed
<1>2. PeopleInv
  BY DEF DeletionInit, PeopleInit, PeopleInv, LocksApart, HoldsGate, ListedKeysAreGone,
         OnlyPersonsHaveData, OneRowPerProfile, IngestionsHold, Idle
<1>3. SnapshotInv
  BY DEF DeletionInit, PeopleInit, SnapshotInv, ReadsHold, PayloadsHold, ObjectsOfRequests,
         ObjectsAreKnown, Idle
<1>4. RequestInv
  BY DEF DeletionInit, PrivacyInit, PrivacyInitBesidesAsk, RequestInv, AsksHold, CallsHold,
         CollectionsHold, TargetsHold, CleanersHold, NoRequestRow, NoCall, IdleCleaner, Executed
<1> QED
  BY <1>1, <1>2, <1>3, <1>4 DEF DeletionInv

\* Every step keeps it.
LEMMA DeletionInvKept == ASSUME DeletionInv, [DeletionNext]_deletionVars PROVE DeletionInv'
<1>1. RequestInv'
  BY AsksKept, CallsKept, TargetsKept, CleanersKept DEF RequestInv
<1> QED
  BY <1>1, TypesKept, PeopleInvKept, SnapshotInvKept DEF DeletionInv

\* The invariant is inductive.
THEOREM DeletionInvariant == DeletionSpec => []DeletionInv
<1>1. DeletionInit => DeletionInv
  BY DeletionInvInit
<1>2. DeletionInv /\ [DeletionNext]_deletionVars => DeletionInv'
  BY DeletionInvKept
<1> QED
  BY <1>1, <1>2, PTL DEF DeletionSpec

\* Every variable of candidates, payloads and privacy requests keeps its type.
THEOREM DeletionTypeCorrect == DeletionSpec => []TypeOK
BY DeletionInvariant, PTL DEF DeletionInv

\* Two pages that bring one profile URL never give it to two candidates
\* (_source_identity under the digest locks), whatever is redacted meanwhile.
THEOREM ProfileStays == DeletionSpec => []OneRowPerProfile
<1>1. DeletionInv => OneRowPerProfile
  BY DEF DeletionInv, PeopleInv
<1> QED
  BY <1>1, DeletionInvariant, PTL

\* A step gives no identity a URL that is listed.
LEMMA UrlsStayOut ==
  ASSUME DeletionInv, [DeletionNext]_deletionVars, NEW k \in Keys,
         identity'[k].url \notin {identity[k].url, NoUrl}
  PROVE  identity'[k].url \notin suppressed'
<1>0. TypeOK /\ PeopleTypes /\ PeopleInv /\ OnlyPersonsHaveData /\ AsksHold
      /\ CallsHold /\ CleanersHold
  BY TypesInParts DEF DeletionInv, PeopleInv, RequestInv
<1>1. ASSUME NEW w \in Workers, FinishIngest(w)
      PROVE  identity'[k].url \notin suppressed'
  <2>1. UNCHANGED suppressed
    BY <1>1 DEF FinishIngest
  <2>2. PICK i \in Keys, r \in Rows, url \in Urls \cup {NoUrl} :
          /\ identity' = [identity EXCEPT ![i] = [row |-> r, url |-> url]]
          /\ url \in {NoUrl, identity[i].url} \/ (url \in work[w].locks \ suppressed)
    BY <1>0, <1>1, FinishIngestWrites
  <2>3. k = i /\ identity'[k].url = url
    BY <1>0, <2>2 DEF PeopleTypes
  <2> QED
    BY <2>1, <2>2, <2>3
<1>2. ASSUME NEW m \in Managers, PrepareDeletion(m)
      PROVE  identity'[k].url \in {identity[k].url, NoUrl}
  BY <1>0, <1>2, PrepareWrites
<1>3. ASSUME \/ \E m \in Managers : FinishCall(m)
             \/ \E c \in Cleaners : FinishTask(c)
      PROVE  UNCHANGED identity
  BY <1>0, <1>3, FinalizeWrites DEF FinishCall, FinishTask, CallsHold, CleanersHold
<1>4. PeopleNext => (\E w \in Workers : FinishIngest(w)) \/ UNCHANGED identity
  BY DEF PeopleNext, BeginIngest, ScoreRow, ReadMatches, WriteCards, AskEnrichment,
         ReadIdentities, PutSnapshot, DropPayload, CommitPayload, LosePayload
<1> QED
  BY <1>1, <1>2, <1>3, <1>4, OtherSteps

\* Where the invariant holds, whoever is on the suppression list stays out.
LEMMA StaysOut == []DeletionInv /\ [][DeletionNext]_deletionVars => SuppressedStayOut
<1>1. DeletionInv => \A k \in Keys \cap suppressed : identity[k].row = NoRow
  BY DEF DeletionInv, PeopleInv, ListedKeysAreGone
<1>2. DeletionInv /\ [DeletionNext]_deletionVars
        => [\A k \in Keys : identity'[k].url \notin {identity[k].url, NoUrl}
              => identity'[k].url \notin suppressed']_deletionVars
  BY UrlsStayOut
<1> QED
  BY <1>1, <1>2, PTL DEF SuppressedStayOut

\* Nobody on the suppression list comes back: no listed provider id has an
\* identity, and no identity takes a listed profile URL, whatever was being
\* ingested when the list was written (match_person and _prepare_deletion).
THEOREM ListedStayOut == DeletionSpec => SuppressedStayOut
BY StaysOut, DeletionInvariant, PTL DEF DeletionSpec

\* A row that is redacted was redacted by the transaction that lists all its
\* digests.
LEMMA RedactionLists ==
  ASSUME DeletionInv, [DeletionNext]_deletionVars, NEW r \in Rows,
         row[r] = "person", row'[r] = "redacted"
  PROVE  DigestsOf(r) \subseteq suppressed'
<1>0. TypeOK /\ PeopleTypes /\ PeopleInv /\ OnlyPersonsHaveData /\ AsksHold
      /\ CallsHold /\ CleanersHold
  BY TypesInParts DEF DeletionInv, PeopleInv, RequestInv
<1>1. ASSUME NEW w \in Workers, FinishIngest(w)
      PROVE  FALSE
  BY <1>0, <1>1, FinishIngestWrites DEF PeopleTypes
<1>2. ASSUME NEW m \in Managers, PrepareDeletion(m)
      PROVE  DigestsOf(r) \subseteq suppressed'
  <2>1. PICK o \in Rows, D \in SUBSET Digests :
          /\ DigestsOf(o) \subseteq D
          /\ suppressed' = suppressed \cup D
          /\ row' = [row EXCEPT ![o] = "redacted"]
    BY <1>0, <1>2, PrepareWrites
  <2>2. o = r
    BY <1>0, <2>1 DEF PeopleTypes
  <2> QED
    BY <2>1, <2>2
<1>3. ASSUME \/ \E m \in Managers : FinishCall(m)
             \/ \E c \in Cleaners : FinishTask(c)
      PROVE  UNCHANGED row
  BY <1>0, <1>3, FinalizeWrites DEF FinishCall, FinishTask, CallsHold, CleanersHold
<1>4. PeopleNext => (\E w \in Workers : FinishIngest(w)) \/ UNCHANGED row
  BY DEF PeopleNext, BeginIngest, ScoreRow, ReadMatches, WriteCards, AskEnrichment,
         ReadIdentities, PutSnapshot, DropPayload, CommitPayload, LosePayload
<1> QED
  BY <1>1, <1>2, <1>3, <1>4, OtherSteps

\* Where the invariant holds, a deletion that has completed has erased everything.
LEMMA ErasesAll == []DeletionInv /\ [][DeletionNext]_deletionVars => ErasureIsComplete
<1>1. DeletionInv => CompletedIsRedacted
  <2> SUFFICES ASSUME DeletionInv, NEW p \in Asks, Erased(p)
               PROVE  /\ KeysOf(ask[p].row) = {} /\ emails[ask[p].row] = {}
                      /\ row[ask[p].row] = "redacted" /\ evidence[ask[p].row] # "personal"
    BY DEF CompletedIsRedacted
  <2>1. ask[p].row \in Rows /\ row[ask[p].row] = "redacted"
    BY DEF DeletionInv, RequestInv, AsksHold, Erased, Executed
  <2> QED
    BY <2>1, PeopleAssumption DEF DeletionInv, PeopleInv, OnlyPersonsHaveData, KeysOf
<1>2. DeletionInv => CompletedErasesSnapshots
  BY DEF DeletionInv, RequestInv, TargetsHold, CompletedErasesSnapshots, Erased, Executed
<1>3. DeletionInv /\ [DeletionNext]_deletionVars
        => [\A r \in Rows : row[r] = "person" /\ row'[r] = "redacted"
              => DigestsOf(r) \subseteq suppressed']_deletionVars
  BY RedactionLists
<1> QED
  BY <1>1, <1>2, <1>3, PTL DEF ErasureIsComplete, DeletionKnowsAll

\* A deletion lists every identifier its candidate has when it is redacted, and
\* once it has completed nothing of the candidate is left in a row or in a
\* snapshot, whatever was ingested, applied, purged or lost meanwhile
\* (execute_delete, privacy_finalize_deletion and the tasks of maintenance).
THEOREM ErasureCompletes == DeletionSpec => ErasureIsComplete
BY ErasesAll, DeletionInvariant, PTL DEF DeletionSpec

\* Only a privacy deletion takes the row of a snapshot that is kept.
LEMMA KeptRowsGo ==
  ASSUME DeletionInv, [DeletionNext]_deletionVars, NEW q \in Requests,
         reference[q].at = "kept", reference'[q].at = "none"
  PROVE  \E p \in Asks : targets[p][q] # "none"
<1>0. PeopleTypes /\ CleanersHold /\ cleaner \in [Cleaners -> CleanerRows]
  BY TypesInParts DEF DeletionInv, RequestInv, CleanerTypes
<1>1. ASSUME NEW w \in Workers, PutSnapshot(w) \/ CommitPayload(w) \/ LosePayload(w)
      PROVE  FALSE
  <2>1. PutSnapshot(w) \/ LosePayload(w) => UNCHANGED reference
    BY DEF PutSnapshot, LosePayload
  <2>2. CommitPayload(w) => reference'[q].at # "none"
    BY <1>0, WorkFields DEF CommitPayload, PeopleTypes
  <2> QED
    BY <1>1, <2>1, <2>2
<1>2. ASSUME NEW c \in Cleaners,
             ClaimExpired(c) \/ \E o \in Requests : Purge(c, o) \/ PurgeFails(c, o)
      PROVE  FALSE
  <2>1. ClaimExpired(c) => reference'[q].at = reference[q].at
    BY <1>0 DEF ClaimExpired, PeopleTypes
  <2>2. ASSUME NEW o \in Requests, Purge(c, o)
        PROVE  UNCHANGED reference
    BY <2>2 DEF Purge
  <2>3. ASSUME NEW o \in Requests, PurgeFails(c, o)
        PROVE  reference'[q].at = reference[q].at
    BY <1>0, <2>3 DEF PurgeFails, PeopleTypes
  <2> QED
    BY <1>2, <2>1, <2>2, <2>3
<1>3. ASSUME NEW c \in Cleaners, MarkDeleted(c)
      PROVE  \E p \in Asks : targets[p][q] # "none"
  <2> DEFINE i == cleaner[c].item
  <2>1. i \in Requests /\ cleaner[c].ask \in Asks \cup {NoAsk}
    BY <1>0, <1>3 DEF MarkDeleted, CleanersHold, CleanerRows
  <2>2. /\ reference' = [reference EXCEPT ![i] = NoReference]
        /\ IF cleaner[c].ask = NoAsk THEN StillExpired(i)
           ELSE targets[cleaner[c].ask][i] = "claimed"
    BY <1>3 DEF MarkDeleted
  <2>3. i = q
    BY <1>0, <2>1, <2>2 DEF PeopleTypes
  <2>4. ~StillExpired(q)
    BY DEF StillExpired
  <2> QED
    BY <2>1, <2>2, <2>3, <2>4
<1>4. ASSUME NEW o \in Requests, SnapshotExpires(o)
      PROVE  FALSE
  BY <1>0, <1>4 DEF SnapshotExpires, PeopleTypes
<1> QED
  BY <1>1, <1>2, <1>3, <1>4, SnapshotSteps

\* Where the invariant holds, a renewed snapshot stays.
LEMMA RenewedAreKept == []DeletionInv /\ [][DeletionNext]_deletionVars => RenewedSnapshotsStay
<1>1. DeletionInv /\ [DeletionNext]_deletionVars
        => [\A q \in Requests : reference[q].at = "kept" /\ reference'[q].at = "none"
              => \E p \in Asks : targets[p][q] # "none"]_deletionVars
  BY KeptRowsGo
<1> QED
  BY <1>1, PTL DEF RenewedSnapshotsStay

\* Reconciliation never takes a snapshot that a payload renewed between its
\* claim and its deletion (maintenance_delete_claimed_snapshot).
THEOREM RenewedStay == DeletionSpec => RenewedSnapshotsStay
BY RenewedAreKept, DeletionInvariant, PTL DEF DeletionSpec

-----------------------------------------------------------------------------
(* The retention of a contact point                                         *)

Drafts == Columns({"none", "kept", "erased", "fresh"})

Stores == [open : {TRUE}, contact : Contacts, point : Points,
           retired : 0..(MaxTime + MaxDays), at : Times]

\* An open transaction holds a row that it read, and a recruiter sees only what
\* has or had a value.
ContactWork ==
  /\ ContactTypeOK
  /\ storing = NotOpen \/ storing \in Stores
  /\ \/ revealing = NotOpen
     \/ revealing \in [open : {TRUE}, point : Points] /\ revealing.point.value # "none"

\* How the expiry follows from the columns: exactly, once the value was verified
\* or used.
Expiring(p) ==
  /\ p.observed # Never /\ p.expires # Never /\ p.used <= now
  /\ IF p.verified = Never /\ p.used = Never
     THEN p.expires <= p.observed + p.days
     ELSE p.expires = Anchor(p) + p.days

\* Unless a transaction has written over what it had not read, the tombstone
\* keeps the day on which the value was due.
Lawful ==
  ~ overtaken =>
    /\ point.value = "none" => retired = Never
    /\ point.value = "kept" => retired = Never /\ Expiring(point)
    /\ point.value = "erased" => retired = point.expires /\ retired # Never

ContactInv == ContactWork /\ Lawful

\* What is written of a draft.
Stored(new) == [new EXCEPT !.value = IF @ = "fresh" THEN "kept" ELSE @]

LEMMA Later == ASSUME NEW a \in Nat, NEW b \in Nat
               PROVE  Max({a, b}) = IF a >= b THEN a ELSE b
<1>1. \E x \in {a, b} : \A y \in {a, b} : x >= y
  OBVIOUS
<1>2. Max({a, b}) \in {a, b} /\ \A y \in {a, b} : Max({a, b}) >= y
  BY <1>1 DEF Max
<1> QED
  BY <1>2

LEMMA Sooner == ASSUME NEW a \in Nat, NEW b \in Nat
                PROVE  Min({a, b}) = IF a <= b THEN a ELSE b
<1>1. \E x \in {a, b} : \A y \in {a, b} : x =< y
  OBVIOUS
<1>2. Min({a, b}) \in {a, b} /\ \A y \in {a, b} : Min({a, b}) =< y
  BY <1>1 DEF Min
<1> QED
  BY <1>2

LEMMA WrittenType ==
  ASSUME point \in Points, NEW read \in Points, NEW new \in Drafts
  PROVE  Written(read, new) \in Points
<1> DEFINE w == [f \in DOMAIN point |-> IF new[f] = read[f] THEN point[f] ELSE new[f]]
<1>1. DOMAIN point = {"value", "observed", "verified", "used", "days", "expires", "expired"}
  BY DEF Points, Columns
<1>2. w \in Drafts
  BY <1>1 DEF Points, Drafts, Columns
<1>3. Written(read, new) = [w EXCEPT !.value = IF @ = "fresh" THEN "kept" ELSE @]
  BY DEF Written
<1> HIDE DEF w
<1> QED
  BY <1>2, <1>3 DEF Points, Drafts, Columns

LEMMA WrittenOver ==
  ASSUME point \in Points, NEW new \in Drafts
  PROVE  Written(point, new) = Stored(new)
<1> DEFINE w == [f \in DOMAIN point |-> IF new[f] = point[f] THEN point[f] ELSE new[f]]
<1>1. DOMAIN point = DOMAIN new
  BY DEF Points, Drafts, Columns
<1>2. w = new
  BY <1>1 DEF Drafts, Columns
<1>3. Written(point, new) = [w EXCEPT !.value = IF @ = "fresh" THEN "kept" ELSE @]
  BY DEF Written
<1> HIDE DEF w
<1> QED
  BY <1>2, <1>3 DEF Stored

\* The operators on columns keep their types; fields are as the code sets them.
LEMMA AnchorType ==
  ASSUME NEW p \in Drafts
  PROVE  /\ Anchor(p) \in 0..MaxTime
         /\ Anchor(p) = IF p.verified = Never /\ p.used = Never THEN p.observed
                        ELSE IF p.verified >= p.used THEN p.verified ELSE p.used
<1>1. /\ p.observed \in 0..MaxTime /\ p.verified \in 0..MaxTime /\ p.used \in 0..MaxTime
  BY DEF Drafts, Columns
<1>2. p.verified \in Nat /\ p.used \in Nat
  BY <1>1, RetentionAssumption
<1>3. Max({p.verified, p.used}) = IF p.verified >= p.used THEN p.verified ELSE p.used
  BY <1>2, Later
<1> QED
  BY <1>1, <1>3 DEF Anchor

LEMMA SoonerType ==
  ASSUME NEW n \in Nat, NEW a \in Nat, NEW b \in 0..n
  PROVE  Min({a, b}) \in 0..n /\ Min({a, b}) <= a /\ Min({a, b}) <= b
         /\ Min({a, b}) \in {a, b} /\ Min({b, a}) = Min({a, b})
<1>1. b \in Nat
  OBVIOUS
<1>2. Min({a, b}) = (IF a <= b THEN a ELSE b) /\ Min({b, a}) = (IF b <= a THEN b ELSE a)
  BY <1>1, Sooner
<1> QED
  BY <1>1, <1>2

LEMMA ErasedType ==
  ASSUME NEW p \in Points, NEW at \in Times
  PROVE  /\ WithoutValue(p, at) \in Points
         /\ WithoutValue(p, at).value = "erased" /\ WithoutValue(p, at).expires = p.expires
         /\ WithoutValue(p, at).days = p.days
<1>1. at \in 0..MaxTime
  BY RetentionAssumption DEF Times
<1>2. WithoutValue(p, at) = [p EXCEPT !.value = "erased", !.expired = at]
  BY DEF WithoutValue
<1> QED
  BY <1>1, <1>2 DEF Points, Columns

LEMMA CreatedType ==
  ASSUME NEW c \in Contacts
  PROVE  Created(c) \in Drafts
BY RetentionAssumption DEF Created, Drafts, Columns, Contacts, Times, Never

LEMMA RevivedType ==
  ASSUME NEW c \in Contacts, NEW p \in Points
  PROVE  /\ Revived(c, p) \in Drafts
         /\ Revived(c, p).days <= p.days /\ Revived(c, p).days <= c.days
<1>1. c.days \in 0..MaxDays /\ p.days \in Nat /\ c.observed \in 1..MaxTime
  BY RetentionAssumption DEF Contacts, Points, Columns, Times
<1>2. Min({p.days, c.days}) \in 0..MaxDays
      /\ Min({p.days, c.days}) <= p.days /\ Min({p.days, c.days}) <= c.days
  <2>1. MaxDays \in Nat /\ p.days \in Nat
    BY <1>1, RetentionAssumption
  <2> QED
    BY <1>1, <2>1, SoonerType
<1> DEFINE d == Min({p.days, c.days})
<1>3. Revived(c, p) = [value |-> "fresh", observed |-> c.observed, verified |-> c.observed,
                       used |-> Never, days |-> d, expires |-> c.observed + d,
                       expired |-> Never]
  BY DEF Revived
<1> HIDE DEF d
<1>4. d \in 0..MaxDays
  BY <1>2 DEF d
<1>5. d <= p.days /\ d <= c.days
  BY <1>2 DEF d
<1> DEFINE e == c.observed + d
<1>6. e \in 0..(MaxTime + MaxDays) /\ c.observed \in 0..MaxTime
  BY <1>1, <1>4, RetentionAssumption
<1>7. Revived(c, p) = [value |-> "fresh", observed |-> c.observed, verified |-> c.observed,
                       used |-> 0, days |-> d, expires |-> e, expired |-> 0]
  BY <1>3 DEF Never
<1> HIDE DEF e
<1>8. Revived(c, p).days = d /\ 0 \in 0..MaxTime
  BY <1>7, RetentionAssumption
<1>9. Revived(c, p) \in Drafts
  BY <1>4, <1>6, <1>7, <1>8 DEF Drafts, Columns
<1> QED
  BY <1>5, <1>8, <1>9

LEMMA ShortenedType ==
  ASSUME NEW c \in Contacts, NEW p \in Points
  PROVE  /\ Shortened(c, p) \in Points
         /\ Shortened(c, p).days <= p.days /\ Shortened(c, p).days <= c.days
         /\ Shortened(c, p) = [p EXCEPT !.days = Shortened(c, p).days,
                                        !.expires = Shortened(c, p).expires]
         /\ \/ Shortened(c, p) = p
            \/ Shortened(c, p).expires =
                 Min({p.expires, Anchor(Shortened(c, p)) + Shortened(c, p).days})
<1>1. c.days \in 0..MaxDays /\ p.days \in 0..MaxDays /\ p.expires \in 0..(MaxTime + MaxDays)
  BY RetentionAssumption DEF Contacts, Points, Columns
<1>2. Min({p.days, c.days}) \in 0..MaxDays
      /\ Min({p.days, c.days}) <= p.days /\ Min({p.days, c.days}) <= c.days
  <2>1. MaxDays \in Nat /\ p.days \in Nat
    BY <1>1, RetentionAssumption
  <2> QED
    BY <1>1, <2>1, SoonerType
<1> DEFINE d == Min({p.days, c.days})
           new == [p EXCEPT !.days = Min({@, c.days})]
           e == Min({p.expires, Anchor(new) + new.days})
<1>3. new = [p EXCEPT !.days = d]
  BY DEF Points, Columns
<1>4. d \in 0..MaxDays /\ d <= p.days /\ d <= c.days
  BY <1>2
<1> HIDE DEF d
<1>5. new \in Points /\ new \in Drafts /\ new.days = d /\ new.expires = p.expires
  BY <1>3, <1>4 DEF Points, Drafts, Columns
<1>6. Shortened(c, p) = IF new.days = p.days THEN p ELSE [new EXCEPT !.expires = e]
  <2>1. [new EXCEPT !.expires = Min({@, Anchor(new) + new.days})] = [new EXCEPT !.expires = e]
    BY <1>5 DEF Points, Columns
  <2> QED
    BY <2>1 DEF Shortened
<1>7. Anchor(new) \in 0..MaxTime
  BY <1>5, AnchorType
<1>8. e \in 0..(MaxTime + MaxDays)
  <2>1. Anchor(new) + new.days \in Nat /\ MaxTime + MaxDays \in Nat
    BY <1>4, <1>5, <1>7, RetentionAssumption
  <2> DEFINE a == Anchor(new) + new.days
             n == MaxTime + MaxDays
             b == p.expires
  <2>2. a \in Nat /\ n \in Nat /\ b \in 0..n
    BY <1>1, <2>1
  <2> HIDE DEF a, n, b
  <2>3. Min({a, b}) \in 0..n
    BY <2>2, SoonerType
  <2>4. Min({Anchor(new) + new.days, p.expires}) \in 0..(MaxTime + MaxDays)
    BY <2>3 DEF a, n, b
  <2>5. {Anchor(new) + new.days, p.expires} = {p.expires, Anchor(new) + new.days}
    OBVIOUS
  <2> QED
    BY <2>4, <2>5
<1>9. CASE new.days = p.days
  <2>1. Shortened(c, p) = p /\ p.days <= p.days /\ p.days <= c.days
    BY <1>1, <1>4, <1>5, <1>6, <1>9
  <2>2. p = [p EXCEPT !.days = p.days, !.expires = p.expires]
    BY DEF Points, Columns
  <2> QED
    BY <2>1, <2>2
<1>10. CASE new.days # p.days
  <2> DEFINE short == [new EXCEPT !.expires = e]
  <2>1. Shortened(c, p) = short
    BY <1>6, <1>10
  <2>2. e = Min({p.expires, Anchor(new) + new.days})
    OBVIOUS
  <2> HIDE DEF e
  <2>3. short \in Points /\ short.days = d /\ short.expires = e
    BY <1>5, <1>8 DEF Points, Columns
  <2>4. short = [p EXCEPT !.days = d, !.expires = e]
    BY <1>3 DEF Points, Columns
  <2>5. Anchor(short) = Anchor(new)
    <3>1. /\ short.verified = new.verified /\ short.used = new.used
          /\ short.observed = new.observed
      BY <1>5 DEF Points, Columns
    <3> QED
      BY <3>1 DEF Anchor
  <2> HIDE DEF short, new
  <2> QED
    BY <1>4, <1>5, <2>1, <2>2, <2>3, <2>4, <2>5
<1> QED
  BY <1>9, <1>10

LEMMA RefreshedType ==
  ASSUME NEW c \in Contacts, NEW p \in Points
  PROVE  LET r == Refreshed(c, p) IN
         /\ r \in Drafts /\ r.value = "fresh" /\ r.observed = c.observed /\ r.used = p.used
         /\ r.days <= p.days /\ r.days <= c.days
         /\ r.verified >= p.verified
         /\ r.expires = IF r.verified # p.verified THEN Anchor(r) + r.days
                        ELSE Min({p.expires, Anchor(r) + r.days})
<1>1. /\ c.days \in 0..MaxDays /\ c.observed \in 0..MaxTime
      /\ p.days \in 0..MaxDays /\ p.expires \in 0..(MaxTime + MaxDays)
      /\ p.verified \in 0..MaxTime /\ p.used \in 0..MaxTime /\ p.expired \in 0..MaxTime
  BY RetentionAssumption DEF Contacts, Points, Columns, Times
<1> DEFINE d == Min({p.days, c.days})
           v == IF c.verified THEN Max({p.verified, c.observed}) ELSE p.verified
           fresh == [p EXCEPT !.value = "fresh", !.observed = c.observed,
                              !.days = Min({@, c.days}),
                              !.verified = IF c.verified THEN Max({@, c.observed}) ELSE @]
           due == Anchor(fresh) + fresh.days
           e == IF fresh.verified # p.verified THEN due ELSE Min({p.expires, due})
<1>2. d \in 0..MaxDays /\ d <= p.days /\ d <= c.days
  <2>1. MaxDays \in Nat /\ p.days \in Nat
    BY <1>1, RetentionAssumption
  <2> QED
    BY <1>1, <2>1, SoonerType
<1>3. v \in 0..MaxTime /\ v >= p.verified
  <2>1. p.verified \in Nat /\ c.observed \in Nat
    BY <1>1, RetentionAssumption
  <2>2. Max({p.verified, c.observed}) = IF p.verified >= c.observed THEN p.verified
                                        ELSE c.observed
    BY <2>1, Later
  <2> QED
    BY <1>1, <2>1, <2>2
<1>4. fresh = [value |-> "fresh", observed |-> c.observed, verified |-> v, used |-> p.used,
               days |-> d, expires |-> p.expires, expired |-> p.expired]
  <2>1. fresh = [[[[p EXCEPT !.value = "fresh"] EXCEPT !.observed = c.observed]
                    EXCEPT !.days = d] EXCEPT !.verified = v]
    BY DEF Points, Columns
  <2> HIDE DEF fresh, d, v
  <2> QED
    BY <2>1 DEF Points, Columns
<1> HIDE DEF d, v
<1>5. fresh \in Drafts /\ fresh.days = d /\ fresh.verified = v
  BY <1>1, <1>2, <1>3, <1>4 DEF Drafts, Columns
<1>6. Refreshed(c, p) = [fresh EXCEPT !.expires = e]
  <2>1. [fresh EXCEPT !.expires = IF fresh.verified # p.verified THEN due ELSE Min({@, due})]
        = [fresh EXCEPT !.expires = e]
    BY <1>4
  <2> QED
    BY <2>1 DEF Refreshed
<1>7. due \in 0..(MaxTime + MaxDays)
  <2>1. Anchor(fresh) \in 0..MaxTime
    BY <1>5, AnchorType
  <2> QED
    BY <1>2, <1>5, <2>1, RetentionAssumption
<1>8. e \in 0..(MaxTime + MaxDays)
  <2>1. \A x, y \in 0..(MaxTime + MaxDays) : Min({x, y}) \in 0..(MaxTime + MaxDays)
    <3> TAKE x, y \in 0..(MaxTime + MaxDays)
    <3>1. x \in Nat /\ y \in Nat
      BY RetentionAssumption
    <3>2. Min({x, y}) = IF x <= y THEN x ELSE y
      BY <3>1, Sooner
    <3> QED
      BY <3>2
  <2> HIDE DEF due, fresh
  <2>2. Min({p.expires, due}) \in 0..(MaxTime + MaxDays)
    BY <1>1, <1>7, <2>1
  <2> QED
    BY <1>7, <2>2
<1> DEFINE r == [fresh EXCEPT !.expires = e]
<1>9. e = IF fresh.verified # p.verified THEN Anchor(fresh) + fresh.days
          ELSE Min({p.expires, Anchor(fresh) + fresh.days})
  OBVIOUS
<1> HIDE DEF e, due, fresh
<1>10. r = [value |-> "fresh", observed |-> c.observed, verified |-> v, used |-> p.used,
            days |-> d, expires |-> e, expired |-> p.expired]
  BY <1>4
<1>11. Anchor(r) = Anchor(fresh)
  BY <1>4, <1>10 DEF Anchor
<1>12. r \in Drafts
  BY <1>1, <1>2, <1>3, <1>8, <1>10 DEF Drafts, Columns
<1>13. /\ r.value = "fresh" /\ r.observed = c.observed /\ r.used = p.used
       /\ r.days = d /\ r.verified = v /\ r.expires = e
  BY <1>10
<1> HIDE DEF r
<1>14. r.expires = IF r.verified # p.verified THEN Anchor(r) + r.days
                   ELSE Min({p.expires, Anchor(r) + r.days})
  BY <1>5, <1>9, <1>11, <1>13
<1>15. Refreshed(c, p) = r
  BY <1>6 DEF r
<1> QED
  BY <1>2, <1>3, <1>12, <1>13, <1>14, <1>15

LEMMA PointsAreDrafts == ASSUME NEW p \in Points PROVE p \in Drafts
BY DEF Points, Drafts, Columns

\* What a store makes of the row it has read, and of the tombstone.
LEMMA StoreType ==
  ASSUME ContactWork, FinishStore
  PROVE  point' \in Points /\ retired' \in 0..(MaxTime + MaxDays)
<1>1. /\ storing \in Stores /\ point \in Points /\ retired \in 0..(MaxTime + MaxDays)
  BY DEF ContactWork, ContactTypeOK, FinishStore, NotOpen
<1> DEFINE c == storing.contact
           read == storing.point
           due == read.value # "none" /\ storing.at >= read.expires
           p == IF due THEN WithoutValue(read, storing.at) ELSE read
           gone == IF due THEN read.expires ELSE storing.retired
           new == IF p.value = "none" THEN Created(c)
                  ELSE IF gone # Never
                       THEN IF IsNewVerification(c, gone) THEN Revived(c, p) ELSE p
                  ELSE IF c.observed >= p.observed THEN Refreshed(c, p) ELSE Shortened(c, p)
           left == IF new.value = "fresh" THEN Never ELSE gone
<1>2. c \in Contacts /\ read \in Points /\ storing.at \in Times
      /\ storing.retired \in 0..(MaxTime + MaxDays)
  BY <1>1 DEF Stores
<1>3. p \in Points
  <2> HIDE DEF c
  <2> QED
    BY <1>2, ErasedType
<1>4. gone \in 0..(MaxTime + MaxDays)
  BY <1>2 DEF Points, Columns
<1>5. /\ point' = Written(read, new)
      /\ retired' = IF left = storing.retired THEN retired ELSE left
  BY DEF FinishStore
<1> HIDE DEF c, p, gone
<1>6. new \in Drafts
  <2>1. Created(c) \in Drafts /\ Revived(c, p) \in Drafts /\ Refreshed(c, p) \in Drafts
        /\ Shortened(c, p) \in Points
    BY <1>2, <1>3, CreatedType, RevivedType, RefreshedType, ShortenedType
  <2>2. p \in Drafts /\ Shortened(c, p) \in Drafts
    BY <1>3, <2>1, PointsAreDrafts
  <2> QED
    BY <2>1, <2>2
<1>7. left \in 0..(MaxTime + MaxDays)
  BY <1>4, RetentionAssumption DEF Never
<1> HIDE DEF new, left, read
<1> QED
  BY <1>1, <1>2, <1>5, <1>6, <1>7, WrittenType

\* What it makes of a row nobody has changed since: a new value; an erased one,
\* erased now or before; one that was verified after it was due; a value that is
\* observed again, or whose policy is shortened.
StoreMakes(c) ==
  \/ /\ point.value = "none" /\ point' = Stored(Created(c)) /\ retired' = Never
  \/ /\ point.value # "none" /\ retired' = point.expires
     /\ point' \in Points /\ point'.value = "erased" /\ point'.expires = point.expires
  \/ /\ point.value # "none" /\ retired' = Never
     /\ c.verified /\ c.observed > point.expires
     /\ \E p \in Points : p.days = point.days /\ point' = Stored(Revived(c, p))
  \/ /\ point.value = "kept" /\ retired' = Never
     /\ point' = Stored(Refreshed(c, point)) \/ point' = Stored(Shortened(c, point))

LEMMA StoreCases ==
  ASSUME ContactInv, FinishStore, ~ overtaken'
  PROVE  storing \in Stores /\ StoreMakes(storing.contact)
<1>1. /\ storing \in Stores /\ point \in Points /\ retired \in 0..(MaxTime + MaxDays)
  BY DEF ContactInv, ContactWork, ContactTypeOK, FinishStore, NotOpen
<1> DEFINE c == storing.contact
           due == point.value # "none" /\ storing.at >= point.expires
           p == IF due THEN WithoutValue(point, storing.at) ELSE point
           gone == IF due THEN point.expires ELSE retired
           new == IF p.value = "none" THEN Created(c)
                  ELSE IF gone # Never
                       THEN IF IsNewVerification(c, gone) THEN Revived(c, p) ELSE p
                  ELSE IF c.observed >= p.observed THEN Refreshed(c, p) ELSE Shortened(c, p)
           left == IF new.value = "fresh" THEN Never ELSE gone
<1>2. ~ overtaken /\ storing.point = point /\ storing.retired = retired
  BY DEF FinishStore, Overtakes
<1>3. point' = Written(point, new) /\ retired' = left
  BY <1>2 DEF FinishStore
<1>4. c \in Contacts /\ storing.at \in Times
  BY <1>1 DEF Stores
<1>5. p \in Points /\ p.days = point.days /\ p.expires = point.expires
      /\ (due => p.value = "erased")
  <2> HIDE DEF c
  <2> QED
    BY <1>1, <1>4, ErasedType
<1>6. /\ point.value = "none" => retired = Never
      /\ point.value = "kept" => retired = Never /\ point.expires # Never
      /\ point.value = "erased" => retired = point.expires /\ retired # Never
      /\ point.value \in {"none", "kept", "erased"}
  BY <1>1, <1>2 DEF ContactInv, Lawful, Expiring, Points, Columns
<1>7. CASE point.value = "none"
  <2>1. new = Created(c) /\ p = point
    BY <1>7
  <2>2. left = Never /\ new \in Drafts
    BY <1>4, <2>1, CreatedType DEF Created
  <2> HIDE DEF new, left, c
  <2> QED
    BY <1>1, <1>3, <1>7, <2>1, <2>2, WrittenOver DEF StoreMakes, c
<1>8. CASE point.value # "none" /\ gone # Never
  <2>1. gone = point.expires
    BY <1>6, <1>8
  <2>2. p.value # "none"
    BY <1>5, <1>8
  <2>3. p.value = "erased"
    BY <1>5, <1>6, <1>8
  <2> HIDE DEF c, p, gone
  <2>4. CASE IsNewVerification(c, gone)
    <3>1. new = Revived(c, p)
      BY <1>8, <2>2, <2>4
    <3>2. left = Never /\ new \in Drafts
      BY <1>4, <1>5, <3>1, RevivedType DEF Revived
    <3> HIDE DEF new, left
    <3>3. point' = Stored(Revived(c, p)) /\ retired' = Never
      BY <1>1, <1>3, <3>1, <3>2, WrittenOver
    <3>4. c.verified /\ c.observed > point.expires
      BY <2>1, <2>4 DEF IsNewVerification
    <3> QED
      BY <1>1, <1>5, <1>8, <3>3, <3>4 DEF StoreMakes, c
  <2>5. CASE ~ IsNewVerification(c, gone)
    <3>1. new = p
      BY <1>8, <2>2, <2>5
    <3>2. left = gone /\ new \in Drafts
      BY <1>5, <2>3, <3>1, PointsAreDrafts
    <3> HIDE DEF new, left
    <3>3. point' = Stored(p) /\ retired' = point.expires
      BY <1>1, <1>3, <2>1, <3>1, <3>2, WrittenOver
    <3>4. Stored(p) = p
      BY <1>5, <2>3 DEF Stored, Points, Columns
    <3> QED
      BY <1>1, <1>5, <1>8, <2>3, <3>3, <3>4 DEF StoreMakes
  <2> QED
    BY <2>4, <2>5
<1>9. CASE point.value # "none" /\ gone = Never
  <2>1. ~ due /\ point.value = "kept"
    BY <1>6, <1>9
  <2>2. p = point
    BY <2>1
  <2>3. new = IF c.observed >= point.observed THEN Refreshed(c, point) ELSE Shortened(c, point)
    BY <1>9, <2>1, <2>2
  <2>4. left = Never
    BY <1>9
  <2> HIDE DEF c, p, gone, new, left
  <2>5. Refreshed(c, point) \in Drafts /\ Shortened(c, point) \in Drafts
    BY <1>1, <1>4, RefreshedType, ShortenedType, PointsAreDrafts
  <2>6. point' = Stored(Refreshed(c, point)) \/ point' = Stored(Shortened(c, point))
    BY <1>1, <1>3, <2>3, <2>5, WrittenOver
  <2> QED
    BY <1>1, <1>3, <2>1, <2>4, <2>6 DEF StoreMakes, c
<1> QED
  BY <1>7, <1>8, <1>9

LEMMA StoredRow ==
  ASSUME NEW new \in Drafts
  PROVE  /\ Stored(new) \in Points
         /\ Stored(new).value = IF new.value = "fresh" THEN "kept" ELSE new.value
         /\ Stored(new).verified = new.verified /\ Stored(new).used = new.used
         /\ Stored(new).days = new.days /\ Stored(new).expires = new.expires
         /\ Expiring(new) => Expiring(Stored(new))
<1>1. /\ Stored(new) \in Points
      /\ Stored(new).value = IF new.value = "fresh" THEN "kept" ELSE new.value
  BY DEF Stored, Drafts, Points, Columns
<1>2. /\ Stored(new).verified = new.verified /\ Stored(new).used = new.used
      /\ Stored(new).days = new.days /\ Stored(new).expires = new.expires
      /\ Stored(new).observed = new.observed
  BY DEF Stored, Drafts, Columns
<1>3. Anchor(Stored(new)) = Anchor(new)
  BY <1>2 DEF Anchor
<1>4. Expiring(new) => Expiring(Stored(new))
  BY <1>2, <1>3 DEF Expiring
<1> QED
  BY <1>1, <1>2, <1>4

\* Observed again, a value keeps an expiry that follows from its columns, and no
\* later one unless it was verified.
LEMMA ExpiringAgain ==
  ASSUME NEW p \in Points, NEW r \in Drafts, now \in Times, Expiring(p),
         r.observed # Never, r.used = p.used, r.verified >= p.verified, r.days <= p.days,
         r.expires = IF r.verified # p.verified THEN Anchor(r) + r.days
                     ELSE Min({p.expires, Anchor(r) + r.days})
  PROVE  Expiring(r) /\ (r.expires > p.expires => r.verified > p.verified)
<1>1. /\ p.observed \in Nat /\ p.verified \in Nat /\ p.used \in Nat /\ p.days \in Nat
      /\ p.expires \in Nat
      /\ r.observed \in Nat /\ r.verified \in Nat /\ r.used \in Nat /\ r.days \in Nat
      /\ r.expires \in Nat
  BY RetentionAssumption DEF Points, Drafts, Columns
<1>2. p \in Drafts
  BY PointsAreDrafts
<1>3. /\ Anchor(p) = IF p.verified = Never /\ p.used = Never THEN p.observed
                     ELSE IF p.verified >= p.used THEN p.verified ELSE p.used
      /\ Anchor(r) = IF r.verified = Never /\ r.used = Never THEN r.observed
                     ELSE IF r.verified >= r.used THEN r.verified ELSE r.used
  BY <1>2, AnchorType
<1> DEFINE due == Anchor(r) + r.days
<1>4. due \in Nat
  BY <1>1, <1>3
<1>5. Min({p.expires, due}) = IF p.expires <= due THEN p.expires ELSE due
  BY <1>1, <1>4, Sooner
<1>6. CASE r.verified # p.verified
  <2>1. r.verified > p.verified /\ r.expires = Anchor(r) + r.days
    BY <1>1, <1>6
  <2>2. r.expires # Never
    BY <1>1, <1>3, <2>1 DEF Never
  <2> QED
    BY <1>1, <1>3, <2>1, <2>2 DEF Expiring, Never
<1>7. CASE r.verified = p.verified
  <2>1. r.expires = IF p.expires <= due THEN p.expires ELSE due
    BY <1>5, <1>7
  <2>2. r.expires <= p.expires /\ r.expires <= due
    BY <1>1, <1>4, <2>1
  <2>3. r.expires # Never
    BY <1>1, <1>3, <2>1 DEF Expiring, Never
  <2>4. CASE p.verified = Never /\ p.used = Never
    <3>1. r.expires <= r.observed + r.days
      BY <1>3, <1>7, <2>2, <2>4
    <3> QED
      BY <1>1, <1>7, <2>2, <2>3, <2>4, <3>1 DEF Expiring
  <2>5. CASE ~ (p.verified = Never /\ p.used = Never)
    <3>1. Anchor(r) = Anchor(p) /\ p.expires = Anchor(p) + p.days
      BY <1>3, <1>7, <2>5 DEF Expiring
    <3>2. r.expires = Anchor(r) + r.days
      <4>1. Anchor(r) \in Nat
        BY <1>1, <1>3
      <4>2. due <= p.expires
        BY <1>1, <3>1, <4>1
      <4> QED
        BY <1>1, <1>4, <2>1, <4>2
    <3> QED
      BY <1>1, <1>7, <2>2, <2>3, <2>5, <3>2 DEF Expiring
  <2> QED
    BY <2>4, <2>5
<1> QED
  BY <1>6, <1>7

\* What a use makes of a value.
UsedNow(p) == [[p EXCEPT !.used = now]
                 EXCEPT !.expires = Anchor([p EXCEPT !.used = now]) + p.days]

LEMMA ExpiringUsed ==
  ASSUME NEW p \in Points, now \in Times
  PROVE  /\ UsedNow(p) \in Points /\ UsedNow(p).value = p.value
         /\ UsedNow(p).used = now /\ UsedNow(p).verified = p.verified
         /\ Expiring(p) => /\ Expiring(UsedNow(p))
                           /\ UsedNow(p).expires > p.expires => now > p.used
<1> DEFINE q == [p EXCEPT !.used = now]
           u == [q EXCEPT !.expires = Anchor(q) + p.days]
<1>1. now \in 0..MaxTime /\ now \in Nat /\ now # 0
  BY RetentionAssumption DEF Times
<1>2. q \in Points /\ q.used = now /\ q.verified = p.verified /\ q.observed = p.observed
      /\ q.value = p.value /\ q.days = p.days
  BY <1>1 DEF Points, Columns
<1> HIDE DEF q
<1>3. p \in Drafts /\ q \in Drafts
  BY <1>2, PointsAreDrafts
<1>4. /\ Anchor(q) = IF p.verified >= now THEN p.verified ELSE now
      /\ Anchor(q) \in 0..MaxTime
  BY <1>1, <1>2, <1>3, AnchorType DEF Never
<1>5. p.days \in 0..MaxDays /\ p.verified \in Nat /\ p.used \in Nat /\ p.observed \in Nat
      /\ p.expires \in Nat
  BY RetentionAssumption DEF Points, Columns
<1>6. Anchor(q) + p.days \in 0..(MaxTime + MaxDays) /\ Anchor(q) + p.days # 0
  BY <1>1, <1>4, <1>5, RetentionAssumption
<1>7. /\ u \in Points /\ u.value = p.value /\ u.used = now /\ u.verified = p.verified
      /\ u.observed = p.observed /\ u.days = p.days /\ u.expires = Anchor(q) + p.days
  BY <1>2, <1>6 DEF Points, Columns
<1> HIDE DEF u
<1>8. u = UsedNow(p)
  BY DEF u, q, UsedNow
<1>9. ASSUME Expiring(p) PROVE Expiring(u) /\ (u.expires > p.expires => now > p.used)
  <2>1. Anchor(u) = Anchor(q)
    BY <1>2, <1>7 DEF Anchor
  <2>2. Expiring(u)
    BY <1>1, <1>6, <1>7, <1>9, <2>1 DEF Expiring, Never
  <2>3. ASSUME ~ (now > p.used) PROVE u.expires = p.expires
    <3>1. p.used = now
      BY <1>1, <1>5, <1>9, <2>3 DEF Expiring
    <3>2. Anchor(p) = Anchor(q)
      BY <1>1, <1>3, <1>4, <3>1, AnchorType DEF Never
    <3> QED
      BY <1>1, <1>7, <1>9, <3>1, <3>2 DEF Expiring, Never
  <2>4. u.expires > p.expires => now > p.used
    BY <1>5, <2>3
  <2> QED
    BY <2>2, <2>4
<1> QED
  BY <1>7, <1>8, <1>9

-----------------------------------------------------------------------------
(* The steps *)

\* The invariant after a store, and what the store does to a value.
LEMMA StoreKeeps ==
  ASSUME ContactInv, FinishStore
  PROVE  /\ Lawful'
         /\ ~ overtaken' =>
              /\ point.value = "kept" /\ point'.expires > point.expires
                   => point'.verified > point.verified
              /\ point.value = "erased" /\ point'.value = "kept" => point'.verified > retired
              /\ point'.value = "kept" =>
                   /\ point'.days <= storing.contact.days
                   /\ point.value # "none" => point'.days <= point.days
<1> SUFFICES
      ASSUME ~ overtaken'
      PROVE  /\ point'.value = "none" => retired' = Never
             /\ point'.value = "kept" => retired' = Never /\ Expiring(point')
             /\ point'.value = "erased" => retired' = point'.expires /\ retired' # Never
             /\ point.value = "kept" /\ point'.expires > point.expires
                  => point'.verified > point.verified
             /\ point.value = "erased" /\ point'.value = "kept" => point'.verified > retired
             /\ point'.value = "kept" =>
                  /\ point'.days <= storing.contact.days
                  /\ point.value # "none" => point'.days <= point.days
  <2>1. now' = now
    BY DEF FinishStore
  <2> QED
    BY <2>1 DEF Lawful, Expiring
<1> DEFINE c == storing.contact
<1>1. StoreMakes(c) /\ c \in Contacts
  BY StoreCases DEF Stores
<1> HIDE DEF c
<1>2. point \in Points /\ now \in Times /\ ~ overtaken
  BY DEF ContactInv, ContactWork, ContactTypeOK, FinishStore, Overtakes
<1>3. /\ c.observed \in Nat /\ c.observed # Never /\ c.days \in Nat /\ c.verified \in BOOLEAN
      /\ point.expires \in Nat /\ point.days \in Nat /\ point.verified \in Nat
      /\ now \in Nat
  BY <1>1, <1>2, RetentionAssumption DEF Contacts, Times, Points, Columns, Never
<1>4. /\ point.value = "kept" => retired = Never /\ Expiring(point)
      /\ point.value = "erased" => retired = point.expires /\ retired # Never
      /\ point.value \in {"none", "kept", "erased"}
  BY <1>2 DEF ContactInv, Lawful, Points, Columns
<1>5. CASE point.value = "none" /\ point' = Stored(Created(c)) /\ retired' = Never
  <2>1. Created(c) \in Drafts /\ Created(c).value = "fresh" /\ Created(c).days = c.days
    BY <1>1, CreatedType DEF Created
  <2>2. Expiring(Created(c))
    <3>1. Anchor(Created(c)) = c.observed
      <4>1. Anchor(Created(c)) =
              IF Created(c).verified = Never /\ Created(c).used = Never
              THEN Created(c).observed
              ELSE IF Created(c).verified >= Created(c).used THEN Created(c).verified
                                                             ELSE Created(c).used
        BY <2>1, AnchorType
      <4> QED
        BY <1>3, <4>1 DEF Created, Never
    <3> QED
      BY <1>3, <3>1 DEF Expiring, Created, Never
  <2>3. point'.value = "kept" /\ point'.days = c.days /\ Expiring(point')
    BY <1>5, <2>1, <2>2, StoredRow
  <2> QED
    BY <1>3, <1>5, <2>3 DEF c
<1>6. CASE /\ point.value # "none" /\ retired' = point.expires
           /\ point' \in Points /\ point'.value = "erased" /\ point'.expires = point.expires
  <2>1. point.expires # Never
    BY <1>4, <1>6 DEF Expiring
  <2> QED
    BY <1>3, <1>6, <2>1
<1>7. ASSUME NEW p \in Points, point.value # "none", retired' = Never,
             c.verified, c.observed > point.expires,
             p.days = point.days, point' = Stored(Revived(c, p))
      PROVE  /\ point'.value = "kept" /\ Expiring(point')
             /\ point'.verified > point.verified \/ point.value # "kept"
             /\ point.value = "erased" => point'.verified > retired
             /\ point'.days <= c.days /\ point'.days <= point.days
  <2> DEFINE r == Revived(c, p)
  <2>1. r \in Drafts /\ r.days <= point.days /\ r.days <= c.days
    BY <1>1, <1>7, RevivedType
  <2>2. /\ r.value = "fresh" /\ r.verified = c.observed /\ r.used = Never
        /\ r.observed = c.observed /\ r.expires = c.observed + r.days
    BY DEF Revived
  <2> HIDE DEF r
  <2>3. r.days \in Nat
    BY <2>1, RetentionAssumption DEF Drafts, Columns
  <2>4. Anchor(r) = c.observed
    BY <1>3, <2>1, <2>2, AnchorType DEF Never
  <2>5. Expiring(r)
    BY <1>3, <2>2, <2>3, <2>4 DEF Expiring, Never
  <2>6. /\ point'.value = "kept" /\ Expiring(point') /\ point'.verified = c.observed
        /\ point'.days = r.days
    BY <1>7, <2>1, <2>2, <2>5, StoredRow DEF r
  <2>7. point.value = "kept" => point.verified <= point.expires
    <3>1. /\ Anchor(point) = IF point.verified = Never /\ point.used = Never
                             THEN point.observed
                             ELSE IF point.verified >= point.used THEN point.verified
                                                                  ELSE point.used
          /\ point.used \in Nat
      BY <1>2, AnchorType, PointsAreDrafts, RetentionAssumption DEF Points, Columns
    <3> QED
      BY <1>3, <1>4, <3>1 DEF Expiring, Never
  <2> QED
    BY <1>3, <1>4, <1>7, <2>1, <2>6, <2>7
<1>8. ASSUME point.value = "kept", NEW r \in Drafts, r.value \in {"fresh", "kept"},
             Expiring(r) /\ (r.expires > point.expires => r.verified > point.verified),
             r.days <= point.days, r.days <= c.days, point' = Stored(r)
      PROVE  /\ point'.value = "kept" /\ Expiring(point')
             /\ point'.expires > point.expires => point'.verified > point.verified
             /\ point'.days <= c.days /\ point'.days <= point.days
  BY <1>8, StoredRow
<1>9. CASE point.value = "kept" /\ retired' = Never /\ point' = Stored(Refreshed(c, point))
  <2> DEFINE r == Refreshed(c, point)
  <2>1. /\ r \in Drafts /\ r.value = "fresh" /\ r.observed = c.observed
        /\ r.used = point.used /\ r.days <= point.days /\ r.days <= c.days
        /\ r.verified >= point.verified
        /\ r.expires = IF r.verified # point.verified THEN Anchor(r) + r.days
                       ELSE Min({point.expires, Anchor(r) + r.days})
    BY <1>1, <1>2, RefreshedType
  <2> HIDE DEF r
  <2>2. Expiring(r) /\ (r.expires > point.expires => r.verified > point.verified)
    BY <1>2, <1>3, <1>4, <1>9, <2>1, ExpiringAgain
  <2>3. point' = Stored(r)
    BY <1>9 DEF r
  <2> QED
    BY <1>8, <1>9, <2>1, <2>2, <2>3 DEF c
<1>10. CASE point.value = "kept" /\ retired' = Never /\ point' = Stored(Shortened(c, point))
  <2> DEFINE r == Shortened(c, point)
  <2>1. /\ r \in Points /\ r.days <= point.days /\ r.days <= c.days
        /\ r = [point EXCEPT !.days = r.days, !.expires = r.expires]
        /\ r = point \/ r.expires = Min({point.expires, Anchor(r) + r.days})
    BY <1>1, <1>2, ShortenedType
  <2> HIDE DEF r
  <2>2. /\ r.value = "kept" /\ r.used = point.used /\ r.observed = point.observed
        /\ r.verified = point.verified
    BY <1>2, <1>10, <2>1 DEF Points, Columns
  <2>3. r \in Drafts /\ point' = Stored(r)
    BY <1>10, <2>1, PointsAreDrafts DEF r
  <2>4. CASE r = point
    BY <1>3, <1>4, <1>8, <1>10, <2>1, <2>2, <2>3, <2>4 DEF c
  <2>5. CASE r # point
    <3>1. Expiring(r) /\ (r.expires > point.expires => r.verified > point.verified)
      BY <1>2, <1>3, <1>4, <1>10, <2>1, <2>2, <2>3, <2>5, ExpiringAgain DEF Expiring
    <3> QED
      BY <1>8, <1>10, <2>1, <2>2, <2>3, <3>1 DEF c
  <2> QED
    BY <2>4, <2>5
<1> QED
  BY <1>1, <1>5, <1>6, <1>7, <1>9, <1>10 DEF StoreMakes, c

LEMMA RevealedRow ==
  ASSUME ContactWork, FinishReveal
  PROVE  revealing.point \in Points /\ revealing.point.value # "none"
<1>1. revealing # NotOpen
  BY DEF FinishReveal, NotOpen
<1>2. /\ revealing \in [open : {TRUE}, point : Points]
      /\ revealing.point.value # "none"
  BY <1>1 DEF ContactWork
<1> QED
  BY <1>2

\* A reveal uses the value or erases it when it is due.
LEMMA RevealType ==
  ASSUME ContactWork, FinishReveal
  PROVE  point' \in Points /\ retired' \in 0..(MaxTime + MaxDays)
<1>1. /\ revealing.point \in Points /\ point \in Points /\ now \in Times
      /\ retired \in 0..(MaxTime + MaxDays)
  BY RevealedRow DEF ContactWork, ContactTypeOK
<1> DEFINE read == revealing.point
           used == [read EXCEPT !.used = now]
           new == IF IsDue(read) THEN WithoutValue(read, now)
                  ELSE IF read.value = "erased" THEN read
                  ELSE [used EXCEPT !.expires = Anchor(used) + used.days]
<1>2. /\ point' = Written(read, new) \/ point' = point
      /\ retired' = read.expires \/ retired' = retired
  BY DEF FinishReveal
<1>3. read.expires \in 0..(MaxTime + MaxDays)
  BY <1>1 DEF Points, Columns
<1>4. used.days = read.days
  BY <1>1 DEF Points, Columns
<1>5. [used EXCEPT !.expires = Anchor(used) + used.days] = UsedNow(read)
  BY <1>4 DEF UsedNow
<1> HIDE DEF read, used
<1>6. read \in Points
  BY <1>1 DEF read
<1>7. new \in Drafts
  BY <1>1, <1>5, <1>6, ErasedType, ExpiringUsed, PointsAreDrafts
<1> HIDE DEF new
<1> QED
  BY <1>1, <1>2, <1>3, <1>6, <1>7, WrittenType DEF read

LEMMA RevealKeeps ==
  ASSUME ContactInv, FinishReveal
  PROVE  /\ Lawful'
         /\ ~ overtaken' =>
              /\ point.value = "kept" /\ point'.expires > point.expires
                   => point'.used > point.used
              /\ point.value = "erased" => point'.value = "erased"
<1>1. /\ revealing.point \in Points /\ point \in Points /\ now \in Times
      /\ revealing.point.value # "none" /\ now' = now
  BY RevealedRow DEF ContactInv, ContactWork, ContactTypeOK, FinishReveal
<1>2. CASE UNCHANGED <<point, retired, overtaken>>
  <2>1. point'.expires = point.expires /\ point.expires \in Nat
    BY <1>1, <1>2, RetentionAssumption DEF Points, Columns
  <2> QED
    BY <1>1, <1>2, <2>1 DEF ContactInv, Lawful, Expiring
<1>3. CASE ~ UNCHANGED <<point, retired, overtaken>>
  <2> SUFFICES
        ASSUME ~ overtaken'
        PROVE  /\ point'.value = "none" => retired' = Never
               /\ point'.value = "kept" => retired' = Never /\ Expiring(point')
               /\ point'.value = "erased" => retired' = point'.expires /\ retired' # Never
               /\ point.value = "kept" /\ point'.expires > point.expires
                    => point'.used > point.used
               /\ point.value = "erased" => point'.value = "erased"
    BY <1>1 DEF Lawful, Expiring
  <2> DEFINE used == [point EXCEPT !.used = now]
             new == IF IsDue(point) THEN WithoutValue(point, now)
                    ELSE IF point.value = "erased" THEN point
                    ELSE [used EXCEPT !.expires = Anchor(used) + used.days]
  <2>1. /\ revealing.point = point /\ ~ overtaken /\ point' = Written(point, new)
        /\ retired' = IF IsDue(point) THEN point.expires ELSE retired
    BY <1>3 DEF FinishReveal
  <2>2. point.value \in {"kept", "erased"}
    BY <1>1, <2>1 DEF Points, Columns
  <2>3. /\ point.value = "kept" => retired = Never /\ Expiring(point)
        /\ point.value = "erased" => retired = point.expires /\ retired # Never
        /\ point.expires # Never /\ point.expires \in Nat
    BY <1>1, <2>1, <2>2, RetentionAssumption
    DEF ContactInv, Lawful, Expiring, Points, Columns
  <2>4. [used EXCEPT !.expires = Anchor(used) + used.days] = UsedNow(point)
    BY <1>1 DEF UsedNow, Points, Columns
  <2> HIDE DEF used
  <2>5. CASE IsDue(point)
    <3>1. new = WithoutValue(point, now)
      BY <2>5
    <3>2. /\ new \in Points /\ new \in Drafts
          /\ new.value = "erased" /\ new.expires = point.expires
      BY <1>1, <3>1, ErasedType, PointsAreDrafts
    <3> HIDE DEF new
    <3>3. point' = Stored(new)
      BY <1>1, <2>1, <3>2, WrittenOver
    <3>4. point'.value = "erased" /\ point'.expires = point.expires
      BY <3>2, <3>3, StoredRow
    <3> QED
      BY <2>1, <2>3, <2>5, <3>4
  <2>6. CASE ~ IsDue(point) /\ point.value = "erased"
    <3>1. new = point
      BY <2>6
    <3>2. new \in Drafts
      BY <1>1, <3>1, PointsAreDrafts
    <3> HIDE DEF new
    <3>3. point' = Stored(new)
      BY <1>1, <2>1, <3>2, WrittenOver
    <3>4. point'.value = "erased" /\ point'.expires = point.expires
      BY <2>6, <3>1, <3>2, <3>3, StoredRow
    <3> QED
      BY <2>1, <2>3, <2>6, <3>4
  <2>7. CASE ~ IsDue(point) /\ point.value = "kept"
    <3>1. new = UsedNow(point)
      BY <2>4, <2>7
    <3>2. /\ new \in Points /\ new \in Drafts /\ new.value = "kept" /\ new.used = now
          /\ Expiring(new) /\ (new.expires > point.expires => now > point.used)
      BY <1>1, <2>3, <2>7, <3>1, ExpiringUsed, PointsAreDrafts
    <3> HIDE DEF new
    <3>3. point' = Stored(new)
      BY <1>1, <2>1, <3>2, WrittenOver
    <3>4. /\ point'.value = "kept" /\ point'.used = now /\ point'.expires = new.expires
          /\ Expiring(point')
      BY <3>2, <3>3, StoredRow
    <3> QED
      BY <2>1, <2>3, <2>7, <3>2, <3>4
  <2> QED
    BY <2>2, <2>5, <2>6, <2>7
<1> QED
  BY <1>2, <1>3

\* The day that maintenance computes from the columns is the one in the row.
LEMMA Effective ==
  ASSUME point \in Points, Expiring(point)
  PROVE  EffectiveExpiry = point.expires
<1>1. /\ point.expires \in Nat /\ point.days \in Nat /\ point \in Drafts
      /\ point.observed \in Nat
  BY PointsAreDrafts, RetentionAssumption DEF Points, Columns
<1>2. Anchor(point) \in 0..MaxTime
      /\ (point.verified = Never /\ point.used = Never => Anchor(point) = point.observed)
  BY <1>1, AnchorType
<1>3. Anchor(point) + point.days \in Nat
  BY <1>1, <1>2, RetentionAssumption
<1>4. point.expires <= Anchor(point) + point.days
  BY <1>1, <1>2, <1>3 DEF Expiring
<1> QED
  BY <1>1, <1>3, <1>4, Sooner DEF EffectiveExpiry

LEMMA EraseKeeps ==
  ASSUME ContactInv, EraseDueContacts
  PROVE  /\ Lawful' /\ point' \in Points /\ retired' \in 0..(MaxTime + MaxDays)
         /\ point'.value = "erased" /\ point'.expires = point.expires
<1>1. /\ point \in Points /\ now \in Times /\ retired \in 0..(MaxTime + MaxDays)
  BY DEF ContactInv, ContactWork, ContactTypeOK
<1>2. /\ point' \in Points /\ point'.value = "erased" /\ point'.expires = point.expires
  BY <1>1, ErasedType DEF EraseDueContacts
<1>3. EffectiveExpiry \in 0..(MaxTime + MaxDays)
  <2>1. point.expires \in 0..(MaxTime + MaxDays) /\ point.days \in Nat /\ point \in Drafts
    BY <1>1, PointsAreDrafts, RetentionAssumption DEF Points, Columns
  <2>2. Anchor(point) \in 0..MaxTime
    BY <2>1, AnchorType
  <2>3. Anchor(point) + point.days \in Nat /\ point.expires \in Nat
    BY <2>1, <2>2, RetentionAssumption
  <2>4. EffectiveExpiry = IF point.expires <= Anchor(point) + point.days
                          THEN point.expires ELSE Anchor(point) + point.days
    BY <2>3, Sooner DEF EffectiveExpiry
  <2>5. MaxTime + MaxDays \in Nat
    BY RetentionAssumption
  <2> QED
    BY <2>1, <2>3, <2>4, <2>5
<1>4. retired' = IF point.value = "kept" THEN EffectiveExpiry ELSE retired
  BY DEF EraseDueContacts, Tombstone
<1>5. ASSUME ~ overtaken PROVE retired' = point.expires /\ retired' # Never
  <2>1. point.value \in {"kept", "erased"}
    BY <1>1 DEF EraseDueContacts, Points, Columns
  <2>2. CASE point.value = "kept"
    BY <1>1, <1>4, <1>5, <2>2, Effective DEF ContactInv, Lawful, Expiring
  <2>3. CASE point.value = "erased"
    BY <1>4, <1>5, <2>3 DEF ContactInv, Lawful
  <2> QED
    BY <2>1, <2>2, <2>3
<1>6. overtaken' = overtaken
  BY DEF EraseDueContacts
<1> QED
  BY <1>1, <1>2, <1>3, <1>4, <1>5, <1>6 DEF Lawful

LEMMA ContactWorkKeeps ==
  ASSUME ContactInv, [ContactNext]_contactVars
  PROVE  ContactWork'
<1> USE DEF ContactInv, ContactWork, ContactTypeOK
<1>1. ASSUME NEW c \in Contacts, BeginStore(c) PROVE ContactWork'
  <2>1. storing' = [open |-> TRUE, contact |-> c, point |-> point, retired |-> retired,
                    at |-> now]
        /\ UNCHANGED <<now, point, retired, revealing, overtaken>>
    BY <1>1 DEF BeginStore
  <2>2. storing' \in Stores
    BY <1>1, <2>1 DEF Stores
  <2>3. storing'.open \in BOOLEAN
    BY <2>2 DEF Stores
  <2> QED
    BY <2>1, <2>2, <2>3
<1>2. CASE FinishStore
  <2>1. point' \in Points /\ retired' \in 0..(MaxTime + MaxDays)
    BY <1>2, StoreType
  <2>2. storing' = NotOpen /\ UNCHANGED <<now, revealing>> /\ overtaken' \in BOOLEAN
    BY <1>2 DEF FinishStore, Overtakes
  <2> QED
    BY <2>1, <2>2 DEF NotOpen
<1>3. CASE BeginReveal
  <2>1. /\ revealing' = [open |-> TRUE, point |-> point] /\ point.value # "none"
        /\ UNCHANGED <<now, point, retired, storing, overtaken>>
    BY <1>3 DEF BeginReveal
  <2>2. /\ revealing' \in [open : {TRUE}, point : Points] /\ revealing'.open = TRUE
        /\ revealing'.point = point
    BY <2>1
  <2> QED
    BY <2>1, <2>2
<1>4. CASE FinishReveal
  <2>1. point' \in Points /\ retired' \in 0..(MaxTime + MaxDays)
    BY <1>4, RevealType
  <2>2. revealing' = NotOpen /\ UNCHANGED <<now, storing>> /\ overtaken' \in BOOLEAN
    BY <1>4 DEF FinishReveal
  <2> QED
    BY <2>1, <2>2 DEF NotOpen
<1>5. CASE EraseDueContacts
  <2>1. point' \in Points /\ retired' \in 0..(MaxTime + MaxDays)
    BY <1>5, EraseKeeps
  <2> QED
    BY <1>5, <2>1 DEF EraseDueContacts
<1>6. CASE DayPasses
  <2>1. now' \in Times
    BY <1>6, RetentionAssumption DEF DayPasses, Times
  <2> QED
    BY <1>6, <2>1 DEF DayPasses
<1>7. CASE UNCHANGED contactVars
  BY <1>7 DEF contactVars
<1> QED
  BY <1>1, <1>2, <1>3, <1>4, <1>5, <1>6, <1>7 DEF ContactNext

LEMMA LawfulKeeps ==
  ASSUME ContactInv, [ContactNext]_contactVars
  PROVE  Lawful'
<1>1. ASSUME UNCHANGED <<now, point, retired, overtaken>> PROVE Lawful'
  BY <1>1 DEF ContactInv, Lawful, Expiring
<1>2. CASE DayPasses
  <2>1. now \in Nat /\ point \in Points
    BY RetentionAssumption DEF ContactInv, ContactWork, ContactTypeOK, Times
  <2>2. point.used \in Nat
    BY <2>1, RetentionAssumption DEF Points, Columns
  <2>3. Expiring(point) => Expiring(point)'
    BY <1>2, <2>1, <2>2 DEF DayPasses, Expiring, Anchor
  <2>4. UNCHANGED <<point, retired, overtaken>>
    BY <1>2 DEF DayPasses
  <2> QED
    BY <2>3, <2>4 DEF ContactInv, Lawful
<1>3. CASE FinishStore \/ FinishReveal \/ EraseDueContacts
  BY <1>3, StoreKeeps, RevealKeeps, EraseKeeps
<1>4. CASE BeginReveal \/ UNCHANGED contactVars \/ \E c \in Contacts : BeginStore(c)
  BY <1>1, <1>4 DEF BeginReveal, BeginStore, contactVars
<1> QED
  BY <1>2, <1>3, <1>4 DEF ContactNext

LEMMA ContactInvariant == ContactSpec => []ContactInv
<1>1. ContactInit => ContactInv
  <2> SUFFICES ASSUME ContactInit PROVE ContactInv
    OBVIOUS
  <2>1. 0 \in 0..MaxTime /\ 0 \in 0..MaxDays /\ 0 \in 0..(MaxTime + MaxDays)
        /\ 1 \in 1..MaxTime
    BY RetentionAssumption
  <2>2. point \in Points /\ point.value = "none"
    BY <2>1 DEF ContactInit, NoPoint, Points, Columns, Never
  <2> QED
    BY <2>1, <2>2
    DEF ContactInit, ContactInv, ContactWork, ContactTypeOK, Lawful, NotOpen, Never, Times
<1>2. ContactInv /\ [ContactNext]_contactVars => ContactInv'
  BY ContactWorkKeeps, LawfulKeeps DEF ContactInv
<1> QED
  BY <1>1, <1>2, PTL DEF ContactSpec

\* What any step does to a value.
LEMMA ContactSteps ==
  ASSUME ContactInv, [ContactNext]_contactVars, ~ overtaken'
  PROVE  /\ point.value = "kept" /\ point'.expires > point.expires
              => point'.used > point.used \/ point'.verified > point.verified
         /\ point.value = "erased" /\ point'.value = "kept" => point'.verified > retired
         /\ storing.open /\ ~ storing'.open /\ point'.value = "kept"
              => /\ point'.days <= storing.contact.days
                 /\ point.value # "none" => point'.days <= point.days
<1>1. point.expires \in Nat
  BY RetentionAssumption DEF ContactInv, ContactWork, ContactTypeOK, Points, Columns
<1>2. CASE FinishStore
  BY <1>2, StoreKeeps
<1>3. CASE FinishReveal
  <2>1. UNCHANGED storing
    BY <1>3 DEF FinishReveal
  <2> QED
    BY <1>3, <2>1, RevealKeeps
<1>4. CASE EraseDueContacts
  <2>1. UNCHANGED storing
    BY <1>4 DEF EraseDueContacts
  <2> QED
    BY <1>1, <1>4, <2>1, EraseKeeps
<1>5. CASE BeginReveal \/ DayPasses \/ UNCHANGED contactVars
  BY <1>1, <1>5 DEF BeginReveal, DayPasses, contactVars
<1>6. ASSUME NEW c \in Contacts, BeginStore(c) PROVE ~ storing.open /\ UNCHANGED point
  BY <1>6 DEF BeginStore
<1> QED
  BY <1>1, <1>2, <1>3, <1>4, <1>5, <1>6 DEF ContactNext

\* A contact lives as long as its shortest policy, its verification and its uses
\* allow, and what was erased comes back only by a newer verification, for any
\* number of days and any policies, whatever a store, a reveal and the daily
\* erasure read before the others wrote (ContactService and
\* maintenance_erase_due_contacts).
THEOREM RetentionIsKept == ContactSpec => RetentionHolds
<1>1. ContactInv => ErasedIsRetired /\ ExpiriesAgree
  <2> SUFFICES ASSUME ContactInv, ~ overtaken PROVE ErasedIsRetired /\ ExpiriesAgree
    BY DEF ErasedIsRetired, ExpiriesAgree
  <2>1. point \in Points /\ point.value \in {"none", "kept", "erased"}
    BY DEF ContactInv, ContactWork, ContactTypeOK, Points, Columns
  <2>2. ErasedIsRetired
    BY <2>1 DEF ContactInv, Lawful, ErasedIsRetired
  <2>3. ExpiriesAgree
    BY <2>1, Effective DEF ContactInv, Lawful, ExpiriesAgree
  <2> QED
    BY <2>2, <2>3
<1>2. ContactInv /\ [ContactNext]_contactVars =>
        [~ overtaken' /\ point.value = "kept" /\ point'.expires > point.expires
           => point'.used > point.used \/ point'.verified > point.verified]_contactVars
  BY ContactSteps
<1>3. ContactInv /\ [ContactNext]_contactVars =>
        [~ overtaken' /\ point.value = "erased" /\ point'.value = "kept"
           => point'.verified > retired]_contactVars
  BY ContactSteps
<1>4. ContactInv /\ [ContactNext]_contactVars =>
        [storing.open /\ ~ storing'.open /\ ~ overtaken' /\ point'.value = "kept"
           => /\ point'.days <= storing.contact.days
              /\ point.value # "none" => point'.days <= point.days]_contactVars
  BY ContactSteps
<1> QED
  BY <1>1, <1>2, <1>3, <1>4, ContactInvariant, PTL
  DEF ContactSpec, RetentionHolds, UnverifiedNeverExtends, RetiredNeedsVerification,
      ShorterPolicyWins

-----------------------------------------------------------------------------
(* The lanes of MCPeople                                                    *)

\* The states they begin in satisfy the invariant.
LEMMA LanesBegin == Init => DeletionInv
<1> SUFFICES ASSUME Init PROVE DeletionInv
  OBVIOUS
<1>1. (PeopleInit \/ Populated) /\ PrivacyInitBesidesAsk
  BY DEF Init
<1>2. ASSUME NEW asking, Approved(asking) \/ ask = [p \in Asks |-> NoRequestRow]
      PROVE  DeletionInv
  <2>1. identity \in [Keys -> [row : Rows \cup {NoRow}, url : {NoUrl}]]
    <3>1. CASE PeopleInit
      BY <3>1 DEF PeopleInit
    <3>2. CASE Populated
      <4>1. PICK key \in [Rows -> Keys] :
              identity = [k \in Keys |->
                [row |-> IF \E r \in Rows : key[r] = k
                         THEN CHOOSE r \in Rows : key[r] = k ELSE NoRow,
                 url |-> NoUrl]]
        BY <3>2 DEF Populated
      <4>2. \A k \in Keys : (IF \E r \in Rows : key[r] = k
                             THEN CHOOSE r \in Rows : key[r] = k ELSE NoRow) \in Rows \cup {NoRow}
        OBVIOUS
      <4> QED
        BY <4>1, <4>2
    <3> QED
      BY <1>1, <3>1, <3>2
  <2>2. /\ suppressed = {} /\ lost = {} /\ emails = [r \in Rows |-> {}]
        /\ card = [r \in Rows |-> "none"] /\ asked = [q \in Requests |-> {}]
        /\ object = [q \in Requests |-> {}] /\ reference = [q \in Requests |-> NoReference]
        /\ work = [w \in Workers |-> Idle]
        /\ \/ PeopleInit
           \/ row = [r \in Rows |-> "person"] /\ evidence = [r \in Rows |-> "personal"]
    BY <1>1 DEF PeopleInit, Populated
  <2>3. /\ ask \in [Asks -> [row : Rows \cup {NoRow}, kind : {"none", "deletion"},
                             state : {"none", "approved"}, digests : {{}}]]
        /\ \A p \in Asks : ask[p].state = "approved" => ask[p].row \in Rows
    <3>1. CASE Approved(asking)
      <4>1. PICK of \in [asking -> Rows] :
              ask = [p \in Asks |-> IF p \in asking
                                    THEN [NoRequestRow EXCEPT !.row = of[p], !.kind = "deletion",
                                                              !.state = "approved"]
                                    ELSE NoRequestRow]
        BY <3>1 DEF Approved
      <4> QED
        BY <4>1 DEF NoRequestRow
    <3>2. CASE ask = [p \in Asks |-> NoRequestRow]
      BY <3>2 DEF NoRequestRow
    <3> QED
      BY <1>2, <3>1, <3>2
  <2>4. TypeOK
    BY <1>1, <2>1, <2>2, <2>3, DeletionAssumption
    DEF PeopleInit, PrivacyInitBesidesAsk, TypeOK, Works, Evidence, NoReference, NoCall,
        NoTargets, IdleCleaner, Kinds, Closed
  <2>5. PeopleInv
    BY <2>1, <2>2
    DEF PeopleInit, PeopleInv, LocksApart, HoldsGate, ListedKeysAreGone,
        OnlyPersonsHaveData, OneRowPerProfile, IngestionsHold, Idle
  <2>6. SnapshotInv
    BY <2>2 DEF SnapshotInv, ReadsHold, PayloadsHold, ObjectsOfRequests, ObjectsAreKnown, Idle
  <2>7. RequestInv
    BY <1>1, <2>3
    DEF PrivacyInitBesidesAsk, RequestInv, AsksHold, CallsHold, CollectionsHold,
        TargetsHold, CleanersHold, NoCall, IdleCleaner, Executed
  <2> QED
    BY <2>4, <2>5, <2>6, <2>7 DEF DeletionInv
<1>3. CASE lane = "payloads"
  BY <1>2, <1>3 DEF Init
<1>4. CASE lane = "snapshots"
  BY <1>2, <1>4 DEF Init
<1>5. CASE lane \notin {"payloads", "snapshots"}
  <2>1. ask = [p \in Asks |-> NoRequestRow]
    BY <1>5 DEF Init
  <2> QED
    BY <1>2, <2>1
<1> QED
  BY <1>3, <1>4, <1>5

\* They move as the deletions and the contact do, and so keep both invariants.
LEMMA LanesKeep ==
  Spec => []DeletionInv /\ [][DeletionNext]_deletionVars /\ ContactSpec
<1>1. Init => DeletionInv /\ ContactInit
  BY LanesBegin DEF Init
<1>2. [Next]_mcVars => [DeletionNext]_deletionVars /\ [ContactNext]_contactVars
  BY DEF Next, mcVars
<1>3. DeletionInv /\ [DeletionNext]_deletionVars => DeletionInv'
  BY DeletionInvKept
<1> QED
  BY <1>1, <1>2, <1>3, PTL DEF Spec, ContactSpec

\* The rows about people and the contact point keep their types, from every
\* state a lane begins in.
THEOREM PeopleTypeCorrect == Spec => []PeopleTypeOK
<1>1. DeletionInv /\ ContactInv => PeopleTypeOK
  BY DEF DeletionInv, ContactInv, ContactWork, PeopleTypeOK
<1> QED
  BY <1>1, LanesKeep, ContactInvariant, PTL

\* From every state a lane begins in, candidates that were found, scored and asked
\* about before included: a profile has one row, who is listed stays out, an erasure
\* is complete, a renewed snapshot stays, and the retention of a contact is kept.
THEOREM PeopleStaySafe ==
  Spec => /\ []OneRowPerProfile
          /\ SuppressedStayOut
          /\ ErasureIsComplete
          /\ RenewedSnapshotsStay
          /\ RetentionHolds
<1>1. DeletionInv => OneRowPerProfile
  BY DEF DeletionInv, PeopleInv
<1> QED
  BY <1>1, LanesKeep, StaysOut, ErasesAll, RenewedAreKept, RetentionIsKept, PTL
=============================================================================
