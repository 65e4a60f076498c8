------------------------------- MODULE People -------------------------------
(***************************************************************************)
(* Candidates: how people enter the system, and the data that is kept about *)
(* them.  CandidateService.ingest behind the suppression gate, the scores   *)
(* of a run and the cards of the CRM, and the enrichment payloads with the  *)
(* snapshots they leave in the object store.                                *)
(*                                                                         *)
(* A digest stands for the HMAC of one identifier: a provider's person id   *)
(* (Keys), a profile URL or an e-mail address.  The one provider of the     *)
(* repository is Apollo, so two candidates never lack a provider conflict   *)
(* and a shared e-mail address never merges them: it only suggests.         *)
(***************************************************************************)
EXTENDS Naturals, FiniteSets

CONSTANTS
  Rows,      \* candidate rows of one agency
  Keys,      \* person ids of the provider
  Urls,      \* normalized profile URLs
  Emails,    \* normalized e-mail addresses
  Requests,  \* enrichment requests
  Workers,   \* what executes tasks and webhooks
  MaxLost,   \* bound: payloads whose transaction is rolled back
  NoRow,     \* no candidate
  NoUrl      \* no profile URL

\* The HMAC covers the kind of an identifier with its value.
ASSUME PeopleAssumption ==
  /\ MaxLost \in Nat
  /\ NoRow \notin Rows
  /\ NoUrl \notin Keys \cup Urls \cup Emails
  /\ Keys \cap Urls = {} /\ Keys \cap Emails = {} /\ Urls \cap Emails = {}

VARIABLES
  identity,   \* key -> the candidate and the URL of its SourceIdentity
  row,        \* row -> "free", or what its profile shows
  emails,     \* row -> e-mail addresses among its contact points
  suppressed, \* digests of suppression_identifiers
  evidence,   \* row -> what its RunCandidate keeps of the match
  card,       \* row -> what its JobCandidate keeps of the match
  asked,      \* request -> its candidate_ids
  object,     \* request -> keys whose data some version of its snapshot holds
  reference,  \* request -> its ProviderSnapshot row
  work,       \* worker -> its open transaction
  lost        \* history: requests with an object that no ProviderSnapshot named once

peopleVars == <<identity, row, emails, suppressed, evidence, card, asked, object,
                reference, work, lost>>

Digests == Keys \cup Urls \cup Emails
Idle == [at |-> "idle"]
NoReference == [at |-> "none", claimed |-> FALSE]
Evidence == {"none", "unscored", "personal", "blank"}

\* The transactions a worker may have open.
Works ==
  {Idle}
  \cup [at : {"ingest"}, locks : SUBSET Digests, row : Rows \cup {NoRow}, identity : Keys,
        url : Urls \cup {NoUrl}]
  \cup [at : {"materialize"}, read : [Rows -> Evidence \ {"unscored"}]]
  \cup [at : {"read"}, request : Requests, rowOf : [Keys -> Rows \cup {NoRow}]]
  \cup [at : {"apply"}, request : Requests, locks : SUBSET Digests,
        found : [Rows -> SUBSET Emails]]

KeysOf(r) == {k \in Keys : identity[k].row = r}

\* identifiers_for_candidate: the digests that suppress a candidate.  A candidate
\* has one identity, whose profile URL its row repeats.
DigestsOf(r) ==
  (KeysOf(r) \cup {identity[k].url : k \in KeysOf(r)} \cup emails[r]) \ {NoUrl}

-----------------------------------------------------------------------------
(* The gate: whoever looks a person up holds the tenant gate shared and the *)
(* locks of the person's digests to the end of the transaction.             *)

PersonDigests(k, u) == {k, u} \ {NoUrl}

\* A slip: only the provider id is locked.
KeyOnly(k, u) == {k}

LockedDigests(k, u) == PersonDigests(k, u)

HoldsGate(w) == work[w].at \in {"ingest", "apply"}

CanLock(ds) == \A w \in Workers : HoldsGate(w) => work[w].locks \cap ds = {}

\* A slip: the suppression list is not asked.
NeverSuppressed(ds) == FALSE

Suppressed(ds) == ds \cap suppressed # {}

-----------------------------------------------------------------------------
(* Ingestion of one person of a page.                                       *)

ByUrl(u) == {identity[k].row : k \in {j \in Keys : u # NoUrl /\ identity[j].url = u}}

\* The provider's id comes first, then the profile URL; NoRow asks for a new row.
Resolve(k, u) ==
  IF identity[k].row # NoRow \/ ByUrl(u) = {} THEN identity[k].row
  ELSE CHOOSE r \in ByUrl(u) : TRUE

\* A slip: a URL that belongs to somebody else is taken over.
TakesUrl(k, u) == u

\* The id wins over the URL, which is then not accepted.
AcceptedUrl(k, u) == IF ByUrl(u) \subseteq {Resolve(k, u)} THEN u ELSE NoUrl

\* The identity of the id, else the one that has the URL, else a new one.
SourceIdentity(k, u) ==
  IF identity[k].row # NoRow \/ ByUrl(u) = {} THEN k
  ELSE CHOOSE j \in Keys : identity[j].row # NoRow /\ identity[j].url = u

FreeRows == {r \in Rows : row[r] = "free"}
Creating == {w \in Workers : work[w].at = "ingest" /\ work[w].row = NoRow}

\* A suppressed person is left out.
BeginIngest(w, k, u) ==
  /\ work[w].at = "idle"
  /\ CanLock(LockedDigests(k, u))
  /\ ~Suppressed(PersonDigests(k, u))
  /\ Resolve(k, u) = NoRow => Cardinality(Creating) < Cardinality(FreeRows)
  /\ work' = [work EXCEPT ![w] = [at |-> "ingest", locks |-> LockedDigests(k, u),
                                  row |-> Resolve(k, u), identity |-> SourceIdentity(k, u),
                                  url |-> AcceptedUrl(k, u)]]
  /\ UNCHANGED <<identity, row, emails, suppressed, evidence, card, asked, object,
                 reference, lost>>

\* An identity takes over the URL of the page, unless it was seen again since.
UrlsAfter(w) ==
  IF work[w].row = NoRow THEN {work[w].url}
  ELSE {identity[work[w].identity].url} \cup ({work[w].url} \ {NoUrl})

\* The person's facts are observed, and the row joins the run.
FinishIngest(w) ==
  /\ work[w].at = "ingest"
  /\ \E r \in IF work[w].row = NoRow THEN FreeRows ELSE {work[w].row} :
       /\ \E url \in UrlsAfter(w) :
            identity' = [identity EXCEPT ![work[w].identity] = [row |-> r, url |-> url]]
       /\ row' = [row EXCEPT ![r] = "person"]
       /\ evidence' = [evidence EXCEPT ![r] = IF @ = "none" THEN "unscored" ELSE @]
  /\ work' = [work EXCEPT ![w] = Idle]
  /\ UNCHANGED <<emails, suppressed, card, asked, object, reference, lost>>

-----------------------------------------------------------------------------
(* Scores and cards.                                                        *)

Scored(r) == evidence[r] \in {"personal", "blank"}

\* A slip: the row's own state is written.
RowState(r) == row[r]

\* What the engine writes about the profile it reads.
Shown(r) == IF row[r] = "person" THEN "personal" ELSE "blank"

\* One batch locks the rows it scores; a redacted row is scored again, as blank.
ScoreRow(r) ==
  /\ evidence[r] = "unscored"
  /\ evidence' = [evidence EXCEPT ![r] = Shown(r)]
  /\ UNCHANGED <<identity, row, emails, suppressed, card, asked, object, reference,
                 work, lost>>

\* materialize_run_matches reads the scored rows without locking them.
ReadMatches(w) ==
  /\ work[w].at = "idle"
  /\ \E r \in Rows : Scored(r)
  /\ \A r \in Rows : evidence[r] # "unscored"
  /\ work' = [work EXCEPT ![w] = [at |-> "materialize", read |-> evidence]]
  /\ UNCHANGED <<identity, row, emails, suppressed, evidence, card, asked, object,
                 reference, lost>>

WriteCards(w) ==
  /\ work[w].at = "materialize"
  /\ card' = [r \in Rows |-> IF work[w].read[r] = "none" THEN card[r]
                             ELSE work[w].read[r]]
  /\ work' = [work EXCEPT ![w] = Idle]
  /\ UNCHANGED <<identity, row, emails, suppressed, evidence, asked, object, reference,
                 lost>>

-----------------------------------------------------------------------------
(* Enrichment payloads: apply_enrichment_payload as far as people go.       *)

AskEnrichment(q) ==
  /\ asked[q] = {}
  /\ \E rs \in (SUBSET {r \in Rows : KeysOf(r) # {} /\ Scored(r)}) \ {{}} :
       asked' = [asked EXCEPT ![q] = rs]
  /\ UNCHANGED <<identity, row, emails, suppressed, evidence, card, object, reference,
                 work, lost>>

\* The identities of the request are read before the gate; the request stays
\* locked to the end.
ReadIdentities(w, q) ==
  /\ work[w].at = "idle" /\ asked[q] # {}
  /\ \A v \in Workers : work[v].at \in {"read", "apply"} => work[v].request # q
  /\ work' = [work EXCEPT ![w] = [at |-> "read", request |-> q,
                                  rowOf |-> [k \in Keys |-> IF identity[k].row \in asked[q]
                                                            THEN identity[k].row ELSE NoRow]]]
  /\ UNCHANGED <<identity, row, emails, suppressed, evidence, card, asked, object,
                 reference, lost>>

\* A payload says which people were found, and with which address.  Those that
\* are not suppressed must have been read; their data goes to the object store
\* before the transaction commits, on top of the versions that are there.
PutSnapshot(w) ==
  LET q == work[w].request IN
  /\ work[w].at = "read"
  /\ \E people \in (SUBSET Keys) \ {{}} : \E mail \in [people -> {{}} \cup {{e} : e \in Emails}] :
       LET digests == people \cup UNION {mail[k] : k \in people}
           allowed == {k \in people : ~Suppressed({k} \cup mail[k])} IN
       /\ CanLock(digests)
       /\ \A k \in people : work[w].rowOf[k] = NoRow => Suppressed({k})
       /\ allowed # {}
       /\ object' = [object EXCEPT ![q] = @ \cup allowed]
       /\ work' = [work EXCEPT ![w] = [at |-> "apply", request |-> q, locks |-> digests,
                      found |-> [r \in Rows |-> UNION {mail[k] : k \in
                                   {j \in allowed : work[w].rowOf[j] = r}}]]]
  /\ UNCHANGED <<identity, row, emails, suppressed, evidence, card, asked, reference, lost>>

\* An invalid payload, or one of suppressed people only: nothing is kept.
DropPayload(w) ==
  /\ work[w].at = "read"
  /\ work' = [work EXCEPT ![w] = Idle]
  /\ UNCHANGED <<identity, row, emails, suppressed, evidence, card, asked, object,
                 reference, lost>>

CommitPayload(w) ==
  LET q == work[w].request IN
  /\ work[w].at = "apply"
  /\ reference' = [reference EXCEPT ![q].at = "kept"]
  /\ emails' = [r \in Rows |-> emails[r] \cup work[w].found[r]]
  /\ work' = [work EXCEPT ![w] = Idle]
  /\ UNCHANGED <<identity, row, suppressed, evidence, card, asked, object, lost>>

\* The transaction fails after the put: the object stays, unless a row names it.
LosePayload(w) ==
  LET q == work[w].request IN
  /\ work[w].at = "apply" /\ Cardinality(lost) < MaxLost
  /\ lost' = IF reference[q].at = "none" THEN lost \cup {q} ELSE lost
  /\ work' = [work EXCEPT ![w] = Idle]
  /\ UNCHANGED <<identity, row, emails, suppressed, evidence, card, asked, object,
                 reference>>

-----------------------------------------------------------------------------

PeopleInit ==
  /\ identity = [k \in Keys |-> [row |-> NoRow, url |-> NoUrl]]
  /\ row = [r \in Rows |-> "free"]
  /\ emails = [r \in Rows |-> {}]
  /\ suppressed = {}
  /\ evidence = [r \in Rows |-> "none"]
  /\ card = [r \in Rows |-> "none"]
  /\ asked = [q \in Requests |-> {}]
  /\ object = [q \in Requests |-> {}]
  /\ reference = [q \in Requests |-> NoReference]
  /\ work = [w \in Workers |-> Idle]
  /\ lost = {}

PeopleNext ==
  \/ \E w \in Workers :
       \/ \E k \in Keys, u \in Urls \cup {NoUrl} : BeginIngest(w, k, u)
       \/ FinishIngest(w)
       \/ ReadMatches(w) \/ WriteCards(w)
       \/ \E q \in Requests : ReadIdentities(w, q)
       \/ PutSnapshot(w) \/ DropPayload(w) \/ CommitPayload(w) \/ LosePayload(w)
  \/ \E r \in Rows : ScoreRow(r)
  \/ \E q \in Requests : AskEnrichment(q)

\* Tasks and webhooks that began a transaction end it.
PeopleFairness ==
  \A w \in Workers : WF_peopleVars(FinishIngest(w) \/ WriteCards(w) \/ DropPayload(w)
                                   \/ CommitPayload(w))
=============================================================================
