------------------------------ MODULE MCPeople ------------------------------
(***************************************************************************)
(* People, deletions and contacts on small instances.  `lane` says what     *)
(* moves, from a state the program can be in:                               *)
(*   people     one deletion against ingestion, scores and cards            *)
(*   payloads   one deletion against payloads that bring addresses, and     *)
(*              snapshots that expire                                       *)
(*   snapshots  two deletions of people that may share a snapshot           *)
(*   contacts   the retention of one contact point                          *)
(***************************************************************************)
EXTENDS PrivacyDeletion, ContactRetention, TLC

VARIABLE lane
mcVars == <<lane, deletionVars, contactVars>>

ThePrivacyRequest == CHOOSE p \in Asks : TRUE

\* Every candidate was found and scored once, under a key of its own.
Populated ==
  /\ \E key \in [Rows -> Keys] :
       /\ \A r, s \in Rows : r # s => key[r] # key[s]
       /\ identity = [k \in Keys |->
            [row |-> IF \E r \in Rows : key[r] = k THEN CHOOSE r \in Rows : key[r] = k ELSE NoRow,
             url |-> NoUrl]]
  /\ row = [r \in Rows |-> "person"]
  /\ evidence = [r \in Rows |-> "personal"]
  /\ emails = [r \in Rows |-> {}]
  /\ suppressed = {}
  /\ card = [r \in Rows |-> "none"]
  /\ asked = [q \in Requests |-> {}]
  /\ object = [q \in Requests |-> {}]
  /\ reference = [q \in Requests |-> NoReference]
  /\ work = [w \in Workers |-> Idle]
  /\ lost = {}

\* The deletions of the candidates are approved.
Approved(asking) ==
  \E of \in [asking -> Rows] :
    /\ \A o, p \in asking : o # p => of[o] # of[p]
    /\ ask = [p \in Asks |-> IF p \in asking
                             THEN [NoRequestRow EXCEPT !.row = of[p], !.kind = "deletion",
                                                       !.state = "approved"]
                             ELSE NoRequestRow]

Init ==
  /\ lane \in {"people", "payloads", "snapshots", "contacts"}
  /\ IF lane \in {"payloads", "snapshots"} THEN Populated ELSE PeopleInit
  /\ CASE lane = "payloads" -> Approved({ThePrivacyRequest})
       [] lane = "snapshots" -> Approved(Asks)
       [] OTHER -> ask = [p \in Asks |-> NoRequestRow]
  /\ PrivacyInitBesidesAsk
  /\ ContactInit

OneRequest == \A p \in Asks \ {ThePrivacyRequest} : ask'[p] = NoRequestRow

NoMail == \A w \in Workers : work'[w].at = "apply" => work'[w].locks \cap Emails = {}

Next ==
  /\ UNCHANGED lane
  /\ \/ /\ lane # "contacts" /\ DeletionNext /\ UNCHANGED contactVars
        /\ lane = "people" => UNCHANGED asked /\ OneRequest
        /\ lane \in {"payloads", "snapshots"} =>
             \A w \in Workers : work'[w].at \notin {"ingest", "materialize"}
        /\ lane = "payloads" => UNCHANGED <<troubles, lost>> /\ OneRequest
        /\ lane = "snapshots" => NoMail /\ \A q \in Requests : reference'[q].at # "expired"
     \/ lane = "contacts" /\ ContactNext /\ UNCHANGED deletionVars

Spec == Init /\ [][Next]_mcVars

Symmetric == UNION {Permutations(S) : S \in {Rows, Keys, Urls, Workers}}

-----------------------------------------------------------------------------
(* Properties *)

\* The rows about people and the contact point keep their types.
PeopleTypeOK == TypeOK /\ ContactTypeOK
=============================================================================
