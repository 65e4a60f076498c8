------------------------------- MODULE Ledger -------------------------------
(***************************************************************************)
(* The requests of the API that change something, and the persistent ledger *)
(* of their idempotency keys, which memberships, clients, jobs and the CRM  *)
(* share (MembershipService.begin_idempotent_mutation).                     *)
(*                                                                         *)
(* A request is [op, by, on, arg]; who asks for which operation on what is  *)
(* the scope of its key.  A handler is an API process with one open         *)
(* transaction: it holds its key, and what it has locked, to the end.       *)
(***************************************************************************)
EXTENDS Naturals, FiniteSets

CONSTANTS
  Handlers,    \* API processes
  KeyNames,    \* values of the Idempotency-Key header
  MaxEntries,  \* bound: requests that are completed
  Nothing      \* no argument

VARIABLES
  ledger,  \* completed identity_idempotency_keys: their key and request
  open     \* handler -> its open transaction

ledgerVars == <<ledger, open>>

Idle == [at |-> "idle", keyed |-> FALSE]

Scope(request) == <<request.op, request.by, request.on>>

Opened(request, key, seen) ==
  [at |-> "begun", keyed |-> FALSE, request |-> request, key |-> key, seen |-> seen]

Busy == {h \in Handlers : open[h].at # "idle"}

\* The advisory lock is on the key alone, whatever the scope.
KeyIsFree(h) == \A g \in Busy \ {h} : open[g].keyed => open[g].key # open[h].key

Known(h) == \E e \in ledger : e.key = open[h].key /\ Scope(e.request) = Scope(open[h].request)

\* The key and its request are completed in the transaction of the change.
Recorded(h) == ledger \cup {[key |-> open[h].key, request |-> open[h].request]}

At(h, place, op) == open[h].at = place /\ open[h].request.op = op

Move(h, place) == open' = [open EXCEPT ![h].at = place]

Close(h) == open' = [open EXCEPT ![h] = Idle]

\* A known key is answered from the ledger, or refused when the request is
\* another one; neither changes anything.
TakeKey(h, place) ==
  /\ KeyIsFree(h)
  /\ IF Known(h) THEN Close(h)
     ELSE open' = [open EXCEPT ![h].at = place, ![h].keyed = TRUE]
  /\ UNCHANGED ledger

LedgerInit == ledger = {} /\ open = [h \in Handlers |-> Idle]
=============================================================================
