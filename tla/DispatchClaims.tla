--------------------------- MODULE DispatchClaims ---------------------------
(***************************************************************************)
(* The outbox columns that a run and an on-demand enrichment request share: *)
(* dispatch_pending, dispatch_claim_token and dispatch_claimed_at.  A row   *)
(* records who holds its claim; the lease of a holder on an item is over    *)
(* when the item has left `lease[holder]`.  A holder works on one batch at  *)
(* a time, so its name stands for the token.                                *)
(***************************************************************************)
EXTENDS Naturals

CONSTANTS
  ApiProcesses, \* what handles the recruiters' requests
  Workers,      \* what executes the tasks
  Sweepers,     \* what executes the minutely maintenance task
  MaxFaults,    \* bound: refused publications, lost processes, failed transactions
  NoOne,        \* dispatch_claim_token is NULL
  NoItem        \* no run, no request

\* A claim token names one holder, and NULL names none.
ASSUME ClaimAssumption ==
  /\ MaxFaults \in Nat
  /\ NoOne \notin ApiProcesses \cup Sweepers
  /\ ApiProcesses \cap Sweepers = {}

NoClaim == [pending |-> FALSE, holder |-> NoOne]

\* A slip: a claim has no age.
ClaimableOnce(row, lease, item) == row.pending /\ row.holder = NoOne

Claimable(row, lease, item) ==
  row.pending /\ \A h \in DOMAIN lease : row.holder = h => item \notin lease[h]

Claimed(row, h) == [row EXCEPT !.holder = h]

\* A slip: whoever finishes, finishes the claim of everybody.
OwnAny(row, h) == row.pending

Owns(row, h) == row.pending /\ row.holder = h

Completed(row, h) == IF Owns(row, h) THEN NoClaim ELSE row

Released(row, h) == IF Owns(row, h) THEN [row EXCEPT !.holder = NoOne] ELSE row

-----------------------------------------------------------------------------
(* recover_claimed_dispatches: one claim after the other is published and   *)
(* then completed, or released when the broker refuses.                     *)

SweepOf(items) == [at |-> "publish", left |-> items, item |-> NoItem]

NoSweep == SweepOf({})

Sweeps(items) == [at : {"publish", "complete", "release"}, left : SUBSET items,
                  item : items \cup {NoItem}]

Sent(sweep, i) == [at |-> "complete", left |-> sweep.left \ {i}, item |-> i]

Refused(sweep, i) == [at |-> "release", left |-> sweep.left \ {i}, item |-> i]

Finished(sweep) == SweepOf(sweep.left)
=============================================================================
