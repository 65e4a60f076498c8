-------------------------- MODULE MembershipProofs --------------------------
(***************************************************************************)
(* What holds of an agency's members for any number of members, clients,    *)
(* invitations and requests that meet: an owner stays, an address has one   *)
(* good invitation, the list on a membership is the set of its grants, and  *)
(* an invitation does not survive a change of its invitee.                  *)
(*                                                                         *)
(* The argument: what a transaction has read under a lock of a membership,  *)
(* an address or an invitation is still so when it writes, since whoever    *)
(* would change it waits for the lock.                                      *)
(***************************************************************************)
EXTENDS Memberships, FiniteSetTheorems, TLAPS

-----------------------------------------------------------------------------
(* Types of the open transactions.                                          *)

\* A role change or a removal.
ChangeTx ==
  [at : {"begun", "keyed", "checked"}, keyed : BOOLEAN, key : KeyNames,
   request : [op : {"role", "remove"}, by : Members, on : Members,
              arg : {"admin", "recruiter", "none"}],
   seen : [locks : SUBSET Members, role : Roles, active : BOOLEAN]]

\* An invitation, and one that has locked those it replaces.
InviteRequests ==
  [op : {"invite"}, by : Members, on : {Nothing}, arg : Members \X (Roles \ {"owner"})]

InviteTx ==
  [at : {"begun", "keyed", "inviting"}, keyed : BOOLEAN, key : KeyNames,
   request : InviteRequests, seen : [locks : {{}}]]

ReplaceTx ==
  [at : {"replacing"}, keyed : BOOLEAN, key : KeyNames,
   request : InviteRequests, seen : [locks : {{}}, pending : SUBSET Invites]]

\* The claim of an invitation.
ClaimTx ==
  [at : {"begun", "keyed", "claiming"}, keyed : BOOLEAN, key : KeyNames,
   request : [op : {"claim"}, by : Members, on : {Nothing}, arg : Invites],
   seen : [locks : {{}}]]

\* A grant or a revocation that has locked nothing yet.
AskedTx ==
  [at : {"begun"}, keyed : BOOLEAN, key : KeyNames,
   request : [op : {"grant", "revoke"}, by : Members, on : Clients, arg : Members],
   seen : [locks : {{}}]]

\* A grant that holds the membership, a revocation that holds its key.
GrantTx ==
  [at : {"locked", "keyed"}, keyed : BOOLEAN, key : KeyNames,
   request : [op : {"grant"}, by : Members, on : Clients, arg : Members],
   seen : [locks : SUBSET Members, allowed : SUBSET Clients]]

RevokeTx ==
  [at : {"keyed"}, keyed : BOOLEAN, key : KeyNames,
   request : [op : {"revoke"}, by : Members, on : Clients, arg : Members],
   seen : [locks : {{}}]]

Transactions ==
  UNION {{Idle}, ChangeTx, InviteTx, ReplaceTx, ClaimTx, AskedTx, GrantTx, RevokeTx}

-----------------------------------------------------------------------------
(* The inductive invariant.                                                 *)

\* What a transaction has read and locked is still so.
Holds(t) ==
  /\ t.at # "idle" /\ t.request.op \in {"role", "remove"} /\ t.seen.role # "owner" =>
       member[t.request.on].role # "owner"
  /\ t.at = "checked" =>
       t.seen.locks \subseteq ActiveOwners /\ t.seen.locks \ {t.request.on} # {}
  /\ t.at \in {"locked", "keyed"} /\ t.request.op = "grant" =>
       t.request.arg \in t.seen.locks /\ t.seen.allowed = allowed[t.request.arg]
  /\ t.at = "replacing" =>
       /\ Pending(t.request.arg[1]) \subseteq t.seen.pending
       /\ \A i \in t.seen.pending : invitation[i].state # "none"
  /\ t.at = "claiming" => invitation[t.request.arg].state = "pending"

\* Two transactions do not hold the same membership, address or invitation.
Apart(t, u) ==
  /\ t.at # "idle" /\ u.at # "idle" => t.seen.locks \cap u.seen.locks = {}
  /\ t.at \in {"inviting", "replacing"} /\ u.at \in {"inviting", "replacing"}
       => t.request.arg[1] # u.request.arg[1]
  /\ t.at = "claiming" /\ u.at = "claiming" => t.request.arg # u.request.arg
  /\ t.at = "claiming" /\ u.at = "replacing" => t.request.arg \notin u.seen.pending

AllHold == \A h \in Handlers : Holds(open[h])

AllApart == \A g, h \in Handlers : g # h => Apart(open[g], open[h])

\* One good invitation, said without counting.
OnePending ==
  \A i, j \in Invites :
    invitation[i].state = "pending" /\ invitation[j].state = "pending"
      /\ invitation[i].of = invitation[j].of => i = j

\* An invitation that was made is somebody's; one older than a change of its
\* invitee is not good.
InvitationsHold ==
  /\ \A i \in Invites : invitation[i].state # "none" <=> invitation[i].of \in Members
  /\ \A i \in barred : invitation[i].state \notin {"none", "pending"}

\* The types, with those of the transactions.
MembershipTypes == MembershipTypeOK /\ open \in [Handlers -> Transactions]

MembershipInv ==
  /\ MembershipTypes
  /\ AllHold
  /\ AllApart
  /\ AnOwnerStays
  /\ OnePending
  /\ GrantsAgree
  /\ InvitationsHold

-----------------------------------------------------------------------------
(* Transactions.                                                            *)

\* What is in a transaction at each of its places.
LEMMA Contents ==
  ASSUME MembershipTypes, NEW h \in Handlers
  PROVE  LET t == open[h] IN
         /\ t.at # "idle" =>
              /\ t \in UNION {ChangeTx, InviteTx, ReplaceTx, ClaimTx, AskedTx, GrantTx, RevokeTx}
              /\ t.seen.locks \subseteq Members
         /\ t.at # "idle" /\ t.request.op \in {"role", "remove"} => t \in ChangeTx
         /\ t.at \in {"begun", "keyed", "inviting"} /\ t.request.op = "invite" => t \in InviteTx
         /\ t.at \in {"inviting", "replacing"} => t.request.arg[1] \in Members
         /\ t.at = "inviting" => t \in InviteTx
         /\ t.at = "replacing" => t \in ReplaceTx
         /\ t.at # "idle" /\ t.request.op = "claim" => t \in ClaimTx
         /\ t.at = "claiming" => t \in ClaimTx
         /\ t.at = "checked" => t \in ChangeTx
         /\ t.at = "begun" /\ t.request.op \in {"grant", "revoke"} => t \in AskedTx
         /\ t.at \in {"locked", "keyed"} /\ t.request.op = "grant" => t \in GrantTx
         /\ t.at = "keyed" /\ t.request.op = "revoke" => t \in RevokeTx
<1> DEFINE t == open[h]
<1>1. t \in Transactions
  BY DEF MembershipTypes
<1>2. CASE t = Idle
  BY <1>2 DEF Idle
<1>3. CASE t \in ChangeTx
  BY <1>3 DEF ChangeTx
<1>4. CASE t \in InviteTx
  BY <1>4 DEF InviteTx, InviteRequests
<1>5. CASE t \in ReplaceTx
  BY <1>5 DEF ReplaceTx, InviteRequests
<1>6. CASE t \in ClaimTx
  BY <1>6 DEF ClaimTx
<1>7. CASE t \in AskedTx
  BY <1>7 DEF AskedTx
<1>8. CASE t \in GrantTx
  BY <1>8 DEF GrantTx
<1>9. CASE t \in RevokeTx
  BY <1>9 DEF RevokeTx
<1> QED
  BY <1>1, <1>2, <1>3, <1>4, <1>5, <1>6, <1>7, <1>8, <1>9 DEF Transactions

\* A step that only moves a transaction keeps all if what the transaction then
\* holds is so, and nobody else holds it.
LEMMA MoveKeeps ==
  ASSUME MembershipInv, NEW h \in Handlers, NEW t \in Transactions,
         open' = [open EXCEPT ![h] = t], UNCHANGED membershipVars,
         Holds(t),
         \A g \in Handlers \ {h} : Apart(open[g], t) /\ Apart(t, open[g])
  PROVE  MembershipInv'
<1>1. MembershipTypes'
  BY DEF MembershipInv, MembershipTypes, MembershipTypeOK, membershipVars
<1>2. open'[h] = t /\ \A g \in Handlers \ {h} : open'[g] = open[g]
  BY DEF MembershipInv, MembershipTypes
<1>3. AllHold'
  BY <1>2 DEF MembershipInv, AllHold, Holds, membershipVars, ActiveOwners, Pending
<1>4. AllApart'
  BY <1>2 DEF MembershipInv, AllApart, Apart
<1> QED
  BY <1>1, <1>3, <1>4 DEF MembershipInv, membershipVars, AnOwnerStays, ActiveOwners,
     OnePending, GrantsAgree, InvitationsHold

\* An idle handler holds nothing.
LEMMA IdleHolds ==
  /\ Idle \in Transactions /\ Holds(Idle)
  /\ \A t : Apart(Idle, t) /\ Apart(t, Idle)
BY DEF Transactions, Idle, Holds, Apart

\* A transaction that ends without a change.
LEMMA CloseKeeps ==
  ASSUME MembershipInv, NEW h \in Handlers, Close(h), UNCHANGED membershipVars
  PROVE  MembershipInv'
BY IdleHolds, MoveKeeps DEF Close

\* A transaction that goes on holding the locks it has is apart from the others.
LEMMA SameLocksApart ==
  ASSUME MembershipInv, NEW h \in Handlers, open[h].at # "idle",
         NEW t, t.seen.locks \subseteq open[h].seen.locks,
         t.at \in {"begun", "keyed", "checked", "locked"}
  PROVE  \A g \in Handlers \ {h} : Apart(open[g], t) /\ Apart(t, open[g])
<1>1. \A g \in Handlers \ {h} : Apart(open[g], open[h]) /\ Apart(open[h], open[g])
  BY DEF MembershipInv, AllApart
<1> QED
  BY <1>1 DEF Apart

-----------------------------------------------------------------------------
(* Each step keeps the invariant.                                           *)

\* A transaction begins with what it has read of its target, and locks nothing.
LEMMA AskKeeps ==
  ASSUME MembershipInv, NEW h \in Handlers, NEW key \in KeyNames, MembershipRequest(h, key)
  PROVE  MembershipInv'
<1>0. MembershipTypes /\ InvitationsHold
  BY DEF MembershipInv
<1>1. ASSUME NEW t \in Transactions, t.at = "begun", t.seen.locks = {}, Holds(t),
             open[h].at = "idle", open' = [open EXCEPT ![h] = t], UNCHANGED membershipVars
      PROVE  MembershipInv'
  <2>1. \A g \in Handlers \ {h} : Apart(open[g], t) /\ Apart(t, open[g])
    BY <1>1 DEF Apart
  <2> QED
    BY <1>1, <2>1, MoveKeeps
<1>2. ASSUME NEW by \in Members, NEW m \in Members, NEW op \in {"role", "remove"},
             NEW role \in Roles \cup {"none"}, AskChange(h, by, m, op, role, key)
      PROVE  MembershipInv'
  <2> DEFINE t == Opened([op |-> op, by |-> by, on |-> m, arg |-> role], key,
                         [locks |-> {}, role |-> member[m].role, active |-> member[m].active])
  <2>1. t \in ChangeTx
    BY <1>0, <1>2 DEF ChangeTx, Opened, AskChange, Assignable, Roles, MembershipTypes,
       MembershipTypeOK
  <2>2. Holds(t) /\ t.at = "begun" /\ t.seen.locks = {}
    BY DEF Holds, Opened
  <2>3. open[h].at = "idle" /\ open' = [open EXCEPT ![h] = t] /\ UNCHANGED membershipVars
    BY <1>2 DEF AskChange, Begin
  <2> HIDE DEF t
  <2> QED
    BY <1>1, <2>1, <2>2, <2>3 DEF Transactions
<1>3. ASSUME NEW by \in Members, NEW m \in Members, NEW role \in Roles,
             AskInvitation(h, by, m, role, key)
      PROVE  MembershipInv'
  <2> DEFINE t == Opened([op |-> "invite", by |-> by, on |-> Nothing, arg |-> <<m, role>>],
                         key, NoLocks)
  <2>1. t \in InviteTx
    BY <1>3 DEF InviteTx, InviteRequests, Opened, AskInvitation, Assignable, NoLocks
  <2>2. Holds(t) /\ t.at = "begun" /\ t.seen.locks = {}
    BY DEF Holds, Opened, NoLocks
  <2>3. open[h].at = "idle" /\ open' = [open EXCEPT ![h] = t] /\ UNCHANGED membershipVars
    BY <1>3 DEF AskInvitation, Begin
  <2> HIDE DEF t
  <2> QED
    BY <1>1, <2>1, <2>2, <2>3 DEF Transactions
<1>4. ASSUME NEW i \in Invites, AskClaim(h, i, key)
      PROVE  MembershipInv'
  <2> DEFINE t == Opened([op |-> "claim", by |-> invitation[i].of, on |-> Nothing, arg |-> i],
                         key, NoLocks)
  <2>1. t \in ClaimTx
    BY <1>0, <1>4 DEF ClaimTx, Opened, AskClaim, NoLocks, InvitationsHold
  <2>2. Holds(t) /\ t.at = "begun" /\ t.seen.locks = {}
    BY DEF Holds, Opened, NoLocks
  <2>3. open[h].at = "idle" /\ open' = [open EXCEPT ![h] = t] /\ UNCHANGED membershipVars
    BY <1>4 DEF AskClaim, Begin
  <2> HIDE DEF t
  <2> QED
    BY <1>1, <2>1, <2>2, <2>3 DEF Transactions
<1>5. ASSUME NEW by \in Members, NEW c \in Clients, NEW m \in Members,
             NEW op \in {"grant", "revoke"}, AskGrant(h, by, c, m, op, key)
      PROVE  MembershipInv'
  <2> DEFINE t == Opened([op |-> op, by |-> by, on |-> c, arg |-> m], key, NoLocks)
  <2>1. t \in AskedTx
    BY DEF AskedTx, Opened, NoLocks
  <2>2. Holds(t) /\ t.at = "begun" /\ t.seen.locks = {}
    BY DEF Holds, Opened, NoLocks
  <2>3. open[h].at = "idle" /\ open' = [open EXCEPT ![h] = t] /\ UNCHANGED membershipVars
    BY <1>5 DEF AskGrant, Begin
  <2> HIDE DEF t
  <2> QED
    BY <1>1, <2>1, <2>2, <2>3 DEF Transactions
<1>6. CASE \E by, m \in Members : \E role \in Roles : AskChange(h, by, m, "role", role, key)
  BY <1>2, <1>6
<1>7. CASE \E by, m \in Members : \E role \in Roles : AskInvitation(h, by, m, role, key)
  BY <1>3, <1>7
<1>8. CASE \E by, m \in Members : AskChange(h, by, m, "remove", "none", key)
  BY <1>2, <1>8
<1> QED
  BY <1>4, <1>5, <1>6, <1>7, <1>8 DEF MembershipRequest

\* The key is taken, and what was locked stays so.
LEMMA TakeKeyKeeps ==
  ASSUME MembershipInv, NEW h \in Handlers, TakeMemberKey(h)
  PROVE  MembershipInv'
<1>0. MembershipTypes /\ UNCHANGED membershipVars
  BY DEF MembershipInv, TakeMemberKey
<1>1. CASE Close(h)
  BY <1>0, <1>1, CloseKeeps
<1>2. CASE open' = [open EXCEPT ![h].at = "keyed", ![h].keyed = TRUE]
  <2> DEFINE t == [open[h] EXCEPT !.at = "keyed", !.keyed = TRUE]
  <2>1. open' = [open EXCEPT ![h] = t]
    BY <1>0, <1>2 DEF MembershipTypes
  <2>2. /\ open[h].at \in {"begun", "locked"}
        /\ t \in Transactions
        /\ t.at = "keyed" /\ t.seen = open[h].seen /\ t.request = open[h].request
    <3>1. CASE open[h].at = "begun" /\ open[h].request.op \in {"role", "remove"}
      <4>1. open[h] \in ChangeTx
        BY <1>0, <3>1, Contents
      <4> QED
        BY <3>1, <4>1 DEF ChangeTx, Transactions
    <3>2. CASE open[h].at = "begun" /\ open[h].request.op = "invite"
      <4>1. open[h] \in InviteTx
        BY <1>0, <3>2, Contents
      <4> QED
        BY <3>2, <4>1 DEF InviteTx, Transactions
    <3>3. CASE open[h].at = "begun" /\ open[h].request.op = "claim"
      <4>1. open[h] \in ClaimTx
        BY <1>0, <3>3, Contents
      <4> QED
        BY <3>3, <4>1 DEF ClaimTx, Transactions
    <3>4. CASE open[h].at = "begun" /\ open[h].request.op = "revoke"
      <4>1. open[h] \in AskedTx
        BY <1>0, <3>4, Contents
      <4>2. t \in RevokeTx
        BY <3>4, <4>1 DEF AskedTx, RevokeTx
      <4> QED
        BY <3>4, <4>1, <4>2 DEF AskedTx, Transactions
    <3>5. CASE open[h].at = "locked" /\ open[h].request.op = "grant"
      <4>1. open[h] \in GrantTx
        BY <1>0, <3>5, Contents
      <4> QED
        BY <3>5, <4>1 DEF GrantTx, Transactions
    <3> QED
      BY <3>1, <3>2, <3>3, <3>4, <3>5 DEF TakeMemberKey, At
  <2>3. open[h].at = "begun" => open[h].request.op # "grant"
    BY DEF TakeMemberKey, At
  <2>4. Holds(open[h])
    BY DEF MembershipInv, AllHold
  <2> HIDE DEF t
  <2>5. Holds(t)
    BY <2>2, <2>3, <2>4 DEF Holds
  <2> QED
    BY <1>0, <2>1, <2>2, <2>5, SameLocksApart, MoveKeeps
<1> QED
  BY <1>1, <1>2 DEF TakeMemberKey, TakeKey

\* Active owners are locked of whom another one stays.
LEMMA CheckOwnersKeeps ==
  ASSUME MembershipInv, NEW h \in Handlers, CheckOwners(h)
  PROVE  MembershipInv'
<1>0. MembershipTypes /\ UNCHANGED membershipVars
  BY DEF MembershipInv, CheckOwners
<1>1. CASE Close(h)
  BY <1>0, <1>1, CloseKeeps
<1>2. CASE /\ AnotherOwner(open[h].request.on)
           /\ open' = [open EXCEPT ![h].at = "checked", ![h].seen.locks = ActiveOwners]
  <2> DEFINE t == [open[h] EXCEPT !.at = "checked",
                                  !.seen = [open[h].seen EXCEPT !.locks = ActiveOwners]]
  <2>1. open[h] \in ChangeTx /\ open[h].at = "keyed"
    BY <1>0, Contents DEF CheckOwners
  <2>2. open' = [open EXCEPT ![h] = t]
    BY <1>0, <1>2 DEF MembershipTypes
  <2>3. t \in ChangeTx /\ t.at = "checked" /\ t.seen.locks = ActiveOwners
        /\ t.seen.role = open[h].seen.role /\ t.request = open[h].request
    BY <2>1 DEF ChangeTx, ActiveOwners
  <2> HIDE DEF t
  <2>4. Holds(t)
    BY <1>2, <2>1, <2>3 DEF MembershipInv, AllHold, Holds, AnotherOwner
  <2>5. \A g \in Handlers \ {h} : open[g].at # "idle" =>
          ActiveOwners \cap open[g].seen.locks = {}
    BY DEF CheckOwners, MemberFree, Busy
  <2>6. \A g \in Handlers \ {h} : Apart(open[g], t) /\ Apart(t, open[g])
    BY <2>3, <2>5 DEF Apart
  <2> QED
    BY <1>0, <2>2, <2>3, <2>4, <2>6, MoveKeeps DEF Transactions
<1> QED
  BY <1>1, <1>2 DEF CheckOwners

\* One transaction at a time invites an address.
LEMMA CheckInviteeKeeps ==
  ASSUME MembershipInv, NEW h \in Handlers, At(h, "keyed", "invite"), CheckInvitee(h)
  PROVE  MembershipInv'
<1>0. MembershipTypes /\ UNCHANGED membershipVars
  BY DEF MembershipInv, CheckInvitee
<1>1. CASE Close(h)
  BY <1>0, <1>1, CloseKeeps
<1>2. CASE Move(h, "inviting")
  <2> DEFINE t == [open[h] EXCEPT !.at = "inviting"]
  <2>1. open[h] \in InviteTx
    BY <1>0, Contents DEF At
  <2>2. open' = [open EXCEPT ![h] = t]
    BY <1>0, <1>2 DEF MembershipTypes, Move
  <2>3. /\ t \in InviteTx /\ t.at = "inviting" /\ t.seen.locks = {}
        /\ t.request = open[h].request
    BY <2>1 DEF InviteTx
  <2> HIDE DEF t
  <2>4. Holds(t)
    BY <2>1, <2>3 DEF Holds, InviteTx, InviteRequests
  <2>5. \A g \in Handlers \ {h} : Apart(open[g], t) /\ Apart(t, open[g])
    BY <2>3 DEF Apart, CheckInvitee, EmailFree, Busy
  <2> QED
    BY <1>0, <2>2, <2>3, <2>4, <2>5, MoveKeeps DEF Transactions
<1> QED
  BY <1>1, <1>2 DEF CheckInvitee

\* It locks the invitations it replaces once nobody is claiming one.
LEMMA LockPendingKeeps ==
  ASSUME MembershipInv, NEW h \in Handlers, At(h, "inviting", "invite"), LockPending(h)
  PROVE  MembershipInv'
<1>0. MembershipTypes /\ UNCHANGED membershipVars
  BY DEF MembershipInv, LockPending
<1> DEFINE m == open[h].request.arg[1]
           t == [open[h] EXCEPT !.at = "replacing", !.seen = [locks |-> {}, pending |-> Pending(m)]]
<1>1. open[h] \in InviteTx
  BY <1>0, Contents DEF At
<1>2. open' = [open EXCEPT ![h] = t]
  BY <1>0 DEF MembershipTypes, LockPending
<1>3. /\ t \in ReplaceTx /\ t.at = "replacing" /\ t.seen.locks = {}
      /\ t.seen.pending = Pending(m) /\ t.request = open[h].request
  BY <1>1 DEF InviteTx, ReplaceTx, Pending
<1>4. InvitationsFree(Pending(m))
  BY DEF LockPending
<1> HIDE DEF t
<1>5. Holds(t)
  BY <1>3 DEF Holds, Pending, At
<1>6. \A g \in Handlers \ {h} : Apart(open[g], open[h]) /\ Apart(open[h], open[g])
  BY DEF MembershipInv, AllApart
<1>7. \A g \in Handlers \ {h} : Apart(open[g], t) /\ Apart(t, open[g])
  BY <1>3, <1>4, <1>6 DEF Apart, At, InvitationsFree, Busy
<1> QED
  BY <1>0, <1>2, <1>3, <1>5, <1>7, MoveKeeps DEF Transactions

\* A claim locks an invitation that is good.
LEMMA LockInvitationKeeps ==
  ASSUME MembershipInv, NEW h \in Handlers, At(h, "keyed", "claim"), LockInvitation(h)
  PROVE  MembershipInv'
<1>0. MembershipTypes /\ UNCHANGED membershipVars
  BY DEF MembershipInv, LockInvitation
<1>1. CASE Close(h)
  BY <1>0, <1>1, CloseKeeps
<1>2. CASE invitation[open[h].request.arg].state = "pending" /\ Move(h, "claiming")
  <2> DEFINE t == [open[h] EXCEPT !.at = "claiming"]
  <2>1. open[h] \in ClaimTx
    BY <1>0, Contents DEF At
  <2>2. open' = [open EXCEPT ![h] = t]
    BY <1>0, <1>2 DEF MembershipTypes, Move
  <2>3. /\ t \in ClaimTx /\ t.at = "claiming" /\ t.seen.locks = {}
        /\ t.request = open[h].request
    BY <2>1 DEF ClaimTx
  <2> HIDE DEF t
  <2>4. Holds(t)
    BY <1>2, <2>3 DEF Holds, At
  <2>5. \A g \in Handlers \ {h} : Apart(open[g], t) /\ Apart(t, open[g])
    BY <2>3 DEF Apart, LockInvitation, InvitationsFree, Busy
  <2> QED
    BY <1>0, <2>2, <2>3, <2>4, <2>5, MoveKeeps DEF Transactions
<1> QED
  BY <1>1, <1>2 DEF LockInvitation

\* A grant reads the list of a membership that it has locked.
LEMMA LockRecruiterKeeps ==
  ASSUME MembershipInv, NEW h \in Handlers, At(h, "begun", "grant"), LockRecruiter(h)
  PROVE  MembershipInv'
<1>0. MembershipTypes /\ UNCHANGED membershipVars
  BY DEF MembershipInv, LockRecruiter
<1> DEFINE m == open[h].request.arg
<1>1. CASE Close(h)
  BY <1>0, <1>1, CloseKeeps
<1>2. CASE open' = [open EXCEPT ![h].at = "locked",
                                ![h].seen = [locks |-> {m}, allowed |-> allowed[m]]]
  <2> DEFINE t == [open[h] EXCEPT !.at = "locked",
                                  !.seen = [locks |-> {m}, allowed |-> allowed[m]]]
  <2>1. open[h] \in AskedTx
    BY <1>0, Contents DEF At
  <2>2. open' = [open EXCEPT ![h] = t]
    BY <1>0, <1>2 DEF MembershipTypes
  <2>3. /\ t \in GrantTx /\ t.at = "locked" /\ t.seen = [locks |-> {m}, allowed |-> allowed[m]]
        /\ t.request = open[h].request
    BY <1>0, <2>1 DEF At, AskedTx, GrantTx, MembershipTypes, MembershipTypeOK
  <2> HIDE DEF t
  <2>4. Holds(t)
    BY <2>1, <2>3 DEF At, Holds
  <2>5. \A g \in Handlers \ {h} : Apart(open[g], t) /\ Apart(t, open[g])
    BY <2>3 DEF Apart, LockRecruiter, MemberFree, Busy
  <2> QED
    BY <1>0, <2>2, <2>3, <2>4, <2>5, MoveKeeps DEF Transactions
<1> QED
  BY <1>1, <1>2 DEF LockRecruiter

\* A transaction that commits its changes leaves nothing held.
LEMMA CommitLeaves ==
  ASSUME MembershipInv, NEW h \in Handlers, Close(h), MembershipTypeOK'
  PROVE  /\ MembershipTypes' /\ AllApart'
         /\ open'[h] = Idle /\ \A g \in Handlers \ {h} : open'[g] = open[g]
<1>1. open'[h] = Idle /\ \A g \in Handlers \ {h} : open'[g] = open[g]
  BY DEF MembershipInv, MembershipTypes, Close
<1>2. MembershipTypes'
  BY IdleHolds DEF MembershipInv, MembershipTypes, Close
<1>3. AllApart'
  BY <1>1, IdleHolds DEF MembershipInv, AllApart
<1> QED
  BY <1>1, <1>2, <1>3

\* Whoever changes a membership has it for itself.
LEMMA ChangedAlone ==
  ASSUME MembershipInv, NEW h \in Handlers, NEW m, MemberFree(m, h)
  PROVE  \A g \in Handlers \ {h} : open[g].at # "idle" => m \notin open[g].seen.locks
BY DEF MemberFree, Busy

\* The pending invitations of the member are expired with the change, nobody is
\* claiming one, and another owner stays.
LEMMA ChangeMemberKeeps ==
  ASSUME MembershipInv, NEW h \in Handlers, ChangeMember(h)
  PROVE  MembershipInv'
<1> DEFINE m == open[h].request.on
<1>0. MembershipTypes /\ MembershipTypeOK /\ InvitationsHold
  BY DEF MembershipInv, MembershipTypes
<1>1. open[h] \in ChangeTx /\ m \in Members
  BY <1>0, Contents DEF ChangeMember, ChangeTx
<1>2. /\ invitation' = Expired(Pending(m))
      /\ barred' = barred \cup {i \in Invites : invitation[i].of = m}
      /\ Close(h) /\ UNCHANGED <<allowed, grants>>
  BY DEF ChangeMember, WithoutInvitations
<1>3. \E rec \in [role : Roles \cup {"none"}, active : BOOLEAN] :
        /\ member' = [member EXCEPT ![m] = rec]
        /\ rec.role = "owner" => member[m].role = "owner"
  <2>3. CASE ~Differs(h)
    <3>1. member' = member /\ member = [member EXCEPT ![m] = member[m]]
      BY <1>0, <1>1, <2>3 DEF ChangeMember, MembershipTypeOK
    <3>2. member[m] \in [role : Roles \cup {"none"}, active : BOOLEAN]
      BY <1>0, <1>1 DEF MembershipTypeOK
    <3> QED
      BY <3>1, <3>2
  <2>1. CASE Differs(h) /\ open[h].request.op = "remove"
    <3>1. [member[m] EXCEPT !.active = FALSE] \in [role : Roles \cup {"none"}, active : BOOLEAN]
          /\ [member[m] EXCEPT !.active = FALSE].role = member[m].role
      <4>1. member[m] \in [role : Roles \cup {"none"}, active : BOOLEAN]
        BY <1>0, <1>1 DEF MembershipTypeOK
      <4> QED
        BY <4>1
    <3>2. member' = [member EXCEPT ![m] = [member[m] EXCEPT !.active = FALSE]]
      BY <1>0, <2>1 DEF ChangeMember, MembershipTypeOK
    <3> QED
      BY <3>1, <3>2
  <2>2. CASE Differs(h) /\ open[h].request.op # "remove"
    <3> DEFINE role == open[h].request.arg
    <3>1. [member[m] EXCEPT !.role = role] \in [role : Roles \cup {"none"}, active : BOOLEAN]
          /\ [member[m] EXCEPT !.role = role].role # "owner"
      BY <1>0, <1>1 DEF MembershipTypeOK, ChangeTx, Roles
    <3>2. member' = [member EXCEPT ![m] = [member[m] EXCEPT !.role = role]]
      BY <1>0, <2>2 DEF ChangeMember, MembershipTypeOK
    <3> QED
      BY <3>1, <3>2
  <2> QED
    BY <2>1, <2>2, <2>3
<1>4. /\ \A x \in Members \ {m} : member'[x] = member[x]
      /\ \A x \in Members : member'[x].role = "owner" => member[x].role = "owner"
      /\ member' \in [Members -> [role : Roles \cup {"none"}, active : BOOLEAN]]
  BY <1>0, <1>1, <1>3 DEF MembershipTypeOK
<1>5. \A i \in Invites :
        /\ invitation'[i].of = invitation[i].of /\ invitation'[i].role = invitation[i].role
        /\ IF i \in Pending(m) THEN invitation'[i].state = "expired"
           ELSE invitation'[i] = invitation[i]
  BY <1>0, <1>2 DEF Expired, MembershipTypeOK
<1>6. invitation' \in [Invites -> [of : Members \cup {Nothing},
                                   role : (Roles \ {"owner"}) \cup {"none"},
                                   state : {"none", "pending", "expired", "claimed"}]]
  BY <1>0, <1>2 DEF Expired, MembershipTypeOK
<1>7. MembershipTypeOK'
  BY <1>0, <1>2, <1>4, <1>6 DEF MembershipTypeOK
<1>8. /\ MembershipTypes' /\ AllApart'
      /\ open'[h] = Idle /\ \A g \in Handlers \ {h} : open'[g] = open[g]
  BY <1>2, <1>7, CommitLeaves
<1>9. \/ member' = member
      \/ \A g \in Handlers \ {h} : open[g].at # "idle" => m \notin open[g].seen.locks
  BY ChangedAlone DEF ChangeMember
<1>10. AllHold'
  <2> SUFFICES ASSUME NEW g \in Handlers \ {h}
               PROVE  Holds(open[g])'
    BY <1>8 DEF AllHold, Holds, Idle
  <2>1. Holds(open[g]) /\ open'[g] = open[g]
    BY <1>8 DEF MembershipInv, AllHold
  <2>2. open[g].at # "idle" /\ open[g].request.op \in {"role", "remove"} =>
          open[g].request.on \in Members
    BY <1>0, Contents DEF ChangeTx
  <2>3. open[g].at = "checked" => open[g].seen.locks \subseteq ActiveOwners'
    BY <1>4, <1>9, <2>1 DEF Holds, ActiveOwners
  <2>4. open[g].at \in {"locked", "keyed"} /\ open[g].request.op = "grant" =>
          open[g].seen.allowed = allowed'[open[g].request.arg]
    BY <1>2, <2>1 DEF Holds
  <2>5. open[g].at = "replacing" =>
          /\ Pending(open[g].request.arg[1])' \subseteq open[g].seen.pending
          /\ \A i \in open[g].seen.pending : invitation'[i].state # "none"
    <3>1. open[g].at = "replacing" => open[g].seen.pending \subseteq Invites
      BY <1>0, Contents DEF ReplaceTx
    <3> QED
      BY <1>5, <2>1, <3>1 DEF Holds, Pending
  <2>6. open[g].at = "claiming" => invitation'[open[g].request.arg].state = "pending"
    <3>1. open[g].at = "claiming" =>
            open[g].request.arg \in Invites /\ open[g].request.arg \notin Pending(m)
      BY <1>0, Contents DEF ClaimTx, ChangeMember, InvitationsFree, Busy
    <3> QED
      BY <1>5, <2>1, <3>1 DEF Holds
  <2> QED
    BY <1>4, <2>1, <2>2, <2>3, <2>4, <2>5, <2>6 DEF Holds
<1>11. AnOwnerStays'
  <2>1. Holds(open[h]) /\ AnOwnerStays
    BY DEF MembershipInv, AllHold
  <2>2. CASE open[h].seen.role = "owner"
    <3>1. open[h].at = "checked"
      BY <2>2 DEF ChangeMember
    <3>2. \E x \in ActiveOwners : x # m
      BY <2>1, <3>1 DEF Holds
    <3> QED
      BY <1>4, <3>2 DEF AnOwnerStays, ActiveOwners
  <2>3. CASE open[h].seen.role # "owner"
    <3>1. member[m].role # "owner"
      BY <2>1, <2>3 DEF Holds, ChangeMember
    <3> QED
      BY <1>4, <2>1, <3>1 DEF AnOwnerStays, ActiveOwners
  <2> QED
    BY <2>2, <2>3
<1>12. OnePending'
  BY <1>5 DEF MembershipInv, OnePending
<1>13. GrantsAgree'
  BY <1>2 DEF MembershipInv, GrantsAgree
<1>14. InvitationsHold'
  BY <1>0, <1>1, <1>2, <1>5 DEF InvitationsHold, Pending, MembershipTypeOK
<1> QED
  BY <1>8, <1>10, <1>11, <1>12, <1>13, <1>14 DEF MembershipInv

\* What the transactions of others hold stays so when the memberships change only
\* in one they have not locked, and the invitations only in what they have not.
LEMMA OthersHold ==
  ASSUME MembershipInv, NEW g \in Handlers,
         \A x \in Members : member'[x].role = "owner" => member[x].role = "owner",
         open[g].at # "idle" =>
           \A x \in open[g].seen.locks : member'[x] = member[x] /\ allowed'[x] = allowed[x],
         open[g].at = "replacing" =>
           /\ Pending(open[g].request.arg[1])' \subseteq open[g].seen.pending
           /\ \A i \in open[g].seen.pending : invitation'[i].state # "none",
         open[g].at = "claiming" => invitation'[open[g].request.arg].state = "pending",
         open'[g] = open[g]
  PROVE  Holds(open[g])'
<1>1. MembershipTypes /\ Holds(open[g])
  BY DEF MembershipInv, AllHold
<1>2. open[g].at # "idle" /\ open[g].request.op \in {"role", "remove"} =>
        open[g].request.on \in Members
  BY <1>1, Contents DEF ChangeTx
<1>3. open[g].at = "checked" => open[g].seen.locks \subseteq ActiveOwners'
  BY <1>1 DEF Holds, ActiveOwners
<1>4. open[g].at \in {"locked", "keyed"} /\ open[g].request.op = "grant" =>
        open[g].seen.allowed = allowed'[open[g].request.arg]
  BY <1>1 DEF Holds
<1> QED
  BY <1>1, <1>2, <1>3, <1>4 DEF Holds

\* The new invitation is the only good one of its address.
LEMMA InviteKeeps ==
  ASSUME MembershipInv, NEW h \in Handlers, At(h, "replacing", "invite"), Invite(h)
  PROVE  MembershipInv'
<1> DEFINE m == open[h].request.arg[1]
           S == open[h].seen.pending
<1>0. MembershipTypes /\ MembershipTypeOK /\ InvitationsHold
  BY DEF MembershipInv, MembershipTypes
<1>1. open[h] \in ReplaceTx
  BY <1>0, Contents DEF At
<1>2. m \in Members /\ open[h].request.arg[2] \in Roles \ {"owner"} /\ S \subseteq Invites
  BY <1>1 DEF ReplaceTx, InviteRequests
<1>3. /\ Pending(m) \subseteq S /\ \A j \in S : invitation[j].state # "none"
      /\ \A g \in Handlers \ {h} : Holds(open[g]) /\ Apart(open[h], open[g]) /\ Apart(open[g], open[h])
  BY DEF MembershipInv, AllHold, AllApart, Holds, At
<1>4. Close(h) /\ UNCHANGED <<member, allowed, grants, barred>>
  BY DEF Invite
<1>5. PICK i \in Invites :
        /\ invitation[i].state = "none"
        /\ invitation' = [Expired(S) EXCEPT ![i] = [of |-> m, role |-> open[h].request.arg[2],
                                                    state |-> "pending"]]
  BY DEF Invite
<1>6. /\ invitation'[i].of = m /\ invitation'[i].state = "pending"
      /\ \A j \in Invites \ {i} :
           /\ invitation'[j].of = invitation[j].of
           /\ IF j \in S THEN invitation'[j].state = "expired"
              ELSE invitation'[j] = invitation[j]
  BY <1>0, <1>5 DEF Expired, MembershipTypeOK
<1>7. MembershipTypeOK'
  <2> DEFINE Rows == [of : Members \cup {Nothing}, role : (Roles \ {"owner"}) \cup {"none"},
                      state : {"none", "pending", "expired", "claimed"}]
  <2>1. Expired(S) \in [Invites -> Rows]
    BY <1>0 DEF Expired, MembershipTypeOK
  <2>2. [of |-> m, role |-> open[h].request.arg[2], state |-> "pending"] \in Rows
    BY <1>2
  <2> HIDE DEF Rows
  <2>3. invitation' \in [Invites -> Rows]
    BY <1>5, <2>1, <2>2
  <2> QED
    BY <1>0, <1>4, <2>3 DEF MembershipTypeOK, Rows
<1>8. /\ MembershipTypes' /\ AllApart'
      /\ open'[h] = Idle /\ \A g \in Handlers \ {h} : open'[g] = open[g]
  BY <1>4, <1>7, CommitLeaves
<1>9. ASSUME NEW g \in Handlers \ {h}
      PROVE  Holds(open[g])'
  <2>1. ASSUME open[g].at = "replacing"
        PROVE  /\ Pending(open[g].request.arg[1])' \subseteq open[g].seen.pending
               /\ \A j \in open[g].seen.pending : invitation'[j].state # "none"
    <3>1. open[g].request.arg[1] # m
      BY <1>3, <2>1 DEF Apart, At
    <3>2. open[g].seen.pending \subseteq Invites
      BY <1>0, <2>1, Contents DEF ReplaceTx
    <3>3. Pending(open[g].request.arg[1])' \subseteq Pending(open[g].request.arg[1])
      BY <1>6, <1>8, <3>1 DEF Pending
    <3> QED
      BY <1>3, <1>5, <1>6, <2>1, <3>2, <3>3 DEF Holds
  <2>2. ASSUME open[g].at = "claiming"
        PROVE  invitation'[open[g].request.arg].state = "pending"
    <3>1. open[g].request.arg \in Invites
      BY <1>0, <2>2, Contents DEF ClaimTx
    <3>2. open[g].request.arg \notin S /\ open[g].request.arg # i
      BY <1>3, <1>5, <2>2 DEF Apart, At, Holds
    <3> QED
      BY <1>3, <1>6, <2>2, <3>1, <3>2 DEF Holds
  <2> QED
    BY <1>4, <1>8, <2>1, <2>2, OthersHold
<1>10. AllHold'
  BY <1>8, <1>9 DEF AllHold, Holds, Idle
<1>11. OnePending'
  <2>1. \A j \in Invites \ {i} : invitation'[j].state = "pending" =>
          invitation[j].state = "pending" /\ invitation[j].of = invitation'[j].of /\ j \notin S
    BY <1>6
  <2>2. \A j \in Invites \ {i} : invitation'[j].state = "pending" => invitation'[j].of # m
    BY <1>3, <2>1 DEF Pending
  <2> QED
    BY <1>6, <2>1, <2>2 DEF MembershipInv, OnePending
<1>12. AnOwnerStays' /\ GrantsAgree'
  BY <1>4 DEF MembershipInv, AnOwnerStays, ActiveOwners, GrantsAgree
<1>13. InvitationsHold'
  <2>1. \A j \in Invites : invitation'[j].state # "none" <=> invitation'[j].of \in Members
    BY <1>0, <1>2, <1>3, <1>6 DEF InvitationsHold
  <2>2. ASSUME NEW j \in barred
        PROVE  invitation'[j].state \notin {"none", "pending"}
    <3>1. j \in Invites /\ invitation[j].state \notin {"none", "pending"}
      BY <1>0 DEF InvitationsHold, MembershipTypeOK
    <3> QED
      BY <1>5, <1>6, <3>1
  <2> QED
    BY <1>4, <2>1, <2>2 DEF InvitationsHold
<1> QED
  BY <1>8, <1>10, <1>11, <1>12, <1>13 DEF MembershipInv

\* An inactive membership comes back, and the invitation is used up.
LEMMA ClaimKeeps ==
  ASSUME MembershipInv, NEW h \in Handlers, At(h, "claiming", "claim"), Claim(h)
  PROVE  MembershipInv'
<1> DEFINE i == open[h].request.arg
           m == open[h].request.by
<1>0. MembershipTypes /\ MembershipTypeOK /\ InvitationsHold
  BY DEF MembershipInv, MembershipTypes
<1>1. i \in Invites /\ m \in Members
  BY <1>0, Contents DEF At, ClaimTx
<1>2. CASE member[m].active
  BY <1>2, CloseKeeps DEF Claim, membershipVars
<1>3. CASE ~member[m].active
  <2>1. /\ member' = [member EXCEPT ![m] = [role |-> invitation[i].role, active |-> TRUE]]
        /\ invitation' = [invitation EXCEPT ![i] = [invitation[i] EXCEPT !.state = "claimed"]]
        /\ Close(h) /\ UNCHANGED <<allowed, grants, barred>>
    BY <1>0, <1>3 DEF Claim, MembershipTypeOK
  <2>2. /\ \A x \in Members \ {m} : member'[x] = member[x]
        /\ member'[m].role # "owner"
    BY <1>0, <1>1, <2>1 DEF MembershipTypeOK, Roles
  <2>3. /\ \A j \in Invites \ {i} : invitation'[j] = invitation[j]
        /\ invitation'[i].of = invitation[i].of /\ invitation'[i].state = "claimed"
    BY <1>0, <1>1, <2>1 DEF MembershipTypeOK
  <2>4. /\ \A g \in Handlers \ {h} : Holds(open[g]) /\ Apart(open[h], open[g])
        /\ Holds(open[h])
    BY DEF MembershipInv, AllHold, AllApart
  <2>5. invitation[i].state = "pending"
    BY <2>4 DEF Holds, At
  <2>6. MembershipTypeOK'
    BY <1>0, <1>1, <2>1 DEF MembershipTypeOK
  <2>7. /\ MembershipTypes' /\ AllApart'
        /\ open'[h] = Idle /\ \A g \in Handlers \ {h} : open'[g] = open[g]
    BY <2>1, <2>6, CommitLeaves
  <2>8. ASSUME NEW g \in Handlers \ {h}
        PROVE  Holds(open[g])'
    <3>1. open[g].at # "idle" => \A x \in open[g].seen.locks : member'[x] = member[x]
      <4>1. open[g].at # "idle" => m \notin open[g].seen.locks
        BY ChangedAlone DEF Claim
      <4>2. open[g].at # "idle" => open[g].seen.locks \subseteq Members
        BY <1>0, Contents
      <4> QED
        BY <2>2, <4>1, <4>2
    <3>2. ASSUME open[g].at = "replacing"
          PROVE  /\ Pending(open[g].request.arg[1])' \subseteq open[g].seen.pending
                 /\ \A j \in open[g].seen.pending : invitation'[j].state # "none"
      <4>1. open[g].seen.pending \subseteq Invites
        BY <1>0, <3>2, Contents DEF ReplaceTx
      <4> QED
        BY <2>3, <2>4, <2>7, <3>2, <4>1 DEF Holds, Pending
    <3>3. ASSUME open[g].at = "claiming"
          PROVE  invitation'[open[g].request.arg].state = "pending"
      <4>1. open[g].request.arg \in Invites /\ open[g].request.arg # i
        BY <1>0, <2>4, <3>3, Contents DEF ClaimTx, Apart, At
      <4> QED
        BY <2>3, <2>4, <3>3, <4>1 DEF Holds
    <3> QED
      BY <2>1, <2>2, <2>7, <3>1, <3>2, <3>3, OthersHold
  <2>9. AllHold'
    BY <2>7, <2>8 DEF AllHold, Holds, Idle
  <2>10. AnOwnerStays' /\ GrantsAgree'
    BY <1>3, <2>1, <2>2 DEF MembershipInv, AnOwnerStays, ActiveOwners, GrantsAgree
  <2>11. OnePending'
    BY <2>3 DEF MembershipInv, OnePending
  <2>12. InvitationsHold'
    BY <1>0, <1>1, <2>1, <2>3, <2>5 DEF InvitationsHold, MembershipTypeOK
  <2> QED
    BY <2>7, <2>9, <2>10, <2>11, <2>12 DEF MembershipInv
<1> QED
  BY <1>2, <1>3

\* Nobody is claiming an invitation that expires.
LEMMA ExpiryKeeps ==
  ASSUME MembershipInv, NEW i \in Invites, InvitationExpires(i)
  PROVE  MembershipInv'
<1>0. MembershipTypes /\ MembershipTypeOK /\ InvitationsHold
  BY DEF MembershipInv, MembershipTypes
<1>1. /\ invitation[i].state = "pending" /\ invitation' = Expired({i})
      /\ UNCHANGED <<open, member, allowed, grants, barred>>
  BY DEF InvitationExpires, ledgerVars
<1>2. /\ \A j \in Invites \ {i} : invitation'[j] = invitation[j]
      /\ invitation'[i].of = invitation[i].of /\ invitation'[i].state = "expired"
  BY <1>0, <1>1 DEF MembershipTypeOK, Expired
<1>3. MembershipTypes'
  BY <1>0, <1>1 DEF MembershipTypes, MembershipTypeOK, Expired
<1>4. ASSUME NEW g \in Handlers
      PROVE  Holds(open[g])'
  <2>1. Holds(open[g])
    BY DEF MembershipInv, AllHold
  <2>2. open[g].at = "replacing" => open[g].seen.pending \subseteq Invites
    BY <1>0, Contents DEF ReplaceTx
  <2>3. open[g].at = "replacing" =>
          /\ Pending(open[g].request.arg[1])' \subseteq open[g].seen.pending
          /\ \A j \in open[g].seen.pending : invitation'[j].state # "none"
    BY <1>1, <1>2, <2>1, <2>2 DEF Holds, Pending
  <2>4. open[g].at = "claiming" =>
          open[g].request.arg \in Invites /\ open[g].request.arg # i
    BY <1>0, Contents DEF ClaimTx, InvitationExpires, InvitationsFree, Busy
  <2>5. open[g].at = "claiming" => invitation'[open[g].request.arg].state = "pending"
    BY <1>2, <2>1, <2>4 DEF Holds
  <2> QED
    BY <1>1, <2>3, <2>5, OthersHold
<1>5. AllHold' /\ AllApart'
  <2>1. AllHold'
    BY <1>4 DEF AllHold
  <2>2. AllApart'
    BY <1>1 DEF MembershipInv, AllApart, Apart
  <2> QED
    BY <2>1, <2>2
<1>6. AnOwnerStays' /\ GrantsAgree' /\ OnePending'
  <2>1. AnOwnerStays' /\ GrantsAgree'
    BY <1>1 DEF MembershipInv, AnOwnerStays, ActiveOwners, GrantsAgree
  <2>2. \A j \in Invites : invitation'[j].state = "pending" => invitation'[j] = invitation[j]
    BY <1>2
  <2>3. OnePending'
    BY <2>2 DEF MembershipInv, OnePending
  <2> QED
    BY <2>1, <2>3
<1>7. InvitationsHold'
  BY <1>0, <1>1, <1>2 DEF InvitationsHold, MembershipTypeOK
<1> QED
  BY <1>3, <1>5, <1>6, <1>7 DEF MembershipInv

\* The list and the grants of a membership change together, for one transaction.
LEMMA GrantKeeps ==
  ASSUME MembershipInv, NEW h \in Handlers,
         \/ At(h, "keyed", "grant") /\ Grant(h)
         \/ At(h, "keyed", "revoke") /\ Revoke(h)
  PROVE  MembershipInv'
<1> DEFINE c == open[h].request.on
           m == open[h].request.arg
<1>0. MembershipTypes /\ MembershipTypeOK /\ GrantsAgree
  BY DEF MembershipInv, MembershipTypes
<1>1. c \in Clients /\ m \in Members /\ (open[h].request.op = "grant" => open[h] \in GrantTx)
  BY <1>0, Contents DEF At, GrantTx, RevokeTx
<1>2. Close(h) /\ UNCHANGED <<member, invitation, barred>>
  BY DEF Grant, Revoke
<1>3. \A g \in Handlers \ {h} : open[g].at # "idle" => m \notin open[g].seen.locks
  <2>1. CASE At(h, "keyed", "grant")
    <3>1. m \in open[h].seen.locks
      BY <2>1 DEF MembershipInv, AllHold, Holds, At
    <3> QED
      BY <2>1, <3>1 DEF MembershipInv, AllApart, Apart, At
  <2>2. CASE At(h, "keyed", "revoke") /\ Revoke(h)
    BY <2>2, ChangedAlone DEF Revoke
  <2> QED
    BY <2>1, <2>2
<1>4. CASE UNCHANGED <<grants, allowed>>
  BY <1>2, <1>4, CloseKeeps DEF membershipVars
<1>5. CASE \/ /\ grants' = grants \cup {<<c, m>>}
              /\ allowed' = [allowed EXCEPT ![m] = allowed[m] \cup {c}]
           \/ /\ grants' = grants \ {<<c, m>>}
              /\ allowed' = [allowed EXCEPT ![m] = allowed[m] \ {c}]
  <2>1. MembershipTypeOK' /\ \A x \in Members \ {m} : allowed'[x] = allowed[x]
    BY <1>0, <1>1, <1>2, <1>5 DEF MembershipTypeOK
  <2>2. /\ MembershipTypes' /\ AllApart'
        /\ open'[h] = Idle /\ \A g \in Handlers \ {h} : open'[g] = open[g]
    BY <1>2, <2>1, CommitLeaves
  <2>3. ASSUME NEW g \in Handlers \ {h}
        PROVE  Holds(open[g])'
    <3>1. Holds(open[g]) /\ (open[g].at # "idle" => open[g].seen.locks \subseteq Members)
      BY <1>0, Contents DEF MembershipInv, AllHold
    <3> QED
      BY <1>2, <1>3, <2>1, <2>2, <3>1, OthersHold DEF Holds, Pending
  <2>4. AllHold'
    BY <2>2, <2>3 DEF AllHold, Holds, Idle
  <2>5. GrantsAgree'
    <3>1. \A x \in Members \ {m} : \A d \in Clients : <<d, x>> \in grants' <=> <<d, x>> \in grants
      BY <1>5
    <3>2. allowed'[m] = {d \in Clients : <<d, m>> \in grants'}
      <4>1. allowed[m] = {d \in Clients : <<d, m>> \in grants}
        BY <1>0, <1>1 DEF GrantsAgree
      <4>2. CASE /\ grants' = grants \cup {<<c, m>>}
                 /\ allowed' = [allowed EXCEPT ![m] = allowed[m] \cup {c}]
        <5>1. allowed'[m] = allowed[m] \cup {c}
          BY <1>0, <1>1, <4>2 DEF MembershipTypeOK
        <5>2. \A d \in Clients : <<d, m>> \in grants' <=> <<d, m>> \in grants \/ d = c
          BY <4>2
        <5> QED
          BY <1>1, <4>1, <5>1, <5>2
      <4>3. CASE /\ grants' = grants \ {<<c, m>>}
                 /\ allowed' = [allowed EXCEPT ![m] = allowed[m] \ {c}]
        <5>1. allowed'[m] = allowed[m] \ {c}
          BY <1>0, <1>1, <4>3 DEF MembershipTypeOK
        <5>2. \A d \in Clients : <<d, m>> \in grants' <=> <<d, m>> \in grants /\ d # c
          BY <4>3
        <5> QED
          BY <1>1, <4>1, <5>1, <5>2
      <4> QED
        BY <1>5, <4>2, <4>3
    <3> QED
      BY <1>0, <2>1, <3>1, <3>2 DEF GrantsAgree
  <2> QED
    BY <1>2, <2>2, <2>4, <2>5 DEF MembershipInv, AnOwnerStays, ActiveOwners, OnePending,
       InvitationsHold
<1>6. At(h, "keyed", "grant") => open[h].seen.allowed = allowed[m]
  BY DEF MembershipInv, AllHold, Holds, At
<1> QED
  BY <1>4, <1>5, <1>6 DEF Grant, Revoke

\* An agency that is provisioned.
LEMMA MembershipInvInit == LedgerInit /\ MembershipInit => MembershipInv
<1> SUFFICES ASSUME LedgerInit, MembershipInit
             PROVE  MembershipInv
  OBVIOUS
<1>1. \A h \in Handlers : open[h] = Idle
  BY DEF LedgerInit
<1>2. MembershipTypes
  BY IdleHolds DEF LedgerInit, MembershipInit, MembershipTypes, MembershipTypeOK, Roles,
     NoInvitation
<1>3. AllHold /\ AllApart
  BY <1>1, IdleHolds DEF AllHold, AllApart
<1>4. \A i \in Invites : invitation[i].state = "none" /\ invitation[i].of = Nothing
  BY DEF MembershipInit, NoInvitation
<1>5. OnePending /\ InvitationsHold
  BY <1>4, MembershipAssumption DEF OnePending, InvitationsHold, MembershipInit
<1>6. AnOwnerStays /\ GrantsAgree
  BY DEF MembershipInit, AnOwnerStays, ActiveOwners, GrantsAgree
<1> QED
  BY <1>2, <1>3, <1>5, <1>6 DEF MembershipInv

\* Every step of the memberships keeps the invariant.
LEMMA MembershipNextKeeps ==
  MembershipInv /\ [MembershipNext]_<<ledgerVars, membershipVars>> => MembershipInv'
<1> SUFFICES ASSUME MembershipInv, [MembershipNext]_<<ledgerVars, membershipVars>>
             PROVE  MembershipInv'
  OBVIOUS
<1>1. ASSUME NEW h \in Handlers, Abort(h)
      PROVE  MembershipInv'
  BY <1>1, CloseKeeps DEF Abort
<1>2. CASE UNCHANGED <<ledgerVars, membershipVars>>
  BY <1>2 DEF MembershipInv, MembershipTypes, MembershipTypeOK, AllHold, Holds, AllApart,
     Apart, ActiveOwners, Pending, AnOwnerStays, OnePending, GrantsAgree, InvitationsHold,
     ledgerVars, membershipVars
<1> QED
  BY <1>1, <1>2, AskKeeps, TakeKeyKeeps, CheckOwnersKeeps, ChangeMemberKeeps,
     CheckInviteeKeeps, LockPendingKeeps, InviteKeeps, LockInvitationKeeps, ClaimKeeps,
     LockRecruiterKeeps, GrantKeeps, ExpiryKeeps DEF MembershipNext

\* The invariant holds of an agency that is provisioned, and is kept.
THEOREM MembershipInvariant == MembershipSpec => []MembershipInv
BY MembershipInvInit, MembershipNextKeeps, PTL DEF MembershipSpec

\* The rows of an agency keep their types, and nobody becomes an owner
\* (MembershipService, ClientService).
THEOREM MembershipTypeCorrect == MembershipSpec => []MembershipTypeOK
<1>1. MembershipInv => MembershipTypeOK
  BY DEF MembershipInv, MembershipTypes
<1> QED
  BY <1>1, MembershipInvariant, PTL

\* Where the invariant holds, the tables of the members agree.
LEMMA InvAgrees == MembershipInv => MembershipsAgree
<1>1. MembershipInv => OneGoodInvitation
  <2> SUFFICES ASSUME MembershipInv, NEW m \in Members
               PROVE  Cardinality(Pending(m)) <= 1
    BY DEF OneGoodInvitation
  <2>1. \A i, j \in Pending(m) : i = j
    BY DEF MembershipInv, OnePending, Pending
  <2>2. CASE Pending(m) = {}
    BY <2>2, FS_EmptySet
  <2>3. CASE \E i : i \in Pending(m)
    <3>1. PICK i : i \in Pending(m)
      BY <2>3
    <3>2. Pending(m) = {i}
      BY <2>1, <3>1
    <3>3. Cardinality({i}) = 1
      BY FS_Singleton
    <3> QED
      BY <3>2, <3>3
  <2> QED
    BY <2>2, <2>3
<1> QED
  BY <1>1 DEF MembershipInv, MembershipsAgree

\* There is an owner, an address has one good invitation, and every authorization
\* reads exactly the grants, whatever requests meet (MembershipService,
\* ClientService.grant_access, revoke_access).
THEOREM MembershipsStay == MembershipSpec => []MembershipsAgree
BY InvAgrees, MembershipInvariant, PTL

\* No step claims an invitation that is barred.
LEMMA BarredAreNotClaimed ==
  ASSUME MembershipInv, MembershipNext, NEW i \in barred, invitation'[i].state = "claimed"
  PROVE  invitation[i].state = "claimed"
<1>0. /\ MembershipTypes /\ MembershipTypeOK /\ i \in Invites
      /\ invitation[i].state \notin {"none", "pending"}
  BY DEF MembershipInv, MembershipTypes, MembershipTypeOK, InvitationsHold
<1>1. ASSUME NEW h \in Handlers, At(h, "claiming", "claim"), Claim(h)
      PROVE  invitation'[i] = invitation[i]
  <2>1. invitation[open[h].request.arg].state = "pending"
    BY <1>1 DEF MembershipInv, AllHold, Holds, At
  <2> QED
    BY <1>0, <1>1, <2>1 DEF Claim, MembershipTypeOK
<1>2. ASSUME NEW is, \A j \in Invites : invitation'[j] = Expired(is)[j] \/ j # i
      PROVE  invitation[i].state = "claimed"
  BY <1>0, <1>2 DEF Expired, MembershipTypeOK
<1>3. ASSUME NEW h \in Handlers, ChangeMember(h)
      PROVE  invitation[i].state = "claimed"
  BY <1>2, <1>3 DEF ChangeMember, WithoutInvitations
<1>4. ASSUME NEW h \in Handlers, Invite(h)
      PROVE  invitation[i].state = "claimed"
  <2>1. PICK j \in Invites :
          /\ invitation[j].state = "none"
          /\ invitation' = [Expired(open[h].seen.pending) EXCEPT ![j] =
               [of |-> open[h].request.arg[1], role |-> open[h].request.arg[2],
                state |-> "pending"]]
    BY <1>4 DEF Invite
  <2>2. i # j
    BY <1>0, <2>1
  <2> QED
    BY <1>0, <1>2, <2>1, <2>2 DEF Expired
<1>5. ASSUME NEW j \in Invites, InvitationExpires(j)
      PROVE  invitation[i].state = "claimed"
  BY <1>2, <1>5 DEF InvitationExpires
<1>6. CASE UNCHANGED invitation
  BY <1>6
<1>7. ASSUME NEW h \in Handlers,
             \/ \E key \in KeyNames : MembershipRequest(h, key)
             \/ TakeMemberKey(h) \/ CheckOwners(h) \/ CheckInvitee(h) \/ LockPending(h)
             \/ LockInvitation(h) \/ LockRecruiter(h) \/ Grant(h) \/ Revoke(h) \/ Abort(h)
      PROVE  UNCHANGED invitation
  <2>1. ASSUME NEW key \in KeyNames, MembershipRequest(h, key)
        PROVE  UNCHANGED invitation
    BY <2>1 DEF MembershipRequest, AskChange, AskInvitation, AskClaim, AskGrant, Begin,
       membershipVars
  <2>2. TakeMemberKey(h) \/ CheckOwners(h) \/ CheckInvitee(h) \/ LockPending(h) => UNCHANGED invitation
    BY DEF TakeMemberKey, CheckOwners, CheckInvitee, LockPending, membershipVars
  <2>3. LockInvitation(h) \/ LockRecruiter(h) \/ Abort(h) => UNCHANGED invitation
    BY DEF LockInvitation, LockRecruiter, Abort, membershipVars
  <2>4. Grant(h) \/ Revoke(h) => UNCHANGED invitation
    BY DEF Grant, Revoke
  <2> QED
    BY <1>7, <2>1, <2>2, <2>3, <2>4
<1> QED
  BY <1>1, <1>3, <1>4, <1>5, <1>6, <1>7 DEF MembershipNext

\* An invitation made before its invitee was removed, or given another role, is
\* never claimed (MembershipService._invalidate_membership_invitations).
THEOREM OldInvitationsStayVoid == MembershipSpec => OldInvitationsAreVoid
<1>1. MembershipInv /\ [MembershipNext]_<<ledgerVars, membershipVars>> =>
        [\A i \in barred : invitation'[i].state # "claimed" \/ invitation[i].state = "claimed"
          ]_<<ledgerVars, membershipVars>>
  BY BarredAreNotClaimed
<1> QED
  BY <1>1, MembershipInvariant, PTL DEF MembershipSpec, OldInvitationsAreVoid
=============================================================================
