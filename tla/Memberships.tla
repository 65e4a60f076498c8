----------------------------- MODULE Memberships -----------------------------
(***************************************************************************)
(* Who belongs to an agency: MembershipService (roles, removals,            *)
(* invitations) and the client grants of ClientService, statement by        *)
(* statement where a statement may wait for a lock (READ COMMITTED).        *)
(*                                                                         *)
(* A member stands for a user, the verified e-mail address of that user and *)
(* the membership row, if there is one.                                     *)
(***************************************************************************)
EXTENDS Ledger

CONSTANTS
  Members,     \* users, with or without a membership
  Clients,     \* client companies of the agency
  MaxInvites   \* bound: invitations

ASSUME MembershipAssumption == MaxInvites \in Nat /\ Nothing \notin Members

VARIABLES
  member,      \* member -> role and whether it is active
  allowed,     \* member -> allowed_client_ids
  grants,      \* client_grants rows
  invitation,  \* number -> membership_invitations row
  barred       \* history: invitations older than a change of their invitee

membershipVars == <<member, allowed, grants, invitation, barred>>

Invites == 1..MaxInvites
Roles == {"owner", "admin", "recruiter"}
NoInvitation == [of |-> Nothing, role |-> "none", state |-> "none"]

ActiveOwners == {m \in Members : member[m].role = "owner" /\ member[m].active}

Manages(m) == member[m].active /\ member[m].role \in {"owner", "admin"}

Pending(m) == {i \in Invites : invitation[i].of = m /\ invitation[i].state = "pending"}

-----------------------------------------------------------------------------
(* Locks *)

MemberFree(m, h) == \A g \in Busy \ {h} : m \notin open[g].seen.locks

\* A slip: the e-mail address is not locked.
NoEmailLock(m, h) == TRUE

EmailFree(m, h) ==
  \A g \in Busy \ {h} : open[g].at \in {"inviting", "replacing"} => open[g].request.arg[1] # m

InvitationsFree(is) ==
  \A g \in Busy :
    /\ open[g].at = "claiming" => open[g].request.arg \notin is
    /\ open[g].at = "replacing" => open[g].seen.pending \cap is = {}

\* The context of a request and its target are read at its beginning.
Begin(h, request, key, seen) ==
  /\ open[h].at = "idle" /\ Cardinality(ledger) < MaxEntries
  /\ open' = [open EXCEPT ![h] = Opened(request, key, seen)]
  /\ UNCHANGED <<ledger, membershipVars>>

NoLocks == [locks |-> {}]

TakeMemberKey(h) ==
  /\ \/ open[h].at = "begun" /\ open[h].request.op \in {"role", "remove", "invite", "claim", "revoke"}
     \/ At(h, "locked", "grant")
  /\ TakeKey(h, "keyed")
  /\ UNCHANGED membershipVars

-----------------------------------------------------------------------------
(* Roles and removals *)

\* Nobody is made an owner.
Assignable(role) == role # "owner"

\* Only an owner changes one.
AskChange(h, by, m, op, role, key) ==
  /\ Manages(by) /\ member[m].role # "none"
  /\ member[m].role = "owner" => member[by].role = "owner"
  /\ Assignable(role)
  /\ Begin(h, [op |-> op, by |-> by, on |-> m, arg |-> role], key,
           [locks |-> {}, role |-> member[m].role, active |-> member[m].active])

AnotherOwner(m) == ActiveOwners \ {m} # {}

\* An owner goes only if another stays; their rows are locked for that.
CheckOwners(h) ==
  LET request == open[h].request IN
  /\ open[h].at = "keyed" /\ request.op \in {"role", "remove"}
  /\ open[h].seen.role = "owner"
  /\ \A m \in ActiveOwners : MemberFree(m, h)
  /\ IF AnotherOwner(request.on)
     THEN open' = [open EXCEPT ![h].at = "checked", ![h].seen.locks = ActiveOwners]
     ELSE Close(h)
  /\ UNCHANGED <<ledger, membershipVars>>

Expired(is) == [i \in Invites |-> IF i \in is THEN [invitation[i] EXCEPT !.state = "expired"]
                                  ELSE invitation[i]]

\* A slip: the invitations of the member stay good.
Kept(m) == invitation

WithoutInvitations(m) == Expired(Pending(m))

\* The row is written, and locked, only if it differs from the row read at the start.
Differs(h) ==
  IF open[h].request.op = "remove" THEN open[h].seen.active
  ELSE open[h].seen.role # open[h].request.arg

\* The pending invitations of the address are expired with the change.
ChangeMember(h) ==
  LET request == open[h].request
      m == request.on IN
  /\ open[h].at \in {"keyed", "checked"} /\ request.op \in {"role", "remove"}
  /\ open[h].seen.role = "owner" => open[h].at = "checked"
  /\ EmailFree(m, h) /\ InvitationsFree(Pending(m))
  /\ Differs(h) => MemberFree(m, h)
  /\ invitation' = WithoutInvitations(m)
  /\ member' = IF ~Differs(h) THEN member
               ELSE IF request.op = "remove" THEN [member EXCEPT ![m].active = FALSE]
               ELSE [member EXCEPT ![m].role = request.arg]
  /\ barred' = barred \cup {i \in Invites : invitation[i].of = m}
  /\ ledger' = Recorded(h)
  /\ Close(h)
  /\ UNCHANGED <<allowed, grants>>

-----------------------------------------------------------------------------
(* Invitations *)

AskInvitation(h, by, m, role, key) ==
  /\ Manages(by) /\ Assignable(role)
  /\ Begin(h, [op |-> "invite", by |-> by, on |-> Nothing, arg |-> <<m, role>>], key, NoLocks)

\* Behind the lock of the address: an active member is not invited.
CheckInvitee(h) ==
  LET m == open[h].request.arg[1] IN
  /\ EmailFree(m, h) /\ MemberFree(m, h)
  /\ IF member[m].active THEN Close(h) ELSE Move(h, "inviting")
  /\ UNCHANGED <<ledger, membershipVars>>

\* The pending invitations are locked, once nobody is claiming them.
LockPending(h) ==
  LET m == open[h].request.arg[1] IN
  /\ InvitationsFree(Pending(m))
  /\ open' = [open EXCEPT ![h].at = "replacing", ![h].seen = [locks |-> {}, pending |-> Pending(m)]]
  /\ UNCHANGED <<ledger, membershipVars>>

\* A new invitation replaces them.
Invite(h) ==
  /\ \E i \in Invites :
       /\ invitation[i].state = "none"
       /\ \A j \in Invites : invitation[j].state = "none" => i <= j
       /\ invitation' = [Expired(open[h].seen.pending) EXCEPT ![i] =
                           [of |-> open[h].request.arg[1], role |-> open[h].request.arg[2],
                            state |-> "pending"]]
  /\ ledger' = Recorded(h)
  /\ Close(h)
  /\ UNCHANGED <<member, allowed, grants, barred>>

AskClaim(h, i, key) ==
  /\ invitation[i].state # "none"
  /\ Begin(h, [op |-> "claim", by |-> invitation[i].of, on |-> Nothing, arg |-> i], key, NoLocks)

\* The invitation is locked, and looked at when it is.
LockInvitation(h) ==
  LET i == open[h].request.arg IN
  /\ InvitationsFree({i})
  /\ IF invitation[i].state = "pending" THEN Move(h, "claiming") ELSE Close(h)
  /\ UNCHANGED <<ledger, membershipVars>>

\* An active membership refuses it; an inactive one comes back with the role
\* of the invitation, and with the clients it had.
Claim(h) ==
  LET i == open[h].request.arg
      m == open[h].request.by IN
  /\ MemberFree(m, h)
  /\ IF member[m].active THEN UNCHANGED <<ledger, member, invitation>>
     ELSE /\ member' = [member EXCEPT ![m] = [role |-> invitation[i].role, active |-> TRUE]]
          /\ invitation' = [invitation EXCEPT ![i].state = "claimed"]
          /\ ledger' = Recorded(h)
  /\ Close(h)
  /\ UNCHANGED <<allowed, grants, barred>>

\* Seven days pass, at a moment at which nobody is claiming it.
InvitationExpires(i) ==
  /\ invitation[i].state = "pending" /\ InvitationsFree({i})
  /\ invitation' = Expired({i})
  /\ UNCHANGED <<ledgerVars, member, allowed, grants, barred>>

-----------------------------------------------------------------------------
(* Client grants *)

AskGrant(h, by, c, m, op, key) ==
  /\ Manages(by)
  /\ Begin(h, [op |-> op, by |-> by, on |-> c, arg |-> m], key, NoLocks)

\* A grant locks the recruiter before its key, a revocation after.
LockRecruiter(h) ==
  LET m == open[h].request.arg IN
  /\ MemberFree(m, h)
  /\ IF member[m].active /\ member[m].role = "recruiter"
     THEN open' = [open EXCEPT ![h].at = "locked",
                               ![h].seen = [locks |-> {m}, allowed |-> allowed[m]]]
     ELSE Close(h)
  /\ UNCHANGED <<ledger, membershipVars>>

Grant(h) ==
  LET c == open[h].request.on
      m == open[h].request.arg IN
  /\ grants' = grants \cup {<<c, m>>}
  /\ allowed' = [allowed EXCEPT ![m] = open[h].seen.allowed \cup {c}]
  /\ ledger' = Recorded(h)
  /\ Close(h)
  /\ UNCHANGED <<member, invitation, barred>>

Revoke(h) ==
  LET c == open[h].request.on
      m == open[h].request.arg IN
  /\ MemberFree(m, h)
  /\ IF member[m].role = "recruiter"
     THEN /\ grants' = grants \ {<<c, m>>}
          /\ allowed' = [allowed EXCEPT ![m] = @ \ {c}]
          /\ ledger' = Recorded(h)
     ELSE UNCHANGED <<grants, allowed, ledger>>
  /\ Close(h)
  /\ UNCHANGED <<member, invitation, barred>>

\* A deadlock that the database resolves, a client that leaves, a crash.
Abort(h) == open[h].at # "idle" /\ Close(h) /\ UNCHANGED <<ledger, membershipVars>>

-----------------------------------------------------------------------------

\* TenantService.provision leaves one owner.
MembershipInit ==
  /\ \E owner \in Members :
       member = [m \in Members |-> IF m = owner THEN [role |-> "owner", active |-> TRUE]
                                   ELSE [role |-> "none", active |-> FALSE]]
  /\ allowed = [m \in Members |-> {}]
  /\ grants = {}
  /\ invitation = [i \in Invites |-> NoInvitation]
  /\ barred = {}

MembershipRequest(h, key) ==
  \/ \E by, m \in Members :
       \/ \E role \in Roles : AskChange(h, by, m, "role", role, key) \/ AskInvitation(h, by, m, role, key)
       \/ AskChange(h, by, m, "remove", "none", key)
       \/ \E c \in Clients, op \in {"grant", "revoke"} : AskGrant(h, by, c, m, op, key)
  \/ \E i \in Invites : AskClaim(h, i, key)

MembershipNext ==
  \/ \E h \in Handlers :
       \/ \E key \in KeyNames : MembershipRequest(h, key)
       \/ TakeMemberKey(h)
       \/ CheckOwners(h) \/ ChangeMember(h)
       \/ At(h, "keyed", "invite") /\ CheckInvitee(h)
       \/ At(h, "inviting", "invite") /\ LockPending(h)
       \/ At(h, "replacing", "invite") /\ Invite(h)
       \/ At(h, "keyed", "claim") /\ LockInvitation(h)
       \/ At(h, "claiming", "claim") /\ Claim(h)
       \/ At(h, "begun", "grant") /\ LockRecruiter(h)
       \/ At(h, "keyed", "grant") /\ Grant(h)
       \/ At(h, "keyed", "revoke") /\ Revoke(h)
       \/ Abort(h)
  \/ \E i \in Invites : InvitationExpires(i)

MembershipSpec ==
  LedgerInit /\ MembershipInit /\ [][MembershipNext]_<<ledgerVars, membershipVars>>

-----------------------------------------------------------------------------
(* Properties *)

\* Every variable of the memberships keeps its type; nobody becomes an owner.
MembershipTypeOK ==
  /\ member \in [Members -> [role : Roles \cup {"none"}, active : BOOLEAN]]
  /\ allowed \in [Members -> SUBSET Clients]
  /\ grants \subseteq Clients \X Members
  /\ invitation \in [Invites -> [of : Members \cup {Nothing},
                                 role : (Roles \ {"owner"}) \cup {"none"},
                                 state : {"none", "pending", "expired", "claimed"}]]
  /\ barred \subseteq Invites

\* An agency always has an active owner, whoever changes whom.
AnOwnerStays == ActiveOwners # {}

\* Two managers who invite the same address at the same time, and an invitee who
\* claims meanwhile, leave at most one invitation that is good.
OneGoodInvitation == \A m \in Members : Cardinality(Pending(m)) <= 1

\* Whoever is removed, or whose role is changed, comes back only with an
\* invitation made later: one that was written while the previous one was being
\* claimed, and still awaits its claim, does not survive the change.
OldInvitationsAreVoid ==
  [][\A i \in barred : invitation'[i].state # "claimed" \/ invitation[i].state = "claimed"
    ]_<<ledgerVars, membershipVars>>

\* The list on the membership, which every authorization reads, is the set of
\* its grants, whatever is granted and revoked at the same time.
GrantsAgree == \A m \in Members : allowed[m] = {c \in Clients : <<c, m>> \in grants}

\* The tables of an agency's members agree, whatever requests meet: there is an
\* owner, an address has one invitation that is good, and the list on a
\* membership, which every authorization reads, is the set of its grants.
MembershipsAgree == AnOwnerStays /\ OneGoodInvitation /\ GrantsAgree
=============================================================================
