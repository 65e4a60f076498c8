-------------------------- MODULE ContactRetention --------------------------
(***************************************************************************)
(* One contact point of a candidate over time: ContactService.store and     *)
(* reveal, and maintenance_erase_due_contacts, once a day.                  *)
(*                                                                         *)
(* A store or a reveal works on the columns it read at its beginning and    *)
(* writes the ones it changed (the unit of work of the ORM); only the       *)
(* erasure works on the row as it is.  Merges of candidates are left out    *)
(* (module People says why), and so is the encryption.                      *)
(***************************************************************************)
EXTENDS Naturals, FiniteSetsExt

CONSTANTS
  MaxTime,  \* bound: days that pass
  MaxDays   \* _MAX_CONTACT_RETENTION_DAYS, 180 in the code

ASSUME RetentionAssumption == MaxTime \in Nat \ {0} /\ MaxDays \in Nat \ {0}

Never == 0
Times == 1..MaxTime

VARIABLES
  now,        \* today
  point,      \* the candidate_contact_points row
  retired,    \* retired_at of its tombstone: Never while the value is there
  storing,    \* the open transaction of an enrichment payload
  revealing,  \* the open transaction of a recruiter
  overtaken   \* history: whether one of the two wrote over a change it had not read

contactVars == <<now, point, retired, storing, revealing, overtaken>>

NoPoint == [value |-> "none", observed |-> Never, verified |-> Never, used |-> Never,
            days |-> 0, expires |-> Never, expired |-> Never]
NotOpen == [open |-> FALSE]

\* A row; a value that was just encrypted is fresh until it is written.
Columns(values) ==
  [value : values, observed : 0..MaxTime, verified : 0..MaxTime, used : 0..MaxTime,
   days : 0..MaxDays, expires : 0..(MaxTime + MaxDays), expired : 0..MaxTime]
Points == Columns({"none", "kept", "erased"})

\* What a provider says: an undated contact is observed now.
Contacts == [verified : BOOLEAN, dated : BOOLEAN, observed : Times, days : 1..MaxDays]

\* _retention_anchor.
Anchor(p) ==
  IF p.verified = Never /\ p.used = Never THEN p.observed ELSE Max({p.verified, p.used})

\* _erase_contact; the tombstone keeps the day on which the value was due.
WithoutValue(p, at) == [p EXCEPT !.value = "erased", !.expired = at]

\* The columns that changed since they were read are written; a value that was
\* encrypted anew always differs.
Written(read, new) ==
  [[f \in DOMAIN point |-> IF new[f] = read[f] THEN point[f] ELSE new[f]]
     EXCEPT !.value = IF @ = "fresh" THEN "kept" ELSE @]

Overtakes(read, at) == overtaken \/ read # point \/ at # retired

-----------------------------------------------------------------------------
(* store                                                                    *)

\* The suppression locks let one payload at a time bring an address.
BeginStore(c) ==
  /\ ~storing.open
  /\ IF c.dated THEN c.observed <= now ELSE c.observed = now
  /\ storing' = [open |-> TRUE, contact |-> c, point |-> point, retired |-> retired, at |-> now]
  /\ UNCHANGED <<now, point, retired, revealing, overtaken>>

\* A slip: what was erased comes back with any observation.
AnyObservation(c, gone) == TRUE

IsNewVerification(c, gone) == c.verified /\ c.dated /\ c.observed > gone

Created(c) ==
  [value |-> "fresh", observed |-> c.observed,
   verified |-> IF c.verified THEN c.observed ELSE Never, used |-> Never,
   days |-> c.days, expires |-> c.observed + c.days, expired |-> Never]

Revived(c, p) ==
  LET days == Min({p.days, c.days}) IN
  [value |-> "fresh", observed |-> c.observed, verified |-> c.observed, used |-> Never,
   days |-> days, expires |-> c.observed + days, expired |-> Never]

\* An observation that is not older replaces the value; only a newer
\* verification may move the expiry to a later day.
Refreshed(c, p) ==
  LET new == [p EXCEPT !.value = "fresh", !.observed = c.observed,
                       !.days = Min({@, c.days}),
                       !.verified = IF c.verified THEN Max({@, c.observed}) ELSE @]
      due == Anchor(new) + new.days IN
  [new EXCEPT !.expires = IF new.verified # p.verified THEN due ELSE Min({@, due})]

\* An older one may still shorten the policy.
Shortened(c, p) ==
  LET new == [p EXCEPT !.days = Min({@, c.days})] IN
  IF new.days = p.days THEN p
  ELSE [new EXCEPT !.expires = Min({@, Anchor(new) + new.days})]

\* A value that fell due before the transaction began is erased first; a retired
\* one is refused unless it was verified since.
FinishStore ==
  LET c == storing.contact
      read == storing.point
      due == read.value # "none" /\ storing.at >= read.expires
      p == IF due THEN WithoutValue(read, storing.at) ELSE read
      gone == IF due THEN read.expires ELSE storing.retired
      new == IF p.value = "none" THEN Created(c)
             ELSE IF gone # Never
                  THEN IF IsNewVerification(c, gone) THEN Revived(c, p) ELSE p
             ELSE IF c.observed >= p.observed THEN Refreshed(c, p) ELSE Shortened(c, p)
      left == IF new.value = "fresh" THEN Never ELSE gone IN
  /\ storing.open
  /\ point' = Written(read, new)
  /\ retired' = IF left = storing.retired THEN retired ELSE left
  /\ overtaken' = Overtakes(read, storing.retired)
  /\ storing' = NotOpen
  /\ UNCHANGED <<now, revealing>>

-----------------------------------------------------------------------------
(* reveal                                                                   *)

\* The row is locked later, but the session keeps the columns it has.
BeginReveal ==
  /\ ~revealing.open /\ point.value # "none"
  /\ revealing' = [open |-> TRUE, point |-> point]
  /\ UNCHANGED <<now, point, retired, storing, overtaken>>

IsDue(p) == now >= p.expires

\* Using a value starts its retention again, except when the answer is replayed.
FinishReveal ==
  LET read == revealing.point
      used == [read EXCEPT !.used = now]
      new == IF IsDue(read) THEN WithoutValue(read, now)
             ELSE IF read.value = "erased" THEN read
             ELSE [used EXCEPT !.expires = Anchor(used) + used.days] IN
  /\ revealing.open
  /\ \/ /\ point' = Written(read, new)
        /\ retired' = IF IsDue(read) THEN read.expires ELSE retired
        /\ overtaken' = (overtaken \/ read # point)
     \/ /\ ~IsDue(read)
        /\ UNCHANGED <<point, retired, overtaken>>
  /\ revealing' = NotOpen
  /\ UNCHANGED <<now, storing>>

-----------------------------------------------------------------------------
(* Time and maintenance                                                     *)

EffectiveExpiry == Min({point.expires, Anchor(point) + point.days})

Tombstone == EffectiveExpiry

EraseDueContacts ==
  /\ point.value # "none" /\ point.expired = Never
  /\ EffectiveExpiry <= now
  /\ point' = WithoutValue(point, now)
  /\ retired' = IF point.value = "kept" THEN Tombstone ELSE retired
  /\ UNCHANGED <<now, storing, revealing, overtaken>>

DayPasses ==
  /\ now < MaxTime
  /\ now' = now + 1
  /\ UNCHANGED <<point, retired, storing, revealing, overtaken>>

ContactInit ==
  /\ now = 1
  /\ point = NoPoint
  /\ retired = Never
  /\ storing = NotOpen
  /\ revealing = NotOpen
  /\ overtaken = FALSE

ContactNext ==
  \/ \E c \in Contacts : BeginStore(c)
  \/ FinishStore
  \/ BeginReveal
  \/ FinishReveal
  \/ EraseDueContacts
  \/ DayPasses

ContactSpec == ContactInit /\ [][ContactNext]_contactVars

-----------------------------------------------------------------------------
(* Properties *)

\* Every variable of the retention of a contact keeps its type.
ContactTypeOK ==
  /\ now \in Times
  /\ point \in Points
  /\ retired \in 0..(MaxTime + MaxDays)
  /\ storing.open \in BOOLEAN /\ revealing.open \in BOOLEAN
  /\ overtaken \in BOOLEAN

\* A contact point has a value exactly while its tombstone is not retired, so
\* that what was erased is recognized when a provider brings it again.
ErasedIsRetired ==
  ~overtaken /\ point.value # "none" => (point.value = "erased" <=> retired # Never)

\* The expiry that reveal looks at and the one that maintenance computes from
\* the columns are the same day, whatever the order of stores and uses.
ExpiriesAgree == ~overtaken /\ point.value = "kept" => EffectiveExpiry = point.expires

\* Only a use or a newer verification moves the expiry of a value to a later
\* day: a provider that repeats an unverified address does not keep it alive.
UnverifiedNeverExtends ==
  [][~overtaken' /\ point.value = "kept" /\ point'.expires > point.expires
       => point'.used > point.used \/ point'.verified > point.verified]_contactVars

\* An erased address comes back only by a verification later than the day on
\* which it was due.
RetiredNeedsVerification ==
  [][~overtaken' /\ point.value = "erased" /\ point'.value = "kept"
       => point'.verified > retired]_contactVars

\* The shortest retention a provider asked for since the address is known holds.
ShorterPolicyWins ==
  [][storing.open /\ ~storing'.open /\ ~overtaken' /\ point'.value = "kept"
       => /\ point'.days <= storing.contact.days
          /\ point.value # "none" => point'.days <= point.days]_contactVars

\* A contact lives as long as its shortest policy, its verification and its uses
\* allow, in every order of observations, uses and days, and what was erased
\* comes back only by a newer verification.
RetentionHolds ==
  /\ [](ErasedIsRetired /\ ExpiriesAgree)
  /\ UnverifiedNeverExtends /\ RetiredNeedsVerification /\ ShorterPolicyWins
=============================================================================
