----------------------------- MODULE Membership -----------------------------
(***************************************************************************)
(* One campaign's membership (campaigns.service.ts): invites, their        *)
(* acceptance, the removal of members, and the trigger settings, as the    *)
(* transactions of overlapping HTTP requests. A request that has committed *)
(* still has to invalidate the context cache, and a removal to evict the   *)
(* member's sockets: ContextCache and SessionSockets do that.              *)
(***************************************************************************)
EXTENDS Router, FiniteSets

CONSTANTS
  Owner,      \* the user who created the campaign
  Invite,     \* the invites that may be issued
  Request,    \* the HTTP requests that may be made, each once
  InviteRole, \* bound: the roles invites are issued for
  Switched    \* bound: the triggers hosts turn on and off

ASSUME OwnerAssumption == Owner \in User

VARIABLES
  member,       \* the role of every user, NoMember without a row
  invite,       \* the invites table
  disabled,     \* campaigns.settings.triggers: the overrides that say false
  locks,        \* the rows locked FOR UPDATE, with the request that holds them
  request       \* every HTTP request, from its guard to its answer

membershipVars == <<member, invite, disabled, locks, request>>

HostRole == {"host", "admin"}
Role == HostRole \cup {"player"}
NoMember == "none"

\* CreateInviteRequest leaves "admin" out of the roles; UpdateTriggers refuses
\* an id that is not in the registry (UNKNOWN_TRIGGER).
ASSUME RequestAssumption == InviteRole \subseteq Role \ {"admin"} /\ Switched \subseteq TriggerId

IsHost(u) == member[u] \in HostRole
\* Somebody is in charge of the campaign, whatever hosts remove each other and
\* whatever invites they accept (removeMember, acceptInvite). Any host may make
\* the host-only requests, so this is their guard as well.
SomeoneIsInCharge == \E u \in User : IsHost(u)
Members == {u \in User : member[u] # NoMember}

InviteState == {"unissued", "live", "expired", "spent"}
NewInvite == [state |-> "unissued", role |-> "player"]

\* who: who accepts an invite; whom: the user a removal names.
\* A request whose transaction took effect ends in "done", any other in "refused".
NewRequest == [pc |-> "new", op |-> "none", who |-> Owner, whom |-> Owner, invite |-> "none"]
Step == {"new", "guarded", "locked", "committed", "invalidated", "done", "refused"}
Op == {"none", "accept", "remove", "triggers"}

Campaign == "campaign"   \* the name of the campaign row among the locks
Lock(r, row) == /\ \A held \in locks : held.row # row
                /\ locks' = locks \cup {[row |-> row, by |-> r]}
Unlock(r) == locks' = {held \in locks : held.by # r}
Goto(r, pc) == request' = [request EXCEPT ![r].pc = pc]

\* The answer; a request that took effect keeps what it was, for the record.
Done(req) == [NewRequest EXCEPT !.pc = "done", !.op = req.op, !.invite = req.invite]
Refused == [NewRequest EXCEPT !.pc = "refused"]
Refuse(r) == request' = [request EXCEPT ![r] = Refused]
Finish(r) == request' = [request EXCEPT ![r] = Done(request[r])]

\* create makes the owner a member like any other; the others may have joined.
MembershipInit ==
  /\ member \in {m \in [User -> InviteRole \cup {NoMember}] : m[Owner] = "host"}
  /\ invite = [i \in Invite |-> NewInvite]
  /\ disabled = {}
  /\ locks = {}
  /\ request = [r \in Request |-> NewRequest]

-----------------------------------------------------------------------------
(* Invites *)

CreateInvite(i, role) ==
  /\ SomeoneIsInCharge
  /\ invite[i].state = "unissued"
  /\ invite' = [invite EXCEPT ![i] = [state |-> "live", role |-> role]]
  /\ UNCHANGED <<member, disabled, locks, request>>

Expire(i) ==
  /\ invite[i].state = "live"
  /\ invite' = [invite EXCEPT ![i].state = "expired"]
  /\ UNCHANGED <<member, disabled, locks, request>>

AcceptInvite(r, u, i) ==
  /\ request[r].pc = "new"
  /\ invite[i].state # "unissued"
  /\ request' = [request EXCEPT ![r] = [NewRequest EXCEPT !.pc = "guarded", !.op = "accept", !.who = u, !.invite = i]]
  /\ UNCHANGED <<member, invite, disabled, locks>>

\* Mutant: select without for update.
LockInvite_ReadsOnly(r) ==
  /\ request[r].pc = "guarded" /\ request[r].op = "accept"
  /\ invite[request[r].invite].state = "live"
  /\ Goto(r, "locked")
  /\ UNCHANGED <<member, invite, disabled, locks>>

\* select ... where used_at is null for update, INVITE_EXPIRED: a request that
\* waited for the lock sees the row as the request before it left it.
LockInvite(r) ==
  /\ request[r].pc = "guarded" /\ request[r].op = "accept"
  /\ invite[request[r].invite].state = "live"
  /\ Lock(r, request[r].invite)
  /\ Goto(r, "locked")
  /\ UNCHANGED <<member, invite, disabled>>

\* INVITE_INVALID, INVITE_EXPIRED
RefuseInvite(r) ==
  /\ request[r].pc = "guarded" /\ request[r].op = "accept"
  /\ invite[request[r].invite].state # "live"
  /\ \A held \in locks : held.row # request[r].invite
  /\ Refuse(r)
  /\ UNCHANGED <<member, invite, disabled, locks>>

\* Mutant: on conflict do update, so that a member takes the invite's role.
SpendInvite_Upserts(r) ==
  LET u == request[r].who
      i == request[r].invite
  IN /\ request[r].pc = "locked" /\ request[r].op = "accept"
     /\ \A held \in locks : held.row # Campaign
     /\ member' = [member EXCEPT ![u] = invite[i].role]
     /\ invite' = [invite EXCEPT ![i].state = "spent"]
     /\ Unlock(r)
     /\ Goto(r, "committed")
     /\ UNCHANGED disabled

\* A user who is a member already spends the invite and keeps the role. The
\* new row refers to the campaign, so its insert waits for a removal's lock.
SpendInvite(r) ==
  LET u == request[r].who
      i == request[r].invite
  IN /\ request[r].pc = "locked" /\ request[r].op = "accept"
     /\ \A held \in locks : held.row # Campaign
     /\ member' = [member EXCEPT ![u] = IF @ = NoMember THEN invite[i].role ELSE @]
     /\ invite' = [invite EXCEPT ![i].state = "spent"]
     /\ Unlock(r)
     /\ Goto(r, "committed")
     /\ UNCHANGED disabled

-----------------------------------------------------------------------------
(* Removal and settings: host-only routes *)

\* CampaignMemberGuard: the role is read on every request, before the handler.
RemoveMember(r, whom) ==
  /\ request[r].pc = "new"
  /\ SomeoneIsInCharge
  /\ request' = [request EXCEPT ![r] = [NewRequest EXCEPT !.pc = "guarded", !.op = "remove", !.whom = whom]]
  /\ UNCHANGED <<member, invite, disabled, locks>>

LastHost(u) == IsHost(u) /\ \A v \in User \ {u} : ~IsHost(v)

\* select ... for update on the campaign row, and the two checks under it.
LockCampaign(r) ==
  /\ request[r].pc = "guarded" /\ request[r].op = "remove"
  /\ request[r].whom # Owner /\ ~LastHost(request[r].whom)
  /\ Lock(r, Campaign)
  /\ Goto(r, "locked")
  /\ UNCHANGED <<member, invite, disabled>>

\* OWNER_NOT_REMOVABLE, LAST_HOST
RefuseRemoval(r) ==
  /\ request[r].pc = "guarded" /\ request[r].op = "remove"
  /\ request[r].whom = Owner \/ LastHost(request[r].whom)
  /\ \A held \in locks : held.row # Campaign
  /\ Refuse(r)
  /\ UNCHANGED <<member, invite, disabled, locks>>

\* Mutant: the row is kept and marked.
DeleteMember_Marks(r) ==
  /\ request[r].pc = "locked" /\ request[r].op = "remove"
  /\ member' = [member EXCEPT ![request[r].whom] = "removed"]
  /\ Unlock(r)
  /\ Goto(r, "committed")
  /\ UNCHANGED <<invite, disabled>>

\* A user who is no member is as good as removed.
DeleteMember(r) ==
  /\ request[r].pc = "locked" /\ request[r].op = "remove"
  /\ member' = [member EXCEPT ![request[r].whom] = NoMember]
  /\ Unlock(r)
  /\ Goto(r, "committed")
  /\ UNCHANGED <<invite, disabled>>

ChangeTriggers(r) ==
  /\ request[r].pc = "new"
  /\ SomeoneIsInCharge
  /\ request' = [request EXCEPT ![r] = [NewRequest EXCEPT !.pc = "guarded", !.op = "triggers"]]
  /\ UNCHANGED <<member, invite, disabled, locks>>

\* The merge is one statement, which waits for a removal's lock.
UpdateTriggers(r, id, on) ==
  /\ request[r].pc = "guarded" /\ request[r].op = "triggers"
  /\ \A held \in locks : held.row # Campaign
  /\ disabled' = IF on THEN disabled \ {id} ELSE disabled \cup {id}
  /\ Goto(r, "committed")
  /\ UNCHANGED <<member, invite, locks>>

-----------------------------------------------------------------------------
(* Properties *)

MembershipTypeOK ==
  /\ member \in [User -> Role \cup {NoMember}]
  /\ invite \in [Invite -> [state : InviteState, role : Role]]
  /\ disabled \subseteq TriggerId
  /\ locks \subseteq [row : Invite \cup {Campaign}, by : Request]
  /\ request \in [Request -> [pc : Step, op : Op, who : User, whom : User, invite : Invite \cup {"none"}]]

\* An invite admits one request: of two that race for the same link one is
\* refused, and a link that admitted somebody stays spent (acceptInvite).
InviteAdmitsOnce ==
  \A i \in Invite :
    LET admitted == {r \in Request : /\ request[r].op = "accept" /\ request[r].invite = i
                                     /\ request[r].pc \in {"committed", "invalidated", "done"}}
    IN /\ Cardinality(admitted) <= 1
       /\ admitted # {} => invite[i].state = "spent"

=============================================================================
