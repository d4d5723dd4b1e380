------------------------ MODULE SessionSocketsProofs ------------------------
(***************************************************************************)
(* Proofs about Membership, ContextCache and SessionSockets, for any       *)
(* users, invites, requests, fills and sockets.                            *)
(***************************************************************************)
EXTENDS SessionSockets, FiniteSetTheorems, SequenceTheorems, WellFoundedInduction, TLAPS

-----------------------------------------------------------------------------
(* The membership: the invariant *)

Admitted(r) == /\ request[r].op = "accept"
               /\ request[r].pc \in {"committed", "invalidated", "done"}
Accepting(r) == request[r].pc = "locked" /\ request[r].op = "accept"

\* The owner is a host, and no removal under way names the owner.
OwnerIsHost ==
  /\ member[Owner] = "host"
  /\ \A r \in Request : (request[r].pc = "locked" /\ request[r].op = "remove") => request[r].whom # Owner

\* A row is locked by one request, and an acceptance under way holds its invite,
\* which nobody has spent.
InvitesAreHeld ==
  /\ \A a, b \in locks : a.row = b.row => a = b
  /\ \A r \in Request :
       /\ request[r].op = "accept" => request[r].invite \in Invite
       /\ Accepting(r) => /\ [row |-> request[r].invite, by |-> r] \in locks
                          /\ invite[request[r].invite].state # "spent"

\* An invite that admitted a request is spent, and admitted no other.
OneIsAdmitted ==
  \A r \in Request : Admitted(r) =>
    /\ invite[request[r].invite].state = "spent"
    /\ \A q \in Request : (Admitted(q) /\ request[q].invite = request[r].invite) => q = r

MembershipInv == MembershipTypeOK /\ OwnerIsHost /\ InvitesAreHeld /\ OneIsAdmitted

\* A step of the membership, or one that leaves it alone.
MembershipStep ==
  \/ \E r \in Request :
       \/ \E u \in User, i \in Invite : AcceptInvite(r, u, i)
       \/ LockInvite(r) \/ RefuseInvite(r) \/ SpendInvite(r)
       \/ \E whom \in User : RemoveMember(r, whom)
       \/ LockCampaign(r) \/ RefuseRemoval(r) \/ DeleteMember(r)
       \/ ChangeTriggers(r)
       \/ \E id \in Switched, on \in BOOLEAN : UpdateTriggers(r, id, on)
       \/ Invalidate(r) \/ Evict(r)
  \/ \E i \in Invite : (\E role \in InviteRole : CreateInvite(i, role)) \/ Expire(i)
  \/ Crash
  \/ UNCHANGED membershipVars

\* Every step is one of the membership, or leaves it alone.
LEMMA NextIsMembershipStep == [Next]_vars => MembershipStep
BY DEF Next, RequestStep, InviteStep, FillStep, SocketStep, MembershipStep, vars

\* Every step of the membership keeps its invariant.
LEMMA MembershipInductive == MembershipInv /\ MembershipStep => MembershipInv'
<1> USE OwnerAssumption, RequestAssumption
<1> SUFFICES ASSUME MembershipInv, MembershipStep PROVE MembershipInv'
  OBVIOUS
<1> USE DEF MembershipInv
<1>1. ASSUME NEW r \in Request, NEW u \in User, NEW i \in Invite, AcceptInvite(r, u, i) PROVE MembershipInv'
  <2>1. MembershipTypeOK'
    BY <1>1 DEF MembershipTypeOK, AcceptInvite, NewRequest, InviteState, Role, HostRole, Step, Op, Campaign, NoMember
  <2>2. OwnerIsHost'
    BY <1>1 DEF OwnerIsHost, MembershipTypeOK, AcceptInvite, NewRequest, NoMember
  <2>3. InvitesAreHeld'
    BY <1>1 DEF InvitesAreHeld, Accepting, MembershipTypeOK, AcceptInvite, NewRequest, Campaign
  <2>4. OneIsAdmitted'
    BY <1>1 DEF OneIsAdmitted, Admitted, InvitesAreHeld, Accepting, MembershipTypeOK, AcceptInvite, NewRequest
  <2> QED BY <2>1, <2>2, <2>3, <2>4
<1>2. ASSUME NEW r \in Request, LockInvite(r) PROVE MembershipInv'
  <2>1. MembershipTypeOK'
    <3>1. request[r].invite \in Invite
      BY <1>2 DEF LockInvite, InvitesAreHeld
    <3>2. request' \in [Request -> [pc : Step, op : Op, who : User, whom : User, invite : Invite \cup {"none"}]]
      BY <1>2 DEF LockInvite, Goto, MembershipTypeOK, Step
    <3>3. locks' \subseteq [row : Invite \cup {Campaign}, by : Request]
      BY <1>2, <3>1 DEF LockInvite, Lock, MembershipTypeOK
    <3> QED BY <1>2, <3>2, <3>3 DEF LockInvite, MembershipTypeOK
  <2>2. OwnerIsHost'
    BY <1>2 DEF OwnerIsHost, MembershipTypeOK, LockInvite, Lock, Goto, NoMember
  <2>3. InvitesAreHeld'
    BY <1>2 DEF InvitesAreHeld, Accepting, MembershipTypeOK, LockInvite, Lock, Goto, Campaign
  <2>4. OneIsAdmitted'
    BY <1>2 DEF OneIsAdmitted, Admitted, InvitesAreHeld, Accepting, MembershipTypeOK, LockInvite, Lock, Goto
  <2> QED BY <2>1, <2>2, <2>3, <2>4
<1>3. ASSUME NEW r \in Request, RefuseInvite(r) PROVE MembershipInv'
  <2>1. MembershipTypeOK'
    BY <1>3 DEF MembershipTypeOK, RefuseInvite, Refuse, Refused, NewRequest, InviteState, Role, HostRole, Step, Op, Campaign, NoMember
  <2>2. OwnerIsHost'
    BY <1>3 DEF OwnerIsHost, MembershipTypeOK, RefuseInvite, Refuse, Refused, NewRequest, NoMember
  <2>3. InvitesAreHeld'
    BY <1>3 DEF InvitesAreHeld, Accepting, MembershipTypeOK, RefuseInvite, Refuse, Refused, NewRequest, Campaign
  <2>4. OneIsAdmitted'
    BY <1>3 DEF OneIsAdmitted, Admitted, InvitesAreHeld, Accepting, MembershipTypeOK, RefuseInvite, Refuse, Refused, NewRequest
  <2> QED BY <2>1, <2>2, <2>3, <2>4
<1>4. ASSUME NEW r \in Request, SpendInvite(r) PROVE MembershipInv'
  <2>1. MembershipTypeOK'
    <3>1. request[r].invite \in Invite /\ request[r].who \in User
      BY <1>4 DEF SpendInvite, InvitesAreHeld, MembershipTypeOK
    <3>2. request' \in [Request -> [pc : Step, op : Op, who : User, whom : User, invite : Invite \cup {"none"}]]
      BY <1>4 DEF SpendInvite, Goto, MembershipTypeOK, Step
    <3>3. locks' \subseteq [row : Invite \cup {Campaign}, by : Request]
      BY <1>4 DEF SpendInvite, Unlock, MembershipTypeOK
    <3>4. member' \in [User -> Role \cup {NoMember}] /\ invite' \in [Invite -> [state : InviteState, role : Role]]
      BY <1>4, <3>1 DEF SpendInvite, MembershipTypeOK, InviteState
    <3> QED BY <1>4, <3>2, <3>3, <3>4 DEF SpendInvite, MembershipTypeOK
  <2>2. OwnerIsHost'
    BY <1>4 DEF OwnerIsHost, MembershipTypeOK, SpendInvite, Unlock, Goto, NoMember
  <2>3. InvitesAreHeld'
    BY <1>4 DEF InvitesAreHeld, Accepting, MembershipTypeOK, SpendInvite, Unlock, Goto, Campaign
  <2>4. OneIsAdmitted'
    <3>1. Accepting(r) /\ request[r].invite \in Invite /\ invite[request[r].invite].state # "spent"
      BY <1>4 DEF SpendInvite, Accepting, InvitesAreHeld
    <3>2. \A q \in Request : Admitted(q) => request[q].invite # request[r].invite
      BY <3>1 DEF OneIsAdmitted
    <3>3. \A q \in Request : /\ request'[q].invite = request[q].invite
                             /\ Admitted(q)' => Admitted(q) \/ q = r
      BY <1>4 DEF SpendInvite, Goto, Admitted, MembershipTypeOK
    <3>4. \A i \in Invite : invite'[i].state = IF i = request[r].invite THEN "spent" ELSE invite[i].state
      BY <1>4, <3>1 DEF SpendInvite, MembershipTypeOK
    <3>5. \A q \in Request : Admitted(q) => request[q].invite \in Invite
      BY DEF Admitted, InvitesAreHeld
    <3> QED BY <3>1, <3>2, <3>3, <3>4, <3>5 DEF OneIsAdmitted
  <2> QED BY <2>1, <2>2, <2>3, <2>4
<1>5. ASSUME NEW r \in Request, NEW whom \in User, RemoveMember(r, whom) PROVE MembershipInv'
  <2>1. MembershipTypeOK'
    BY <1>5 DEF MembershipTypeOK, RemoveMember, NewRequest, InviteState, Role, HostRole, Step, Op, Campaign, NoMember
  <2>2. OwnerIsHost'
    BY <1>5 DEF OwnerIsHost, MembershipTypeOK, RemoveMember, NewRequest, NoMember
  <2>3. InvitesAreHeld'
    BY <1>5 DEF InvitesAreHeld, Accepting, MembershipTypeOK, RemoveMember, NewRequest, Campaign
  <2>4. OneIsAdmitted'
    BY <1>5 DEF OneIsAdmitted, Admitted, InvitesAreHeld, Accepting, MembershipTypeOK, RemoveMember, NewRequest
  <2> QED BY <2>1, <2>2, <2>3, <2>4
<1>6. ASSUME NEW r \in Request, LockCampaign(r) PROVE MembershipInv'
  <2>1. MembershipTypeOK'
    BY <1>6 DEF MembershipTypeOK, LockCampaign, Lock, Goto, InviteState, Role, HostRole, Step, Op, Campaign, NoMember
  <2>2. OwnerIsHost'
    BY <1>6 DEF OwnerIsHost, MembershipTypeOK, LockCampaign, Lock, Goto, NoMember
  <2>3. InvitesAreHeld'
    BY <1>6 DEF InvitesAreHeld, Accepting, MembershipTypeOK, LockCampaign, Lock, Goto, Campaign
  <2>4. OneIsAdmitted'
    BY <1>6 DEF OneIsAdmitted, Admitted, InvitesAreHeld, Accepting, MembershipTypeOK, LockCampaign, Lock, Goto
  <2> QED BY <2>1, <2>2, <2>3, <2>4
<1>7. ASSUME NEW r \in Request, RefuseRemoval(r) PROVE MembershipInv'
  <2>1. MembershipTypeOK'
    BY <1>7 DEF MembershipTypeOK, RefuseRemoval, Refuse, Refused, NewRequest, InviteState, Role, HostRole, Step, Op, Campaign, NoMember
  <2>2. OwnerIsHost'
    BY <1>7 DEF OwnerIsHost, MembershipTypeOK, RefuseRemoval, Refuse, Refused, NewRequest, NoMember
  <2>3. InvitesAreHeld'
    BY <1>7 DEF InvitesAreHeld, Accepting, MembershipTypeOK, RefuseRemoval, Refuse, Refused, NewRequest, Campaign
  <2>4. OneIsAdmitted'
    BY <1>7 DEF OneIsAdmitted, Admitted, InvitesAreHeld, Accepting, MembershipTypeOK, RefuseRemoval, Refuse, Refused, NewRequest
  <2> QED BY <2>1, <2>2, <2>3, <2>4
<1>8. ASSUME NEW r \in Request, DeleteMember(r) PROVE MembershipInv'
  <2>1. MembershipTypeOK'
    BY <1>8 DEF MembershipTypeOK, DeleteMember, Unlock, Goto, InviteState, Role, HostRole, Step, Op, Campaign, NoMember
  <2>2. OwnerIsHost'
    BY <1>8 DEF OwnerIsHost, MembershipTypeOK, DeleteMember, Unlock, Goto, NoMember
  <2>3. InvitesAreHeld'
    BY <1>8 DEF InvitesAreHeld, Accepting, MembershipTypeOK, DeleteMember, Unlock, Goto, Campaign
  <2>4. OneIsAdmitted'
    BY <1>8 DEF OneIsAdmitted, Admitted, InvitesAreHeld, Accepting, MembershipTypeOK, DeleteMember, Unlock, Goto
  <2> QED BY <2>1, <2>2, <2>3, <2>4
<1>9. ASSUME NEW r \in Request, ChangeTriggers(r) PROVE MembershipInv'
  <2>1. MembershipTypeOK'
    BY <1>9 DEF MembershipTypeOK, ChangeTriggers, NewRequest, InviteState, Role, HostRole, Step, Op, Campaign, NoMember
  <2>2. OwnerIsHost'
    BY <1>9 DEF OwnerIsHost, MembershipTypeOK, ChangeTriggers, NewRequest, NoMember
  <2>3. InvitesAreHeld'
    BY <1>9 DEF InvitesAreHeld, Accepting, MembershipTypeOK, ChangeTriggers, NewRequest, Campaign
  <2>4. OneIsAdmitted'
    BY <1>9 DEF OneIsAdmitted, Admitted, InvitesAreHeld, Accepting, MembershipTypeOK, ChangeTriggers, NewRequest
  <2> QED BY <2>1, <2>2, <2>3, <2>4
<1>10. ASSUME NEW r \in Request, NEW id \in Switched, NEW on \in BOOLEAN, UpdateTriggers(r, id, on) PROVE MembershipInv'
  <2>1. MembershipTypeOK'
    BY <1>10 DEF MembershipTypeOK, UpdateTriggers, Goto, InviteState, Role, HostRole, Step, Op, Campaign, NoMember
  <2>2. OwnerIsHost'
    BY <1>10 DEF OwnerIsHost, MembershipTypeOK, UpdateTriggers, Goto, NoMember
  <2>3. InvitesAreHeld'
    BY <1>10 DEF InvitesAreHeld, Accepting, MembershipTypeOK, UpdateTriggers, Goto, Campaign
  <2>4. OneIsAdmitted'
    BY <1>10 DEF OneIsAdmitted, Admitted, InvitesAreHeld, Accepting, MembershipTypeOK, UpdateTriggers, Goto
  <2> QED BY <2>1, <2>2, <2>3, <2>4
<1>11. ASSUME NEW r \in Request, Invalidate(r) PROVE MembershipInv'
  <2>1. /\ request[r].pc = "committed"
        /\ UNCHANGED <<member, invite, disabled, locks>>
        /\ request' = [request EXCEPT ![r] = IF request[r].op = "remove"
                                             THEN [request[r] EXCEPT !.pc = "invalidated"]
                                             ELSE Done(request[r])]
    BY <1>11 DEF Invalidate, Goto, Finish, MembershipTypeOK
  <2>2. MembershipTypeOK'
    BY <2>1 DEF MembershipTypeOK, Done, NewRequest, Step, Op
  <2>3. OwnerIsHost'
    BY <2>1 DEF OwnerIsHost, MembershipTypeOK, Done, NewRequest
  <2>4. \A q \in Request : /\ request'[q].op \in {request[q].op, "none"}
                           /\ request'[q].op = "accept" => request'[q].invite = request[q].invite
                           /\ Accepting(q)' => Accepting(q)
                           /\ Admitted(q)' => Admitted(q)
    BY <2>1 DEF Done, NewRequest, Accepting, Admitted, MembershipTypeOK
  <2>5. InvitesAreHeld'
    BY <2>1, <2>4 DEF InvitesAreHeld, Accepting, Admitted
  <2>6. OneIsAdmitted'
    <3> SUFFICES ASSUME NEW q \in Request, Admitted(q)'
                 PROVE  /\ invite[request'[q].invite].state = "spent"
                        /\ \A p \in Request :
                             (Admitted(p)' /\ request'[p].invite = request'[q].invite) => p = q
      BY <2>1 DEF OneIsAdmitted
    <3>1. \A p \in Request : Admitted(p)' => Admitted(p) /\ request'[p].invite = request[p].invite
      BY <2>4 DEF Admitted
    <3> QED BY <3>1 DEF OneIsAdmitted
  <2> QED BY <2>2, <2>3, <2>5, <2>6
<1>12. ASSUME NEW r \in Request, Evict(r) PROVE MembershipInv'
  <2>1. MembershipTypeOK'
    BY <1>12 DEF MembershipTypeOK, Evict, Finish, Done, NewRequest, InviteState, Role, HostRole, Step, Op, Campaign, NoMember
  <2>2. OwnerIsHost'
    BY <1>12 DEF OwnerIsHost, MembershipTypeOK, Evict, Finish, Done, NewRequest, NoMember
  <2>3. InvitesAreHeld'
    BY <1>12 DEF InvitesAreHeld, Accepting, MembershipTypeOK, Evict, Finish, Done, NewRequest, Campaign
  <2>4. OneIsAdmitted'
    BY <1>12 DEF OneIsAdmitted, Admitted, InvitesAreHeld, Accepting, MembershipTypeOK, Evict, Finish, Done, NewRequest
  <2> QED BY <2>1, <2>2, <2>3, <2>4
<1>13. ASSUME NEW i \in Invite, NEW role \in InviteRole, CreateInvite(i, role) PROVE MembershipInv'
  <2>1. MembershipTypeOK'
    BY <1>13 DEF MembershipTypeOK, CreateInvite, InviteState, Role, HostRole, Step, Op, Campaign, NoMember
  <2>2. OwnerIsHost'
    BY <1>13 DEF OwnerIsHost, MembershipTypeOK, CreateInvite, NoMember
  <2>3. InvitesAreHeld'
    BY <1>13 DEF InvitesAreHeld, Accepting, MembershipTypeOK, CreateInvite, Campaign
  <2>4. OneIsAdmitted'
    BY <1>13 DEF OneIsAdmitted, Admitted, InvitesAreHeld, Accepting, MembershipTypeOK, CreateInvite
  <2> QED BY <2>1, <2>2, <2>3, <2>4
<1>14. ASSUME NEW i \in Invite, Expire(i) PROVE MembershipInv'
  <2>1. MembershipTypeOK'
    BY <1>14 DEF MembershipTypeOK, Expire, InviteState, Role, HostRole, Step, Op, Campaign, NoMember
  <2>2. OwnerIsHost'
    BY <1>14 DEF OwnerIsHost, MembershipTypeOK, Expire, NoMember
  <2>3. InvitesAreHeld'
    BY <1>14 DEF InvitesAreHeld, Accepting, MembershipTypeOK, Expire, Campaign
  <2>4. OneIsAdmitted'
    BY <1>14 DEF OneIsAdmitted, Admitted, InvitesAreHeld, Accepting, MembershipTypeOK, Expire
  <2> QED BY <2>1, <2>2, <2>3, <2>4
<1>15. CASE Crash
  <2>1. MembershipTypeOK'
    BY <1>15 DEF MembershipTypeOK, Crash, Refused, Done, NewRequest, InviteState, Role, HostRole, Step, Op, Campaign, NoMember
  <2>2. OwnerIsHost'
    BY <1>15 DEF OwnerIsHost, MembershipTypeOK, Crash, Refused, Done, NewRequest, NoMember
  <2>3. InvitesAreHeld'
    BY <1>15 DEF InvitesAreHeld, Accepting, MembershipTypeOK, Crash, Refused, Done, NewRequest, Campaign
  <2>4. OneIsAdmitted'
    <3>1. \A q \in Request : Admitted(q)' => Admitted(q) /\ request'[q].invite = request[q].invite
      BY <1>15 DEF Crash, Refused, Done, NewRequest, Admitted, MembershipTypeOK
    <3> QED BY <1>15, <3>1 DEF OneIsAdmitted, Crash
  <2> QED BY <2>1, <2>2, <2>3, <2>4
<1>16. CASE UNCHANGED membershipVars
  <2>1. MembershipTypeOK'
    BY <1>16 DEF MembershipTypeOK, membershipVars, InviteState, Role, HostRole, Step, Op, Campaign, NoMember
  <2>2. OwnerIsHost'
    BY <1>16 DEF OwnerIsHost, MembershipTypeOK, membershipVars, NoMember
  <2>3. InvitesAreHeld'
    BY <1>16 DEF InvitesAreHeld, Accepting, MembershipTypeOK, membershipVars, Campaign
  <2>4. OneIsAdmitted'
    BY <1>16 DEF OneIsAdmitted, Admitted, InvitesAreHeld, Accepting, MembershipTypeOK, membershipVars
  <2> QED BY <2>1, <2>2, <2>3, <2>4
<1> QED
  BY <1>1, <1>2, <1>3, <1>4, <1>5, <1>6, <1>7, <1>8, <1>9, <1>10, <1>11, <1>12, <1>13, <1>14, <1>15, <1>16 DEF MembershipStep

\* create leaves an owner in charge and nobody at the door.
LEMMA MembershipInitially == MembershipInit => MembershipInv
<1> USE OwnerAssumption, RequestAssumption
<1> SUFFICES ASSUME MembershipInit PROVE MembershipInv
  OBVIOUS
<1>1. MembershipTypeOK
  BY DEF MembershipInit, MembershipTypeOK, NewInvite, NewRequest, InviteState, Role, HostRole, Step, Op
<1>2. OwnerIsHost /\ InvitesAreHeld /\ OneIsAdmitted
  BY DEF MembershipInit, OwnerIsHost, InvitesAreHeld, OneIsAdmitted, Accepting, Admitted, NewRequest
<1> QED BY <1>1, <1>2 DEF MembershipInv

\* The membership keeps its invariant whatever the cache, the sockets and the
\* crashes do.
THEOREM MembershipInvariant == Spec => []MembershipInv
<1>1. Init => MembershipInv
  BY MembershipInitially DEF Init
<1>2. MembershipInv /\ [Next]_vars => MembershipInv'
  BY MembershipInductive, NextIsMembershipStep
<1> QED
  BY <1>1, <1>2, PTL DEF Spec

\* There is a host at every moment, the owner if nobody else: no order of
\* removals and acceptances takes the campaign away from it (removeMember).
THEOREM AlwaysInCharge == Spec => []SomeoneIsInCharge
<1>1. MembershipInv => SomeoneIsInCharge
  BY OwnerAssumption DEF MembershipInv, OwnerIsHost, SomeoneIsInCharge, IsHost, HostRole
<1> QED
  BY <1>1, MembershipInvariant, PTL

\* However many requests race for an invite, and whatever crashes, one of them
\* is admitted at most, and the invite is spent by then (acceptInvite).
THEOREM InvitesAdmitOnce == Spec => []InviteAdmitsOnce
<1>1. MembershipInv => InviteAdmitsOnce
  <2> SUFFICES ASSUME MembershipInv, NEW i \in Invite
               PROVE  LET admitted == {r \in Request : Admitted(r) /\ request[r].invite = i}
                      IN Cardinality(admitted) <= 1 /\ (admitted # {} => invite[i].state = "spent")
    BY DEF InviteAdmitsOnce, Admitted
  <2> DEFINE admitted == {r \in Request : Admitted(r) /\ request[r].invite = i}
  <2>1. admitted # {} => invite[i].state = "spent"
    BY DEF MembershipInv, OneIsAdmitted
  <2>2. admitted = {} \/ \E r : admitted = {r}
    BY DEF MembershipInv, OneIsAdmitted
  <2>3. Cardinality(admitted) \in {0, 1}
    BY <2>2, FS_EmptySet, FS_Singleton
  <2> QED BY <2>1, <2>3
<1> QED
  BY <1>1, MembershipInvariant, PTL

-----------------------------------------------------------------------------
(* The sockets against the removals *)

SocketTypeOK ==
  /\ socket \in [Socket -> [pc : {"new", "authenticated", "joined", "live", "closed"}, user : User]]
  /\ crashes \in 0..MaxCrashes

SocketInv == SocketTypeOK /\ LiveSocketsAreMembers

\* Every step keeps live sockets to members and to those whose removal has
\* still to evict them.
LEMMA SocketInductive == MembershipInv /\ SocketInv /\ [Next]_vars => SocketInv'
<1> USE OwnerAssumption, RequestAssumption, CrashAssumption DEF SocketInv
<1> SUFFICES ASSUME MembershipInv, SocketInv, [Next]_vars PROVE SocketInv'
  OBVIOUS
<1>1. MembershipTypeOK
  BY DEF MembershipInv
<1>2. CASE UNCHANGED vars
  BY <1>2 DEF vars, membershipVars, socketVars, SocketTypeOK, LiveSocketsAreMembers
<1>3. CASE \E i \in Invite : InviteStep(i)
  BY <1>3 DEF InviteStep, CreateInvite, Expire, socketVars, SocketTypeOK, LiveSocketsAreMembers
<1>4. CASE \E f \in Fill : FillStep(f)
  BY <1>4 DEF FillStep, membershipVars, socketVars, SocketTypeOK, LiveSocketsAreMembers
<1>5. CASE Crash
  BY <1>5 DEF Crash, Closed, SocketTypeOK, LiveSocketsAreMembers
<1>6. ASSUME NEW s \in Socket, SocketStep(s) PROVE SocketInv'
  <2>1. SocketTypeOK'
    BY <1>6 DEF SocketStep, Authenticate, Join, ReadMembership, Leave, Closed, SocketTypeOK
  <2>2. \A t \in Socket : socket'[t].pc = "live" =>
          (socket[t].pc = "live" /\ socket'[t].user = socket[t].user) \/ member[socket'[t].user] # NoMember
    BY <1>6 DEF SocketStep, Authenticate, Join, ReadMembership, Leave, Closed, SocketTypeOK
  <2>3. UNCHANGED membershipVars
    BY <1>6 DEF SocketStep
  <2> QED BY <2>1, <2>2, <2>3 DEF LiveSocketsAreMembers, membershipVars
<1>7. ASSUME NEW r \in Request, RequestStep(r) PROVE SocketInv'
  <2> DEFINE Removing(q, u) == /\ request[q].op = "remove" /\ request[q].whom = u
                               /\ request[q].pc \in {"committed", "invalidated"}
  \* What a step may do to a socket, to a member and to a removal under way.
  <2>1. CASE Evict(r)
    <3>1. \A u \in User, q \in Request : Removing(q, u) => q = r \/ Removing(q, u)'
      BY <2>1, <1>1 DEF Evict, Finish, MembershipTypeOK
    <3>2. \A s \in Socket : socket'[s].pc = "live" =>
            socket'[s] = socket[s] /\ socket[s].user # request[r].whom
      BY <2>1 DEF Evict, Closed
    <3>3. SocketTypeOK'
      BY <2>1 DEF Evict, Closed, SocketTypeOK
    <3> QED BY <2>1, <3>1, <3>2, <3>3 DEF LiveSocketsAreMembers, SocketTypeOK, Evict
  <2>2. CASE ~Evict(r)
    <3>1. UNCHANGED socketVars
      BY <1>7, <2>2 DEF RequestStep
    <3>2. \A u \in User, q \in Request : Removing(q, u) => Removing(q, u)'
      <4>1. \A q \in Request \ {r} : request'[q] = request[q]
        BY <1>1, <1>7, <2>2 DEF RequestStep, MembershipTypeOK, AcceptInvite, LockInvite, RefuseInvite, SpendInvite,
           RemoveMember, LockCampaign, RefuseRemoval, DeleteMember, ChangeTriggers, UpdateTriggers, Invalidate,
           Goto, Refuse, Finish
      <4>2. request[r].pc \in {"committed", "invalidated"} => Invalidate(r)
        BY <1>7, <2>2 DEF RequestStep, AcceptInvite, LockInvite, RefuseInvite, SpendInvite,
           RemoveMember, LockCampaign, RefuseRemoval, DeleteMember, ChangeTriggers, UpdateTriggers
      <4>3. ASSUME NEW u \in User, Removing(r, u), Invalidate(r) PROVE Removing(r, u)'
        BY <1>1, <4>3 DEF Invalidate, Goto, MembershipTypeOK
      <4> QED BY <4>1, <4>2, <4>3
    <3>3. \A u \in User : member'[u] = NoMember => member[u] = NoMember \/ \E q \in Request : Removing(q, u)'
      <4>1. CASE DeleteMember(r)
        BY <1>1, <4>1 DEF DeleteMember, Goto, MembershipTypeOK
      <4>2. CASE SpendInvite(r)
        BY <1>1, <4>2 DEF SpendInvite, MembershipTypeOK, MembershipInv, InvitesAreHeld, Role, HostRole, NoMember
      <4>3. CASE ~DeleteMember(r) /\ ~SpendInvite(r)
        BY <1>7, <2>2, <4>3 DEF RequestStep, AcceptInvite, LockInvite, RefuseInvite,
         RemoveMember, LockCampaign, RefuseRemoval, ChangeTriggers, UpdateTriggers, Invalidate
      <4> QED BY <4>1, <4>2, <4>3
    <3> QED BY <3>1, <3>2, <3>3 DEF LiveSocketsAreMembers, SocketTypeOK, socketVars
  <2> QED BY <2>1, <2>2
<1> QED
  BY <1>2, <1>3, <1>4, <1>5, <1>6, <1>7 DEF Next

\* The sockets keep their invariant.
THEOREM SocketInvariant == Spec => []SocketInv
<1>1. Init => SocketInv
  BY OwnerAssumption, CrashAssumption DEF Init, NewSocket, SocketInv, SocketTypeOK, LiveSocketsAreMembers
<1> QED
  BY <1>1, SocketInductive, MembershipInvariant, PTL DEF Spec

\* Nobody keeps playing after a removal, however the handshake, the removal,
\* its eviction and crashes interleave (handleConnection, evict).
THEOREM RemovedMembersLeave == Spec => []LiveSocketsAreMembers
<1>1. SocketInv => LiveSocketsAreMembers
  BY DEF SocketInv
<1> QED
  BY <1>1, SocketInvariant, PTL

-----------------------------------------------------------------------------
(* The roster *)

\* Induction over the numbers, for a set of them.
LEMMA NumberInduction ==
  ASSUME NEW S, 0 \in S, \A n \in Nat : n \in S => n + 1 \in S
  PROVE  \A n \in Nat : n \in S
<1> DEFINE R == {ss \in Nat \X Nat : ss[1] < ss[2]}
<1> DEFINE T == Nat \ S
<1>1. IsWellFoundedOn(R, Nat)
  BY NatLessThanWellFounded DEF OpToRel
<1> SUFFICES ASSUME T # {} PROVE FALSE
  OBVIOUS
<1>2. PICK x \in T : \A y \in T : <<y, x>> \notin R
  <2>1. T \subseteq Nat
    OBVIOUS
  <2> HIDE DEF R, T
  <2> QED BY <1>1, <2>1, WFMin
<1>3. x \in Nat /\ x # 0
  OBVIOUS
<1>4. x - 1 \in Nat /\ x - 1 < x /\ (x - 1) + 1 = x
  BY <1>3
<1>5. x - 1 \in T => <<x - 1, x>> \in R
  BY <1>3, <1>4
<1>6. x - 1 \in S
  BY <1>2, <1>4, <1>5
<1> QED BY <1>4, <1>6

\* The rosters of the first members, one after the other.
Built(members, built, k) ==
  built = [n \in 0..k |-> IF n = 0 THEN <<>> ELSE Seat(members[n], built[n - 1])]

\* There is such a sequence of rosters: every member is seated in the one before.
LEMMA BuiltExists == \A members : \A k \in Nat : \E built : Built(members, built, k)
<1> SUFFICES ASSUME NEW members PROVE \A k \in Nat : \E built : Built(members, built, k)
  OBVIOUS
<1> DEFINE S == {k \in Nat : \E built : Built(members, built, k)}
<1>1. 0 \in S
  <2> DEFINE b == [n \in 0..0 |-> <<>>]
  <2>1. Built(members, b, 0)
    BY DEF Built
  <2> HIDE DEF b
  <2> QED BY <2>1
<1>2. ASSUME NEW k \in Nat, k \in S PROVE k + 1 \in S
  <2>1. PICK f : Built(members, f, k)
    BY <1>2
  <2> DEFINE g == [n \in 0..(k + 1) |-> IF n = k + 1 THEN Seat(members[k + 1], f[k]) ELSE f[n]]
  <2>2. ASSUME NEW n \in 0..(k + 1)
        PROVE  g[n] = IF n = 0 THEN <<>> ELSE Seat(members[n], g[n - 1])
    <3>1. CASE n = k + 1
      BY <3>1
    <3>2. CASE n # k + 1
      <4>1. n \in 0..k /\ (n # 0 => n - 1 \in 0..k /\ n - 1 # k + 1 /\ n - 1 \in 0..(k + 1))
        BY <3>2
      <4>2. f[n] = IF n = 0 THEN <<>> ELSE Seat(members[n], f[n - 1])
        BY <2>1, <4>1 DEF Built
      <4>3. g[n] = f[n] /\ (n # 0 => g[n - 1] = f[n - 1])
        BY <3>2, <4>1
      <4> QED BY <4>2, <4>3
    <3> QED BY <3>1, <3>2
  <2>3. g = [n \in 0..(k + 1) |-> IF n = 0 THEN <<>> ELSE Seat(members[n], g[n - 1])]
    BY <2>2
  <2>4. Built(members, g, k + 1)
    BY <2>3 DEF Built
  <2> HIDE DEF g
  <2> QED BY <2>4
<1>3. \A k \in Nat : k \in S
  <2> HIDE DEF S
  <2> QED BY <1>1, <1>2, NumberInduction
<1> QED BY <1>3

\* The roster of the members is the last of them.
LEMMA RosterIsBuilt ==
  ASSUME NEW members, Len(members) \in Nat
  PROVE  \E built : Built(members, built, Len(members)) /\ BuildRoster(members) = built[Len(members)]
<1> DEFINE f == CHOOSE built : built = [n \in 0..Len(members) |->
                                         IF n = 0 THEN <<>> ELSE Seat(members[n], built[n - 1])]
<1>1. BuildRoster(members) = f[Len(members)]
  BY DEF BuildRoster
<1>2. Built(members, f, Len(members))
  BY BuiltExists DEF Built
<1> QED BY <1>1, <1>2

\* A roster of these users, each under a handle of the user's own.
Seated(roster, us) ==
  /\ roster = [u \in us |-> roster[u]]
  /\ \A u \in us : roster[u] \in Range(Candidates(u))

\* The handle that ends in the member's id: the one that is taken unchecked.
FullId(u) == Candidates(u)[3]

\* No handle is reserved, and no two are the same, but for a full id.
Apart(roster, us) ==
  \A u \in us :
    /\ roster[u] \in RESERVED_HANDLES => roster[u] = FullId(u)
    /\ \A v \in us \ {u} : roster[u] = roster[v] => roster[u] \in {FullId(u), FullId(v)}

\* The handles of a member.
LEMMA CandidateRange == \A u : Range(Candidates(u)) = {Candidates(u)[1], Candidates(u)[2], Candidates(u)[3]}
<1> SUFFICES ASSUME NEW u PROVE Range(Candidates(u)) = {Candidates(u)[1], Candidates(u)[2], Candidates(u)[3]}
  OBVIOUS
<1> DEFINE c == Candidates(u)
<1>1. DOMAIN c = {1, 2, 3}
  BY DEF Candidates
<1> HIDE DEF c
<1>2. Range(c) = {c[1], c[2], c[3]}
  BY <1>1 DEF Range
<1> QED BY <1>2 DEF c

\* Seating one more member keeps a roster a roster, and its handles apart.
LEMMA SeatKeepsHandles ==
  ASSUME NEW us \in SUBSET User, NEW u \in User, NEW roster, Seated(roster, us)
  PROVE  /\ Seated(Seat(u, roster), us \cup {u})
         /\ Apart(roster, us) => Apart(Seat(u, roster), us \cup {u})
<1> DEFINE new == Seat(u, roster)
           h == Handle(u, roster)
<1>1. DOMAIN roster = us
  BY DEF Seated
<1>2. /\ new = [v \in us \cup {u} |-> new[v]] /\ new[u] = h
      /\ \A v \in us \ {u} : new[v] = roster[v]
  BY <1>1 DEF Seat
<1>3. h \in Range(Candidates(u)) /\ (Free(h, roster) \/ h = FullId(u))
  BY CandidateRange DEF Handle, FullId
<1>4. Seated(new, us \cup {u})
  BY <1>2, <1>3 DEF Seated
<1>5. ASSUME Apart(roster, us) PROVE Apart(new, us \cup {u})
  <2>1. h = FullId(u) \/ (h \notin RESERVED_HANDLES /\ \A v \in us \ {u} : roster[v] # h)
    BY <1>1, <1>3 DEF Free
  <2> HIDE DEF new, h
  <2> QED BY <1>2, <1>5, <2>1 DEF Apart
<1> QED BY <1>4, <1>5

\* Whatever order the query returns the members in, the roster is theirs, and
\* only a full id can be shared.
LEMMA RosterOfMembers ==
  ASSUME NEW us \in SUBSET User, NEW order \in SetToSeqs(us)
  PROVE  /\ Seated(BuildRoster(order), us)
         /\ Apart(BuildRoster(order), us)
<1> DEFINE L == Cardinality(us)
           First(k) == {order[i] : i \in 1..k}
<1>1. IsFiniteSet(us) /\ L \in Nat
  BY UserAssumption, FS_Subset, FS_CardinalityType
<1>2. order \in [1..L -> us] /\ \A i, j \in 1..L : i # j => order[i] # order[j]
  BY DEF SetToSeqs
<1>3. First(L) = us
  <2>1. order \in Injection(1..L, us)
    BY <1>2 DEF Injection, IsInjective
  <2>2. Cardinality(1..L) = L
    BY <1>1, FS_Interval
  <2>3. order \in Surjection(1..L, us)
    BY <1>1, <2>1, <2>2, FS_Injection
  <2> QED BY <1>2, <2>3 DEF Surjection
<1>4. Len(order) = L
  BY <1>1, <1>2
<1>5. PICK built : Built(order, built, L) /\ BuildRoster(order) = built[L]
  <2> HIDE DEF L
  <2> QED BY <1>1, <1>4, RosterIsBuilt
<1> DEFINE Good(k) == /\ Seated(built[k], First(k))
                      /\ Apart(built[k], First(k))
           S == {k \in Nat : k <= L => Good(k)}
<1>6. 0 \in S
  <2>1. built[0] = <<>> /\ First(0) = {}
    BY <1>1, <1>5 DEF Built
  <2> HIDE DEF First
  <2>2. Seated(built[0], First(0))
    BY <2>1 DEF Seated
  <2>3. Apart(built[0], First(0))
    BY <2>1 DEF Apart
  <2> QED BY <2>2, <2>3
<1>7. ASSUME NEW k \in Nat, k \in S PROVE k + 1 \in S
  <2> SUFFICES ASSUME k + 1 <= L PROVE Good(k + 1)
    OBVIOUS
  <2>1. k <= L /\ k + 1 \in 1..L /\ k + 1 \in 0..L /\ k + 1 # 0 /\ (k + 1) - 1 = k
    BY <1>1
  <2>2. Good(k)
    BY <1>7, <2>1
  <2>3. built[k + 1] = Seat(order[k + 1], built[k])
    BY <1>5, <2>1 DEF Built
  <2>4. First(k + 1) = First(k) \cup {order[k + 1]}
    BY <1>1, <2>1
  <2>5. First(k) \in SUBSET User /\ order[k + 1] \in User
    BY <1>1, <1>2, <2>1
  <2> HIDE DEF First
  <2> QED BY <2>2, <2>3, <2>4, <2>5, SeatKeepsHandles
<1>8. Good(L)
  <2>1. \A k \in Nat : k \in S
    <3> HIDE DEF S
    <3> QED BY <1>6, <1>7, NumberInduction
  <2> HIDE DEF Good, L
  <2> QED BY <1>1, <2>1
<1> HIDE DEF First
<1> QED BY <1>3, <1>5, <1>8

-----------------------------------------------------------------------------
(* The cache *)

Rosters == UNION {[us -> Handles] : us \in SUBSET User}
FillPc == {"new", "settings", "members", "done"}

CacheForm ==
  /\ cache \in [held : BOOLEAN, registry : SUBSET TriggerId, roster : Rosters, late : BOOLEAN]
  /\ fill \in [Fill -> [pc : FillPc, registry : SUBSET TriggerId, roster : Rosters, late : BOOLEAN]]

\* The cache and the fills on their way hold rosters that were built.
BuiltApart(roster) == Apart(roster, DOMAIN roster)
RostersAreApart == BuiltApart(cache.roster) /\ \A f \in Fill : BuiltApart(fill[f].roster)

CacheInv == CacheForm /\ RostersAreApart

\* The empty roster, and the roster of any members, is a roster.
LEMMA EmptyRoster == <<>> \in Rosters /\ BuiltApart(<<>>)
<1>1. <<>> \in [{} -> Handles] /\ DOMAIN <<>> = {}
  OBVIOUS
<1>2. <<>> \in Rosters
  BY <1>1 DEF Rosters
<1> QED BY <1>1, <1>2 DEF BuiltApart, Apart

LEMMA BuiltRoster ==
  ASSUME NEW us \in SUBSET User, NEW order \in SetToSeqs(us)
  PROVE  /\ BuildRoster(order) \in Rosters
         /\ DOMAIN BuildRoster(order) = us
         /\ BuiltApart(BuildRoster(order))
<1> DEFINE roster == BuildRoster(order)
<1>1. Seated(roster, us) /\ Apart(roster, us)
  BY RosterOfMembers
<1> HIDE DEF roster
<1>2. DOMAIN roster = us
  BY <1>1 DEF Seated
<1>3. \A u \in us : roster[u] \in Handles
  BY <1>1 DEF Seated, Handles
<1>4. roster \in [us -> Handles]
  BY <1>1, <1>3 DEF Seated
<1>5. roster \in Rosters
  BY <1>4 DEF Rosters
<1> QED BY <1>1, <1>2, <1>5 DEF BuiltApart, roster

\* Emptying the cache leaves the fills their rosters.
LEMMA DropKeepsCache == CacheInv /\ DropContext => CacheInv'
<1> SUFFICES ASSUME CacheInv, DropContext PROVE CacheInv'
  OBVIOUS
<1> USE DEF CacheInv
<1>1. CacheForm'
  BY EmptyRoster DEF DropContext, NoContext, CacheForm
<1>2. cache'.roster = <<>> /\ \A f \in Fill : fill'[f].roster = fill[f].roster
  BY DEF DropContext, NoContext, CacheForm
<1>3. RostersAreApart'
  BY <1>2, EmptyRoster DEF RostersAreApart, BuiltApart
<1> QED BY <1>1, <1>3

\* A fill holds nothing, or the roster of some order of the members.
LEMMA FillKeepsCache ==
  ASSUME CacheInv, NEW f \in Fill, FillStep(f)
  PROVE  CacheInv'
<1> USE DEF CacheInv
<1>1. \A g \in Fill \ {f} : fill'[g] = fill[g]
  BY DEF FillStep, ReadSettings, ReadMembers, StoreContext, CacheForm
<1>2. CASE ReadSettings(f)
  <2>1. fill' = [fill EXCEPT ![f] = [fill[f] EXCEPT !.pc = "settings", !.registry = ResolveRegistry(disabled)]]
    BY <1>2 DEF ReadSettings, CacheForm
  <2>2. CacheForm' /\ UNCHANGED cache /\ fill'[f].roster = fill[f].roster
    BY <1>2, <2>1 DEF ReadSettings, CacheForm, FillPc, ResolveRegistry
  <2>3. RostersAreApart'
    BY <1>1, <2>2 DEF RostersAreApart
  <2> QED BY <2>2, <2>3
<1>3. CASE ReadMembers(f)
  <2>1. PICK order \in SetToSeqs(Members) :
           fill' = [fill EXCEPT ![f].pc = "members", ![f].roster = BuildRoster(order)]
    BY <1>3 DEF ReadMembers
  <2> DEFINE roster == BuildRoster(order)
  <2>2. roster \in Rosters /\ BuiltApart(roster)
    BY BuiltRoster DEF Members
  <2> HIDE DEF roster
  <2>3. fill' = [fill EXCEPT ![f] = [fill[f] EXCEPT !.pc = "members", !.roster = roster]]
    BY <2>1 DEF CacheForm, roster
  <2>4. CacheForm' /\ UNCHANGED cache /\ fill'[f].roster = roster
    BY <1>3, <2>2, <2>3 DEF ReadMembers, CacheForm, FillPc
  <2>5. RostersAreApart'
    BY <1>1, <2>2, <2>4 DEF RostersAreApart
  <2> QED BY <2>4, <2>5
<1>4. CASE StoreContext(f)
  <2>1. CacheForm'
    BY <1>4, EmptyRoster DEF StoreContext, CacheForm, NewFill, FillPc
  <2>2. fill'[f].roster = <<>> /\ cache'.roster = fill[f].roster
    BY <1>4 DEF StoreContext, CacheForm, NewFill
  <2>3. RostersAreApart'
    BY <1>1, <2>2, EmptyRoster DEF RostersAreApart
  <2> QED BY <2>1, <2>3
<1> QED BY <1>2, <1>3, <1>4 DEF FillStep

\* Every step keeps the rosters that are held.
LEMMA CacheInductive == CacheInv /\ [Next]_vars => CacheInv'
<1> SUFFICES ASSUME CacheInv, [Next]_vars PROVE CacheInv'
  OBVIOUS
<1> USE DEF CacheInv
<1>1. ASSUME UNCHANGED cacheVars PROVE CacheInv'
  BY <1>1 DEF cacheVars, CacheForm, RostersAreApart, BuiltApart
<1>2. CASE UNCHANGED vars
  BY <1>1, <1>2 DEF vars
<1>3. CASE \E i \in Invite : InviteStep(i)
  BY <1>1, <1>3 DEF InviteStep
<1>4. CASE \E s \in Socket : SocketStep(s)
  BY <1>1, <1>4 DEF SocketStep
<1>5. CASE \E f \in Fill : FillStep(f)
  BY <1>5, FillKeepsCache
<1>6. ASSUME NEW r \in Request, RequestStep(r) PROVE CacheInv'
  <2>1. CASE Invalidate(r)
    BY <2>1, DropKeepsCache DEF Invalidate
  <2>2. CASE ~Invalidate(r)
    BY <1>1, <1>6, <2>2 DEF RequestStep, Evict
  <2> QED BY <2>1, <2>2
<1>7. CASE Crash
  <2>1. CacheForm'
    BY <1>7, EmptyRoster DEF Crash, NoContext, NewFill, CacheForm, FillPc
  <2>2. cache'.roster = <<>> /\ \A f \in Fill : fill'[f].roster \in {<<>>, fill[f].roster}
    BY <1>7 DEF Crash, NoContext, NewFill
  <2>3. RostersAreApart'
    BY <2>2, EmptyRoster DEF RostersAreApart
  <2> QED BY <2>1, <2>3
<1> QED
  BY <1>2, <1>3, <1>4, <1>5, <1>6, <1>7 DEF Next

-----------------------------------------------------------------------------
(* Where a text goes *)

\* A trigger is a known one, whose tag is not the empty text.
LEMMA Triggers ==
  /\ NoTrigger \notin TriggerId
  /\ \A id \in TriggerId : TRIGGER_REGISTRY[id].tag # ""
<1>1. TriggerId = {"dm_mention", "npc_mention", "ask_command", "recap_command"}
  BY DEF TriggerId, TRIGGER_REGISTRY
<1>2. /\ TRIGGER_REGISTRY["dm_mention"].tag = "@dm"
      /\ TRIGGER_REGISTRY["npc_mention"].tag = "@npc"
      /\ TRIGGER_REGISTRY["ask_command"].tag = "/ask"
      /\ TRIGGER_REGISTRY["recap_command"].tag = "/recap"
  BY DEF TRIGGER_REGISTRY
<1>3. NoTrigger \notin TriggerId
  BY <1>1 DEF NoTrigger
<1>4. \A id \in TriggerId : TRIGGER_REGISTRY[id].tag # ""
  BY <1>1, <1>2
<1> QED BY <1>3, <1>4

\* What a registered tag gives is a rejection, or a route to the DM.
LEMMA TriggeredRoutes ==
  ASSUME NEW id \in TriggerId, NEW text, NEW role
  PROVE  LET d == Triggered(id, text, role) IN
           \/ \E code \in {"SCOPE_DENIED", "UNKNOWN_NPC", "EMPTY_TRIGGER"} : d = Reject(code)
           \/ d = Route("dm", {}, "public", id)
BY DEF Triggered

\* What any other text gives: to members only, to those it names if it is
\* private, to all of them if it is for the party, and to no trigger.
LEMMA BuiltInRoutes ==
  ASSUME NEW text, NEW roster
  PROVE  LET d == BuiltIn(text, roster) IN
           d.kind = "route" =>
             /\ d.recipientIds \subseteq DOMAIN roster
             /\ d.recipientType = "party" => d.recipientIds = DOMAIN roster
             /\ d.visibility = "private" => d.recipientIds = Called(text.name, roster) /\ d.recipientIds # {}
             /\ d.trigger = NoTrigger
<1> DEFINE d == BuiltIn(text, roster)
           named == Called(text.name, roster)
           Rest == {Route("dice", {}, "public", NoTrigger), Route("sheet", {}, "public", NoTrigger),
                    Route("ooc", {}, "public", NoTrigger), Route("player", named, "public", NoTrigger),
                    Route("table", {}, "public", NoTrigger)}
<1> SUFFICES ASSUME d.kind = "route"
             PROVE  /\ d.recipientIds \subseteq DOMAIN roster
                    /\ d.recipientType = "party" => d.recipientIds = DOMAIN roster
                    /\ d.visibility = "private" => d.recipientIds = named /\ d.recipientIds # {}
                    /\ d.trigger = NoTrigger
  OBVIOUS
<1>1. named \subseteq DOMAIN roster
  BY DEF Called
<1>2. \/ d = Reject("UNKNOWN_PLAYER")
      \/ d = Route("whisper", named, "private", NoTrigger) /\ named # {}
      \/ d = Route("party", DOMAIN roster, "public", NoTrigger)
      \/ d \in Rest
  <2> HIDE DEF named
  <2> QED BY DEF BuiltIn, named
<1>3. d # Reject("UNKNOWN_PLAYER")
  BY DEF Reject
<1> HIDE DEF d, named
<1>4. CASE d = Route("whisper", named, "private", NoTrigger) /\ named # {}
  BY <1>1, <1>4 DEF Route
<1>5. CASE d = Route("party", DOMAIN roster, "public", NoTrigger)
  BY <1>5 DEF Route
<1>6. CASE d \in Rest
  BY <1>1, <1>6 DEF Route
<1> QED BY <1>2, <1>3, <1>4, <1>5, <1>6

\* Whatever roster and registry a line is parsed against, stale or not
\* (parseMessage): it reaches members of that roster only, all of them if it is
\* for the party, and if it is private just those who bear the handle it names;
\* it wakes the DM if it carries the tag of a trigger of that registry, by no
\* other trigger, and otherwise never.
THEOREM RoutesFollowTheContext ==
  ASSUME NEW text, NEW roster, NEW registry \in SUBSET TriggerId
  PROVE  LET d == ParseMessage(text, roster, registry, "player") IN
           d.kind = "route" =>
             /\ d.recipientIds \subseteq DOMAIN roster
             /\ d.recipientType = "party" => d.recipientIds = DOMAIN roster
             /\ d.visibility = "private" => d.recipientIds = Called(text.name, roster) /\ d.recipientIds # {}
             /\ d.trigger # NoTrigger => d.trigger \in registry /\ TRIGGER_REGISTRY[d.trigger].tag = text.tag
             /\ (\E id \in registry : TRIGGER_REGISTRY[id].tag = text.tag) => d.trigger # NoTrigger
<1> DEFINE d == ParseMessage(text, roster, registry, "player")
           fired == {id \in registry : TRIGGER_REGISTRY[id].tag = text.tag}
           id == CHOOSE id \in fired : TRUE
<1> SUFFICES ASSUME d.kind = "route"
             PROVE  /\ d.recipientIds \subseteq DOMAIN roster
                    /\ d.recipientType = "party" => d.recipientIds = DOMAIN roster
                    /\ d.visibility = "private" => d.recipientIds = Called(text.name, roster) /\ d.recipientIds # {}
                    /\ d.trigger # NoTrigger => d.trigger \in fired
                    /\ fired # {} => d.trigger # NoTrigger
  OBVIOUS
<1>1. CASE text.tag = ""
  <2>1. d = Reject("EMPTY_MESSAGE")
    <3>1. fired = {}
      BY <1>1, Triggers
    <3> QED BY <1>1, <3>1 DEF ParseMessage
  <2> QED BY <2>1 DEF Reject
<1>2. CASE text.tag # "" /\ fired # {}
  <2>1. d = Triggered(id, text, "player")
    BY <1>2 DEF ParseMessage
  <2>2. id \in fired /\ id \in TriggerId /\ id # NoTrigger
    BY <1>2, Triggers
  <2>3. d = Route("dm", {}, "public", id)
    <3> HIDE DEF d, id, fired
    <3>1. \A code : d # Reject(code)
      BY DEF Reject
    <3> QED BY <2>1, <2>2, <3>1, TriggeredRoutes
  <2> HIDE DEF d, id, fired
  <2> QED BY <2>2, <2>3 DEF Route
<1>3. CASE text.tag # "" /\ fired = {}
  <2>1. d = BuiltIn(text, roster)
    BY <1>3 DEF ParseMessage
  <2> HIDE DEF d
  <2> QED BY <1>3, <2>1, BuiltInRoutes
<1> QED BY <1>1, <1>2, <1>3

-----------------------------------------------------------------------------
(* What follows for the runs' properties *)

\* The cache keeps its invariant whatever the membership, the sockets and the
\* crashes do.
THEOREM CacheInvariant == Spec => []CacheInv
<1>1. Init => CacheInv
  <2> SUFFICES ASSUME Init PROVE CacheInv
    OBVIOUS
  <2>1. CacheForm
    BY EmptyRoster DEF Init, CacheInit, NoContext, NewFill, CacheForm, FillPc
  <2>2. RostersAreApart
    BY EmptyRoster DEF Init, CacheInit, NoContext, NewFill, RostersAreApart
  <2> QED BY <2>1, <2>2 DEF CacheInv
<1> QED
  BY <1>1, CacheInductive, PTL DEF Spec

\* The types: of what is in the database, in the cache, and of the sockets.
THEOREM TypesCorrect == Spec => []TypeOK
<1>1. MembershipInv /\ CacheInv /\ SocketInv => TypeOK
  <2> SUFFICES ASSUME MembershipInv, CacheInv, SocketInv PROVE TypeOK
    OBVIOUS
  <2>1. CacheTypeOK
    BY DEF CacheInv, CacheForm, CacheTypeOK, Rosters, FillPc
  <2> QED BY <2>1 DEF MembershipInv, SocketInv, SocketTypeOK, TypeOK
<1> QED
  BY <1>1, MembershipInvariant, CacheInvariant, SocketInvariant, PTL

\* What the router's rule 3 comes to without trusting the names (buildRoster):
\* in whatever order the members are read and whatever they are called, two of
\* them share a handle, or one has that of a tag, only where it is the handle
\* that ends in a member's full id, which is taken unchecked.
OnlyFullIdsCollide ==
  \A u \in DOMAIN cache.roster :
    /\ cache.roster[u] \in RESERVED_HANDLES => cache.roster[u] = FullId(u)
    /\ \A v \in DOMAIN cache.roster \ {u} :
         cache.roster[u] = cache.roster[v] => cache.roster[u] \in {FullId(u), FullId(v)}

\* Every roster the process ever holds is so.
THEOREM HandlesDiffer == Spec => []OnlyFullIdsCollide
<1>1. CacheInv => OnlyFullIdsCollide
  BY DEF CacheInv, RostersAreApart, BuiltApart, Apart, OnlyFullIdsCollide
<1> QED
  BY <1>1, CacheInvariant, PTL

=============================================================================
