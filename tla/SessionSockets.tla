--------------------------- MODULE SessionSockets ---------------------------
(***************************************************************************)
(* The sockets of a session against the removal of members                 *)
(* (session.gateway.ts): the handshake reads the membership, the socket    *)
(* joins its rooms, the membership is read again; a removal that has       *)
(* committed evicts whoever is in the member's room. One process: a crash  *)
(* closes every socket, empties the cache and loses the requests.          *)
(***************************************************************************)
EXTENDS ContextCache

CONSTANTS
  Socket,        \* the connections that may be made, each once
  MaxCrashes     \* bound: crashes of the process

ASSUME CrashAssumption == MaxCrashes \in Nat

VARIABLES
  socket,        \* every connection, from its handshake to its end
  crashes

socketVars == <<socket, crashes>>
vars == <<membershipVars, cacheVars, socketVars>>

NewSocket == [pc |-> "new", user |-> Owner]
Closed == [pc |-> "closed", user |-> Owner]

Init ==
  /\ MembershipInit
  /\ CacheInit
  /\ socket = [s \in Socket |-> NewSocket]
  /\ crashes = 0

-----------------------------------------------------------------------------
(* Connections *)

\* authenticate: NOT_A_MEMBER refuses the handshake, and the user may retry.
Authenticate(s, u) ==
  /\ socket[s].pc = "new"
  /\ member[u] # NoMember
  /\ socket' = [socket EXCEPT ![s] = [pc |-> "authenticated", user |-> u]]

\* handleConnection: the rooms, and then the membership again.
Join(s) ==
  /\ socket[s].pc = "authenticated"
  /\ socket' = [socket EXCEPT ![s].pc = "joined"]

\* Mutant: the membership the handshake read is taken for good.
ReadMembership_Skipped(s) ==
  /\ socket[s].pc = "joined"
  /\ socket' = [socket EXCEPT ![s].pc = "live"]

\* A read that fails counts as no membership.
ReadMembership(s) ==
  /\ socket[s].pc = "joined"
  /\ \/ /\ member[socket[s].user] # NoMember
        /\ socket' = [socket EXCEPT ![s].pc = "live"]
     \/ socket' = [socket EXCEPT ![s] = Closed]

Leave(s) ==
  /\ socket[s].pc \in {"joined", "live"}
  /\ socket' = [socket EXCEPT ![s] = Closed]

\* evict: everybody in the member's room, whether it is live yet or not.
Evict(r) ==
  /\ request[r].pc = "invalidated"
  /\ socket' = [s \in Socket |->
                  IF socket[s].user = request[r].whom /\ socket[s].pc \in {"joined", "live"}
                  THEN Closed ELSE socket[s]]
  /\ Finish(r)
  /\ UNCHANGED <<member, invite, disabled, locks, cacheVars, crashes>>

\* The process ends: open transactions roll back, memory is lost.
Crash ==
  /\ crashes < MaxCrashes
  /\ crashes' = crashes + 1
  /\ cache' = NoContext
  /\ fill' = [f \in Fill |-> IF fill[f].pc = "new" THEN fill[f] ELSE [NewFill EXCEPT !.pc = "done"]]
  /\ locks' = {}
  /\ request' = [r \in Request |->
                   CASE request[r].pc \in {"guarded", "locked"}         -> Refused
                     [] request[r].pc \in {"committed", "invalidated"} -> Done(request[r])
                     [] OTHER -> request[r]]
  /\ socket' = [s \in Socket |-> IF socket[s].pc = "new" THEN socket[s] ELSE Closed]
  /\ UNCHANGED <<member, invite, disabled>>

-----------------------------------------------------------------------------
(* The process *)

RequestStep(r) ==
  \/ /\ \/ \E u \in User, i \in Invite : AcceptInvite(r, u, i)
        \/ LockInvite(r) \/ RefuseInvite(r) \/ SpendInvite(r)
        \/ \E whom \in User : RemoveMember(r, whom)
        \/ LockCampaign(r) \/ RefuseRemoval(r) \/ DeleteMember(r)
        \/ ChangeTriggers(r)
        \/ \E id \in Switched, on \in BOOLEAN : UpdateTriggers(r, id, on)
     /\ UNCHANGED <<cacheVars, socketVars>>
  \/ Invalidate(r) /\ UNCHANGED socketVars
  \/ Evict(r)

InviteStep(i) ==
  /\ (\E role \in InviteRole : CreateInvite(i, role)) \/ Expire(i)
  /\ UNCHANGED <<cacheVars, socketVars>>

FillStep(f) ==
  /\ ReadSettings(f) \/ ReadMembers(f) \/ StoreContext(f)
  /\ UNCHANGED <<membershipVars, socketVars>>

SocketStep(s) ==
  /\ (\E u \in User : Authenticate(s, u)) \/ Join(s) \/ ReadMembership(s) \/ Leave(s)
  /\ UNCHANGED <<membershipVars, cacheVars, crashes>>

Next ==
  \/ \E r \in Request : RequestStep(r)
  \/ \E i \in Invite : InviteStep(i)
  \/ \E f \in Fill : FillStep(f)
  \/ \E s \in Socket : SocketStep(s)
  \/ Crash

Spec == Init /\ [][Next]_vars

-----------------------------------------------------------------------------
(* Properties *)

TypeOK ==
  /\ MembershipTypeOK
  /\ CacheTypeOK
  /\ socket \in [Socket -> [pc : {"new", "authenticated", "joined", "live", "closed"}, user : User]]
  /\ crashes \in 0..MaxCrashes

\* Nobody keeps playing after a removal: a live socket belongs to a member, or
\* the removal of its user has committed and is still to evict (evict, #79).
LiveSocketsAreMembers ==
  \A s \in Socket :
    (socket[s].pc = "live" /\ member[socket[s].user] = NoMember) =>
      \E r \in Request : /\ request[r].op = "remove" /\ request[r].whom = socket[s].user
                         /\ request[r].pc \in {"committed", "invalidated"}

=============================================================================
