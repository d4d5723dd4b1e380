--------------------------- MODULE SessionClient ---------------------------
(***************************************************************************)
(* A session as its players' browsers see it: the committed log, the       *)
(* gateway's publish into rooms, the resume handler with its two reads, a  *)
(* socket per client that delivers in order but may go down, and the       *)
(* state useSession keeps: the high-water mark, the version to quote, the  *)
(* newest live status change, the rendered snapshot and the transcript.    *)
(*                                                                         *)
(* A command commits in one step (AtomicSession; one event per command)    *)
(* and is published in a later one, so publishes may overtake each other   *)
(* and a crash may lose them. A client hears of the status by what an      *)
(* event says it moves to. The start and the resumption of a DM turn       *)
(* commit such an event and nobody publishes it; a roll request, and the   *)
(* roll that answers it, move the row under events that do not say so.     *)
(***************************************************************************)
EXTENDS SessionStates, Integers, Sequences, FiniteSetsExt

CONSTANTS
  Client,       \* browsers with the session open, one player each
  Chat,         \* the chat lines somebody may say: the set of clients each may reach
  MaxEvents,    \* bound on the log
  MaxConnects,  \* bound on the connections of each client
  MaxErrors     \* bound on resume requests that fail in the database

ASSUME ClientAssumption ==
  /\ IsFiniteSet(Client)
  /\ Chat \subseteq SUBSET Client
  /\ MaxEvents \in Nat /\ MaxConnects \in Nat /\ MaxErrors \in Nat

VARIABLES
  log,          \* session_events, with the session row's status and version after each
  unpublished,  \* sequences committed and not yet published
  online,       \* clients whose socket is connected and in its rooms
  inbox,        \* per client: what its socket has yet to deliver, in order
  request,      \* per client: the resume request the server works on
  command,      \* per client: the version quoted by a command on its way
  awaiting,     \* per client: its commands committed and not acknowledged
  local,        \* per client: the refs and the state of useSession
  connects,     \* per client: connections made so far
  errors        \* failed resume requests so far

server == <<log, unpublished>>
vars == <<log, unpublished, online, inbox, request, command, awaiting, local,
          connects, errors>>

NoMove == "no move"   \* what an event says that is not a SESSION_STATE_CHANGED
NoCommand == -1
NoSnapshot == [status |-> "none", version |-> 0, last |-> 0]
NoRequest == [stage |-> "none", last |-> 0, snapshot |-> NoSnapshot, missed |-> {}]

Entry == [to : Status \cup {NoMove}, status : Status, version : Nat, audience : SUBSET Client]
Snapshot == [status : Status, version : Nat, last : Nat]

\* The events a client takes a status from.
Changes(S) == {i \in S : log[i].to # NoMove}

\* The status and the state_version of the session row after the first n events.
StatusAt(n) == IF n = 0 THEN "WAITING_FOR_PLAYERS" ELSE log[n].status
VersionAt(n) == IF n = 0 THEN 0 ELSE log[n].version
StatusNow == StatusAt(Len(log))
VersionNow == VersionAt(Len(log))

Init ==
  /\ log = <<>>
  /\ unpublished = {}
  /\ online = {}
  /\ inbox = [c \in Client |-> <<>>]
  /\ request = [c \in Client |-> NoRequest]
  /\ command = [c \in Client |-> NoCommand]
  /\ awaiting = [c \in Client |-> {}]
  /\ local = [c \in Client |-> [highWater |-> 0, version |-> 0, live |-> 0,
                                snapshot |-> NoSnapshot, lines |-> <<>>]]
  /\ connects = [c \in Client |-> 0]
  /\ errors = 0

-----------------------------------------------------------------------------
(* The server *)

\* A command commits its event; whether it is published is the caller's business.
Commit(entry, published) ==
  /\ Len(log) < MaxEvents
  /\ log' = Append(log, entry)
  /\ unpublished' = unpublished \cup (IF published THEN {Len(log) + 1} ELSE {})

\* Chat mode: no version, any status. A whisper reaches its two parties.
Say(audience) ==
  /\ Commit([to |-> NoMove, status |-> StatusNow, version |-> VersionNow, audience |-> audience], TRUE)
  /\ UNCHANGED <<online, inbox, request, command, awaiting, local, connects, errors>>

\* A mutation that everybody may see, and what it says of the status.
Moved(status, to) == [to |-> to, status |-> status, version |-> VersionNow + 1, audience |-> Client]

\* Host controls, finished and failed turns. None of them starts a turn, and
\* only the end of a pause goes back to a roll.
ChangeStatus(to) ==
  /\ CanTransition(StatusNow, to)
  /\ to # "DM_GENERATING"
  /\ to = "WAITING_FOR_ROLL" => StatusNow = "PAUSED"
  /\ Commit(Moved(to, to), TRUE)
  /\ UNCHANGED <<online, inbox, request, command, awaiting, local, connects, errors>>

\* `:start` and `:resume`: the events runCommand returns are dropped.
StartTurn ==
  /\ CanTransition(StatusNow, "DM_GENERATING")
  /\ Commit(Moved("DM_GENERATING", "DM_GENERATING"), FALSE)
  /\ UNCHANGED <<online, inbox, request, command, awaiting, local, connects, errors>>

\* A turn parks or a host asks: ROLL_REQUESTED is all that is said.
RequestRoll ==
  /\ AcceptsMutations(StatusNow)
  /\ CanTransition(StatusNow, "WAITING_FOR_ROLL")
  /\ Commit(Moved("WAITING_FOR_ROLL", NoMove), TRUE)
  /\ UNCHANGED <<online, inbox, request, command, awaiting, local, connects, errors>>

\* Where a roll leaves the status: with the players, if it closes the action
\* the table waits for.
AfterRoll == IF StatusNow = "WAITING_FOR_ROLL" THEN {StatusNow, "WAITING_FOR_PLAYERS"} ELSE {StatusNow}

\* A client's roll, accepted. ROLL_RESULT and PENDING_ACTION_COMPLETED do not
\* say where the status goes.
AcceptRoll(c) ==
  /\ command[c] = VersionNow
  /\ AcceptsMutations(StatusNow)
  /\ \E status \in AfterRoll : Commit(Moved(status, NoMove), TRUE)
  /\ command' = [command EXCEPT ![c] = NoCommand]
  /\ awaiting' = [awaiting EXCEPT ![c] = @ \cup {Len(log) + 1}]
  /\ UNCHANGED <<online, inbox, request, local, connects, errors>>

Deliver(c, message) == inbox' = [inbox EXCEPT ![c] = Append(@, message)]

\* A client's roll, refused: SESSION_PAUSED and STATE_CONFLICT both name the version.
RefuseRoll(c) ==
  /\ command[c] # NoCommand
  /\ command[c] # VersionNow \/ ~AcceptsMutations(StatusNow)
  /\ command' = [command EXCEPT ![c] = NoCommand]
  /\ Deliver(c, [type |-> "reply", version |-> VersionNow])
  /\ UNCHANGED <<server, online, request, awaiting, local, connects, errors>>

\* The rooms publish emits event i into: the session's, or those of the parties.
Room(i) == online \cap log[i].audience

\* publish, and the acknowledgement the gateway returns after it.
Publish(i) ==
  /\ i \in unpublished
  /\ unpublished' = unpublished \ {i}
  /\ inbox' = [c \in Client |->
       inbox[c] \o (IF c \in Room(i) THEN <<[type |-> "event", sequence |-> i]>> ELSE <<>>)
                \o (IF i \in awaiting[c] THEN <<[type |-> "reply", version |-> log[i].version]>>
                    ELSE <<>>)]
  /\ awaiting' = [c \in Client |-> awaiting[c] \ {i}]
  /\ UNCHANGED <<log, online, request, command, local, connects, errors>>

\* onResume, first await: the session row.
ReadSnapshot(c) ==
  /\ request[c].stage = "snapshot"
  /\ request' = [request EXCEPT ![c].stage = "events",
                   ![c].snapshot = [status |-> StatusNow, version |-> VersionNow,
                                    last |-> Len(log)]]
  /\ UNCHANGED <<server, online, inbox, command, awaiting, local, connects, errors>>

\* Mutants: whispers included; the client's mark taken for the next sequence it needs.
EventsSince_Everything(c, n) == (n + 1)..Len(log)
EventsSince_FromNext(c, n) == {i \in (n + 2)..Len(log) : c \in log[i].audience}

\* eventsSince: what c may see above its mark.
EventsSince(c, n) == {i \in (n + 1)..Len(log) : c \in log[i].audience}

\* onResume, second await: the missed events.
ReadEvents(c) ==
  /\ request[c].stage = "events"
  /\ request' = [request EXCEPT ![c].stage = "answer",
                                ![c].missed = EventsSince(c, request[c].last)]
  /\ UNCHANGED <<server, online, inbox, command, awaiting, local, connects, errors>>

AnswerResume(c) ==
  /\ request[c].stage = "answer"
  /\ Deliver(c, [type |-> "answer", snapshot |-> request[c].snapshot,
                 missed |-> request[c].missed])
  /\ request' = [request EXCEPT ![c] = NoRequest]
  /\ UNCHANGED <<server, online, command, awaiting, local, connects, errors>>

\* A read of onResume fails: no answer comes, and the client does not ask again.
ResumeFails(c) ==
  /\ errors < MaxErrors
  /\ request[c].stage \in {"snapshot", "events"}
  /\ errors' = errors + 1
  /\ request' = [request EXCEPT ![c] = NoRequest]
  /\ UNCHANGED <<server, online, inbox, command, awaiting, local, connects>>

-----------------------------------------------------------------------------
(* The client *)

\* connect: the server joins the rooms, the client asks from its mark.
Connect(c) ==
  /\ c \notin online
  /\ connects[c] < MaxConnects
  /\ connects' = [connects EXCEPT ![c] = @ + 1]
  /\ online' = online \cup {c}
  /\ request' = [request EXCEPT ![c] =
       [NoRequest EXCEPT !.stage = "snapshot", !.last = local[c].highWater]]
  /\ UNCHANGED <<server, inbox, command, awaiting, local, errors>>

\* Whatever is on the way to or from the clients in lost is gone with their sockets.
Disconnected(lost) ==
  /\ online' = online \ lost
  /\ inbox' = [c \in Client |-> IF c \in lost THEN <<>> ELSE inbox[c]]
  /\ request' = [c \in Client |-> IF c \in lost THEN NoRequest ELSE request[c]]
  /\ command' = [c \in Client |-> IF c \in lost THEN NoCommand ELSE command[c]]
  /\ awaiting' = [c \in Client |-> IF c \in lost THEN {} ELSE awaiting[c]]
  /\ UNCHANGED <<log, local, connects, errors>>

Disconnect(c) == c \in online /\ Disconnected({c}) /\ UNCHANGED unpublished

\* The API process dies between commits and their publishes.
Crash == online # {} /\ Disconnected(Client) /\ unpublished' = {}

\* A roll from the sheet, quoting the cached version; the buttons need a snapshot.
Roll(c) ==
  /\ c \in online
  /\ local[c].snapshot # NoSnapshot
  /\ AcceptsMutations(local[c].snapshot.status)
  /\ command[c] = NoCommand /\ awaiting[c] = {}
  /\ \A k \in 1..Len(inbox[c]) : inbox[c][k].type # "reply"
  /\ command' = [command EXCEPT ![c] = local[c].version]
  /\ UNCHANGED <<server, online, inbox, request, awaiting, local, connects, errors>>

\* Mutant: the event at the mark is applied again.
New_AtMark(mine, S) == {i \in S : i >= mine.highWater}

\* What applyEvent does not drop.
New(mine, S) == {i \in S : i > mine.highWater}

\* The events of a set, in the order of their sequences.
InOrder(S) ==
  CHOOSE lines \in [1..Cardinality(S) -> S] :
    \A j, k \in 1..Cardinality(S) : j < k => lines[j] < lines[k]

\* applyEvent for the events S, in sequence order.
ApplyEvents(mine, S) ==
  LET new == New(mine, S)
      changes == Changes(new)
  IN IF new = {} THEN mine ELSE
     [highWater |-> Max(new),
      version   |-> Max({mine.version} \cup {log[i].version : i \in new}),
      live      |-> IF changes = {} THEN mine.live ELSE Max(changes),
      snapshot  |-> IF changes = {} \/ mine.snapshot = NoSnapshot THEN mine.snapshot
                    ELSE [mine.snapshot EXCEPT !.status = log[Max(changes)].to],
      lines     |-> mine.lines \o InOrder(new)]

\* Mutant: the snapshot as it came.
ResumedSnapshot_AsItCame(snapshot, live) == snapshot

\* The snapshot, unless a change seen live postdates it.
ResumedSnapshot(snapshot, live) ==
  IF live > snapshot.last THEN [snapshot EXCEPT !.status = log[live].to] ELSE snapshot

\* Mutant: only an acknowledgement carries a version to the client.
Absorb_Nothing(mine, version) == mine

\* absorb: an ack and a refusal alike.
Absorb(mine, version) == [mine EXCEPT !.version = Max({@, version})]

\* The answer to resume: snapshot, version (overwritten), then the events.
HandleAnswer(mine, answer) ==
  ApplyEvents([mine EXCEPT !.snapshot = ResumedSnapshot(answer.snapshot, mine.live),
                           !.version = answer.snapshot.version],
              answer.missed)

Receive(c) ==
  /\ inbox[c] # <<>>
  /\ LET message == Head(inbox[c]) IN
     local' = [local EXCEPT ![c] =
                 CASE message.type = "event"  -> ApplyEvents(@, {message.sequence})
                   [] message.type = "answer" -> HandleAnswer(@, message)
                   [] message.type = "reply"  -> Absorb(@, message.version)]
  /\ inbox' = [inbox EXCEPT ![c] = Tail(@)]
  /\ UNCHANGED <<server, online, request, command, awaiting, connects, errors>>

-----------------------------------------------------------------------------
ServerStep(c) ==
  \/ AcceptRoll(c) \/ RefuseRoll(c)
  \/ ReadSnapshot(c) \/ ReadEvents(c) \/ AnswerResume(c)

Next ==
  \/ \E audience \in Chat : Say(audience)
  \/ \E to \in Status : ChangeStatus(to)
  \/ StartTurn \/ RequestRoll
  \/ \E i \in unpublished : Publish(i)
  \/ \E c \in Client :
       ServerStep(c) \/ ResumeFails(c) \/ Connect(c) \/ Disconnect(c) \/ Roll(c) \/ Receive(c)
  \/ Crash

Spec == Init /\ [][Next]_vars

\* The event loops of server and browsers run, and the players keep rolling;
\* nobody has to connect, to say anything or to change the status.
FairSpec ==
  /\ Spec
  /\ \A c \in Client : WF_vars(ServerStep(c)) /\ WF_vars(Receive(c)) /\ WF_vars(Roll(c))
  /\ WF_vars(\E i \in unpublished : Publish(i))

-----------------------------------------------------------------------------
(***************************************************************************)
(* Properties                                                              *)
(***************************************************************************)

Sequence == 1..Len(log)

Message ==
  [type : {"event"}, sequence : Sequence]
    \cup [type : {"answer"}, snapshot : Snapshot, missed : SUBSET Sequence]
    \cup [type : {"reply"}, version : Nat]

Request == [stage : {"none", "snapshot", "events", "answer"}, last : Nat,
            snapshot : {NoSnapshot} \cup Snapshot, missed : SUBSET Sequence]
Local == [highWater : Nat, version : Nat, live : {0} \cup Sequence,
          snapshot : {NoSnapshot} \cup Snapshot, lines : Seq(Sequence)]

\* Messages, requests and the client's refs keep their types, and nothing
\* refers to an event the log does not hold.
TypeOK ==
  /\ log \in Seq(Entry)
  /\ unpublished \subseteq Sequence
  /\ online \subseteq Client
  /\ inbox \in [Client -> Seq(Message)]
  /\ request \in [Client -> Request]
  /\ command \in [Client -> {NoCommand} \cup Nat]
  /\ awaiting \in [Client -> SUBSET Sequence]
  /\ local \in [Client -> Local]
  /\ connects \in [Client -> 0..MaxConnects]
  /\ errors \in 0..MaxErrors

\* M2.4: "a resume that overlaps what we already have cannot duplicate a line"
\* (useSession). Live events, answers that repeat them and reconnections mixed
\* in any order leave a transcript in the order of the log, no event twice.
TranscriptInOrder ==
  \A c \in Client :
    LET lines == local[c].lines IN
    \A j, k \in 1..Len(lines) : j < k => lines[j] < lines[k]

\* M3.4, FR-207: a whisper never reaches the socket of a third player, neither
\* live nor in a replay - not even for the client to hide.
WhispersStayPrivate ==
  \A c \in Client : \A k \in 1..Len(inbox[c]) :
    LET message == inbox[c][k] IN
    /\ message.type = "event" => c \in log[message.sequence].audience
    /\ message.type = "answer" => \A i \in message.missed : c \in log[i].audience

\* U1.0: "the snapshot must not roll it back" (resumedSnapshot). What is on
\* display is where the newest change the client has applied went, or the row of
\* a snapshot that no such change postdates, however early the snapshot was read
\* and however late it came. It need not be the row's status at either: a change
\* that a replay applies over its snapshot may be older than a move, in that
\* snapshot, that no event tells.
StatusIsNotRolledBack ==
  \A c \in Client :
    LET mine == local[c] IN
    mine.snapshot # NoSnapshot =>
      \/ mine.live # 0 /\ mine.snapshot.status = log[mine.live].to
      \/ mine.live <= mine.snapshot.last /\ mine.snapshot.status = StatusAt(mine.snapshot.last)

Answers(c) ==
  /\ inbox[c] # <<>>
  /\ Head(inbox[c]).type = "answer"
  /\ inbox'[c] = Tail(inbox[c])
  /\ c \in online'

\* The transcript has what its player may see between the mark and the snapshot.
ReachesItsSnapshot ==
  \A c \in Client : Answers(c) =>
    \A i \in (local[c].highWater + 1)..Head(inbox[c]).snapshot.last :
      c \in log[i].audience => \E k \in 1..Len(local'[c].lines) : local'[c].lines[k] = i

\* The two reads of onResume are not one: whatever commits between them, the
\* transcript reaches at least as far as the snapshot shown with it, from the
\* client's mark on.
AnswerReachesItsSnapshot == [][ReachesItsSnapshot]_vars

\* M2's acceptance: "A client killed mid-session and reconnected receives
\* exactly the events it missed, no duplicates, no gaps" (MVP.md). Every event
\* the answer to its resume carries is in the transcript afterwards.
MissedEventsArrive ==
  [][\A c \in Client : Answers(c) =>
       \A i \in Head(inbox[c]).missed :
         \E k \in 1..Len(local'[c].lines) : local'[c].lines[k] = i]_vars

\* M5.4: "a client that lost a race catches up from the rejection itself rather
\* than having to refetch the snapshot" (useSession). A player who keeps rolling
\* is not refused for a stale version for ever - although an answer to resume
\* may set the version back, and the start of a turn never reaches the client.
PlayersCatchUp ==
  \A c \in Client : <>[](command[c] \in {NoCommand, VersionNow})

=============================================================================
