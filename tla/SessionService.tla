--------------------------- MODULE SessionService ---------------------------
(***************************************************************************)
(* SessionService.runCommand on one session, statement by statement, with  *)
(* any number of calls in flight: the lookup of a stored answer, the       *)
(* transaction (advisory lock, insert into commands, read of the session   *)
(* row, allocate, insert of the events, afterAppend, commit) and the       *)
(* gateway's publish after it. Postgres runs at READ COMMITTED: a read     *)
(* sees what is committed, an insert of a primary key another transaction  *)
(* has inserted waits for that transaction, an UPDATE of a row another     *)
(* transaction has updated waits and then sees its result.                 *)
(***************************************************************************)
EXTENDS SessionCommands, FiniteSets

CONSTANTS
  Request,    \* calls of runCommand: first attempts and retries alike
  Internal,   \* the commands the server itself issues (expectedStateVersion null)
  PoolSize,   \* connections in the pool
  Wrapping    \* how the ORM may hand on a driver error: TRUE as the cause of
              \* its own, as drizzle 0.45 does, FALSE as it is

ASSUME RequestAssumption ==
  /\ IsFiniteSet(Request)
  /\ Internal \subseteq CommandId
  /\ PoolSize \in Nat \ {0}
  /\ Wrapping \subseteq BOOLEAN /\ Wrapping # {}

VARIABLES
  session,      \* the committed sessions row
  events,       \* the committed rows of session_events
  result,       \* the committed commands.result of each command
  published,    \* the sequences publish has emitted
  advisory,     \* calls holding pg_advisory_xact_lock
  claimed,      \* calls whose insert into commands is not yet committed
  rowLock,      \* calls whose UPDATE of the sessions row is not yet committed
  connections,  \* calls holding a pooled connection for their transaction
  pc,           \* what each call does next, or how it ended
  cmd,          \* the commandId of each call
  expected,     \* its expectedStateVersion
  row,          \* the sessions row it has read
  allocated,    \* what allocate returned to it
  reply         \* the answer it gives

db == <<session, events, result>>
locks == <<advisory, claimed, rowLock, connections>>
call == <<cmd, expected, row, allocated, reply>>
vars == <<session, events, result, published, advisory, claimed, rowLock, connections,
          pc, cmd, expected, row, allocated, reply>>

NoExpectation == -1   \* expectedStateVersion: null

SessionRow == [status : Status, pausedFrom : Status \cup {NotPaused},
               nextSequence : Nat \ {0}, stateVersion : Nat]
Event == [sequence : Nat \ {0}, command : CommandId, version : Nat]
Allocation == [first : Nat \ {0}, version : Nat]

Answered == {"acked", "replayed", "failed"}
InTransaction == {"lock", "claim", "read", "allocate", "commit"}
InFlight == {"replay", "begin", "publish", "stored"} \cup InTransaction

Init ==
  /\ session = [status |-> "WAITING_FOR_PLAYERS", pausedFrom |-> NotPaused,
                nextSequence |-> 1, stateVersion |-> 0]
  /\ events = {}
  /\ result = [c \in CommandId |-> NoAck]
  /\ published = {}
  /\ advisory = {} /\ claimed = {} /\ rowLock = {} /\ connections = {}
  /\ pc = [r \in Request |-> "idle"]
  /\ cmd \in [Request -> CommandId]
  /\ expected = [r \in Request |-> NoExpectation]
  /\ row = [r \in Request |-> session]
  /\ allocated = [r \in Request |-> [first |-> 1, version |-> 0]]
  /\ reply = [r \in Request |-> NoAck]

Goto(r, label) == pc' = [pc EXCEPT ![r] = label]

ConnectionFree == Cardinality(connections) < PoolSize

\* Mutant: a session-level lock, which the end of the transaction does not release.
EndTransaction_KeepsLock(r) ==
  /\ claimed' = claimed \ {r}
  /\ rowLock' = rowLock \ {r}
  /\ connections' = connections \ {r}
  /\ UNCHANGED advisory

\* The transaction of r ends, one way or the other: everything it holds is released.
EndTransaction(r) ==
  /\ advisory' = advisory \ {r}
  /\ claimed' = claimed \ {r}
  /\ rowLock' = rowLock \ {r}
  /\ connections' = connections \ {r}

\* Every exception inside the transaction: nothing it wrote survives.
Rollback(r, label) ==
  /\ EndTransaction(r)
  /\ Goto(r, label)
  /\ UNCHANGED <<session, events, result, published, cmd, expected, row, allocated, reply>>

-----------------------------------------------------------------------------
\* The versions a caller can name: a client any it has been shown, the server null.
Expectation(c) == IF c \in Internal THEN {NoExpectation} ELSE 0..session.stateVersion

Call(r, v) ==
  /\ pc[r] = "idle"
  /\ v \in Expectation(cmd[r])
  /\ expected' = [expected EXCEPT ![r] = v]
  /\ Goto(r, "replay")
  /\ UNCHANGED <<db, published, locks, cmd, row, allocated, reply>>

\* storedAck(commandId), outside any transaction.
StoredAck(r) ==
  /\ pc[r] = "replay"
  /\ ConnectionFree
  /\ reply' = [reply EXCEPT ![r] = result[cmd[r]]]
  /\ Goto(r, IF result[cmd[r]] # NoAck THEN "replayed" ELSE "begin")
  /\ UNCHANGED <<db, published, locks, cmd, expected, row, allocated>>

Begin(r) ==
  /\ pc[r] = "begin"
  /\ ConnectionFree
  /\ connections' = connections \cup {r}
  /\ Goto(r, IF Mutating(cmd[r]) THEN "lock" ELSE "claim")
  /\ UNCHANGED <<db, published, advisory, claimed, rowLock, call>>

\* Mutant: a mutation does not wait for the one that holds the lock.
AdvisoryLock_DoesNotWait(r) ==
  /\ pc[r] = "lock"
  /\ advisory' = advisory \cup {r}
  /\ Goto(r, "claim")
  /\ UNCHANGED <<db, published, claimed, rowLock, connections, call>>

AdvisoryLock(r) ==
  /\ pc[r] = "lock"
  /\ advisory = {}
  /\ advisory' = {r}
  /\ Goto(r, "claim")
  /\ UNCHANGED <<db, published, claimed, rowLock, connections, call>>

\* Mutant: command_id has no unique index.
KeyFree_NoIndex(r) == TRUE

\* INSERT INTO commands: waits for an uncommitted row with the same key.
KeyFree(r) == \A q \in claimed : cmd[q] # cmd[r]

Claim(r) ==
  /\ pc[r] = "claim"
  /\ KeyFree(r)
  /\ result[cmd[r]] = NoAck
  /\ claimed' = claimed \cup {r}
  /\ Goto(r, "read")
  /\ UNCHANGED <<db, published, advisory, rowLock, connections, call>>

\* isUniqueViolation looks for the code on the error itself, not on its cause.
IsUniqueViolation(wrapped) == ~wrapped

\* 23505: the key is committed. The transaction is over when the catch of
\* runCommand asks what the error is.
ClaimViolation(r) ==
  /\ pc[r] = "claim"
  /\ KeyFree(r)
  /\ result[cmd[r]] # NoAck
  /\ \E wrapped \in Wrapping :
       Rollback(r, IF IsUniqueViolation(wrapped) THEN "stored" ELSE "failed")

\* storedAck in the catch: the stored answer, or the error if there is none.
ReadStored(r) ==
  /\ pc[r] = "stored"
  /\ ConnectionFree
  /\ reply' = [reply EXCEPT ![r] = result[cmd[r]]]
  /\ Goto(r, IF result[cmd[r]] # NoAck THEN "replayed" ELSE "failed")
  /\ UNCHANGED <<db, published, locks, cmd, expected, row, allocated>>

\* Mutant: only a version from the future is refused.
StateConflict_OnlyAhead(r) ==
  /\ Mutating(cmd[r])
  /\ expected[r] # NoExpectation
  /\ expected[r] > session.stateVersion

StateConflict(r) ==
  /\ Mutating(cmd[r])
  /\ expected[r] # NoExpectation
  /\ expected[r] # session.stateVersion

\* SELECT of the session row, the two refusals, and produce.
ReadSession(r) ==
  /\ pc[r] = "read"
  /\ ~RefusedAsPaused(cmd[r], session.status)
  /\ ~StateConflict(r)
  /\ row' = [row EXCEPT ![r] = session]
  /\ Goto(r, "allocate")
  /\ UNCHANGED <<db, published, locks, cmd, expected, allocated, reply>>

Refuse(r) ==
  /\ pc[r] = "read"
  /\ RefusedAsPaused(cmd[r], session.status) \/ StateConflict(r)
  /\ Rollback(r, "failed")

\* Mutants of Allocate: a read instead of an UPDATE, so no row lock; the count
\* subtracted from the row as it was before the UPDATE.
Allocate_WithoutRowLock(r) ==
  /\ pc[r] = "allocate"
  /\ rowLock' = rowLock \cup {r}
  /\ allocated' = [allocated EXCEPT ![r] =
       [first |-> session.nextSequence,
        version |-> session.stateVersion + (IF Mutating(cmd[r]) THEN 1 ELSE 0)]]
  /\ Goto(r, "commit")
  /\ UNCHANGED <<db, published, advisory, claimed, connections, cmd, expected, row, reply>>

AllocateWith(r, allocation) ==
  /\ pc[r] = "allocate"
  /\ rowLock = {}
  /\ rowLock' = {r}
  /\ allocated' = [allocated EXCEPT ![r] = allocation]
  /\ Goto(r, "commit")
  /\ UNCHANGED <<db, published, advisory, claimed, connections, cmd, expected, row, reply>>

Allocate_CountsFromOldRow(r) ==
  AllocateWith(r, [first |-> session.nextSequence - Drafts[cmd[r]],
                   version |-> session.stateVersion + (IF Mutating(cmd[r]) THEN 1 ELSE 0)])

\* UPDATE sessions ... RETURNING: takes the row lock, then counts from the
\* latest committed row, not from the one read before.
Allocate(r) ==
  AllocateWith(r, [first |-> session.nextSequence,
                   version |-> session.stateVersion + (IF Mutating(cmd[r]) THEN 1 ELSE 0)])

\* The event rows: consecutive sequences, all with the allocated version.
Appended(r) ==
  {[sequence |-> allocated[r].first + offset, command |-> cmd[r],
    version |-> allocated[r].version] : offset \in 0..(Drafts[cmd[r]] - 1)}

\* INSERT of the events, afterAppend (setStatus on the row read earlier),
\* UPDATE commands SET result, COMMIT. Nothing is visible before the commit.
Commit(r) ==
  LET ack == AckFor(cmd[r], allocated[r].first, allocated[r].version) IN
  /\ pc[r] = "commit"
  /\ LegalMove(cmd[r], row[r].status, row[r].pausedFrom)
  /\ events' = events \cup Appended(r)
  /\ session' =
       [status       |-> IF Target[cmd[r]] = NoMove THEN session.status
                         ELSE StatusAfter(cmd[r], row[r].status, row[r].pausedFrom),
        pausedFrom   |-> IF Target[cmd[r]] = NoMove THEN session.pausedFrom
                         ELSE PausedFromAfter(cmd[r], row[r].status, row[r].pausedFrom),
        nextSequence |-> allocated[r].first + Drafts[cmd[r]],
        stateVersion |-> allocated[r].version]
  /\ result' = [result EXCEPT ![cmd[r]] = ack]
  /\ reply' = [reply EXCEPT ![r] = ack]
  /\ EndTransaction(r)
  /\ Goto(r, "publish")
  /\ UNCHANGED <<published, cmd, expected, row, allocated>>

\* setStatus throws ILLEGAL_TRANSITION.
IllegalTransition(r) ==
  /\ pc[r] = "commit"
  /\ ~LegalMove(cmd[r], row[r].status, row[r].pausedFrom)
  /\ Rollback(r, "failed")

\* Mutant: the events are announced while their transaction may still abort.
Publish_BeforeCommit(r) ==
  /\ pc[r] \in {"commit", "publish"}
  /\ published' = published \cup {e.sequence : e \in Appended(r)}
  /\ IF pc[r] = "publish" THEN Goto(r, "acked") ELSE UNCHANGED pc
  /\ UNCHANGED <<db, locks, call>>

\* The gateway emits the events of the answer and acknowledges.
Publish(r) ==
  /\ pc[r] = "publish"
  /\ published' = published \cup {e.sequence : e \in Appended(r)}
  /\ Goto(r, "acked")
  /\ UNCHANGED <<db, locks, call>>

\* A callback throws or the database refuses a statement.
Abort(r) ==
  /\ pc[r] \in InTransaction
  /\ Rollback(r, "failed")

\* The API process dies: its transactions roll back, its callers get no answer.
Crash ==
  /\ \E r \in Request : pc[r] \in InFlight
  /\ pc' = [r \in Request |-> IF pc[r] \in InFlight THEN "failed" ELSE pc[r]]
  /\ advisory' = {} /\ claimed' = {} /\ rowLock' = {} /\ connections' = {}
  /\ UNCHANGED <<db, published, call>>

Terminated == (\A r \in Request : pc[r] \in Answered) /\ UNCHANGED vars

\* What the process and the database do for r once it has been called.
Step(r) ==
  \/ StoredAck(r) \/ Begin(r) \/ AdvisoryLock(r) \/ Claim(r) \/ ClaimViolation(r)
  \/ ReadStored(r) \/ ReadSession(r) \/ Refuse(r) \/ Allocate(r) \/ Commit(r)
  \/ IllegalTransition(r) \/ Publish(r)

Next ==
  \/ \E r \in Request :
       \/ \E v \in Expectation(cmd[r]) : Call(r, v)
       \/ Step(r)
       \/ Abort(r)
  \/ Crash
  \/ Terminated

Spec == Init /\ [][Next]_vars

\* The event loop and Postgres's lock queues serve every call; nobody has to
\* call, and neither errors nor crashes have to happen.
FairSpec == Spec /\ \A r \in Request : WF_vars(Step(r))

-----------------------------------------------------------------------------
(***************************************************************************)
(* Properties                                                              *)
(***************************************************************************)

\* Every variable stays within the columns and call states of the code.
TypeOK ==
  /\ session \in SessionRow
  /\ events \subseteq Event
  /\ result \in [CommandId -> Ack]
  /\ published \subseteq Nat
  /\ advisory \subseteq Request
  /\ claimed \subseteq Request
  /\ rowLock \subseteq Request
  /\ connections \subseteq Request
  /\ pc \in [Request -> Answered \cup InFlight \cup {"idle"}]
  /\ cmd \in [Request -> CommandId]
  /\ expected \in [Request -> Int]
  /\ row \in [Request -> SessionRow]
  /\ allocated \in [Request -> Allocation]
  /\ reply \in [Request -> Ack]

\* "Contiguous by construction: sequence has no gaps to skip over"
\* (eventsSince): the committed log holds every sequence below next_sequence
\* exactly once, whatever chat and mutations overlap, fail or crash.
LogContiguous ==
  /\ \A e \in events : e.sequence < session.nextSequence
  /\ \A i \in 1..(session.nextSequence - 1) : \E e \in events : e.sequence = i
  /\ \A e, f \in events : e.sequence = f.sequence => e = f

EventsOf(c) == {e \in events : e.command = c}

\* Idempotency (M2.3): a command without a stored answer has left no event,
\* and one with an answer exactly the batch the answer describes, once,
\* however often and however concurrently it was sent.
AnswerDescribesLog ==
  \A c \in CommandId :
    IF result[c] = NoAck THEN EventsOf(c) = {}
    ELSE EventsOf(c) = {[sequence |-> i, command |-> c, version |-> result[c].version] :
                          i \in (result[c].sequence - Drafts[c] + 1)..result[c].sequence}

\* M5.4: state_version counts the committed mutations. No two of them share a
\* version and none is skipped, so a version names one state of the session.
OneVersionPerMutation ==
  LET done == {c \in CommandId : Mutating(c) /\ result[c] # NoAck} IN
  /\ \A c \in done : result[c].version \in 1..session.stateVersion
  /\ \A v \in 1..session.stateVersion : \E c \in done : result[c].version = v
  /\ \A c, d \in done : result[c].version = result[d].version => c = d

\* Chat is stamped with the version current at its place in the log: versions
\* never decrease along it, although chat reads the row without the lock.
VersionsFollowSequence ==
  \A e, f \in events : e.sequence < f.sequence => e.version <= f.version

\* The log and the session row tell one story: no gap, one version for each
\* mutation, and versions that follow the order of the events (allocate).
LogIsConsistent == LogContiguous /\ OneVersionPerMutation /\ VersionsFollowSequence

\* M5.2: what a mutation read before produce is still the committed row when
\* it appends and sets the status. Only the advisory lock ensures it.
DecidesOnCurrentRow ==
  \A r \in Request :
    pc[r] \in {"allocate", "commit"} /\ Mutating(cmd[r]) =>
      /\ row[r].status = session.status
      /\ row[r].pausedFrom = session.pausedFrom
      /\ row[r].stateVersion = session.stateVersion

\* All successful answers to a command are the one stored answer: a duplicate
\* that raced the original is told exactly what the original was told.
AnswersAgree ==
  \A r \in Request :
    pc[r] \in {"publish", "acked", "replayed"} =>
      reply[r] = result[cmd[r]] /\ reply[r] # NoAck

\* What a command is answered, the first time or again, is what the log says of
\* it (runCommand).
AnswersAreTrue == AnswerDescribesLog /\ AnswersAgree

\* M5.4: a client's mutation takes effect only on the version it was shown.
OnShownVersion ==
  \A c \in CommandId \ Internal :
    Mutating(c) /\ result[c] = NoAck /\ result'[c] # NoAck =>
      \E r \in Request : cmd[r] = c /\ expected[r] = session.stateVersion

CommitsOnShownVersion == [][OnShownVersion]_vars

\* M5.6: while the session is paused only a host control moves its version or
\* its status, and once it has ended nothing does - although the transaction
\* that moves them checked a row read statements earlier.
PausedStepIsHost ==
  session.status = "PAUSED" /\ session'.stateVersion # session.stateVersion =>
    \E c \in CommandId : Mode[c] = "host" /\ result[c] = NoAck /\ result'[c] # NoAck

EndedStaysPut ==
  session.status = "SESSION_ENDED" =>
    session'.status = session.status /\ session'.stateVersion = session.stateVersion

PauseAndEndHold == [][PausedStepIsHost /\ EndedStaysPut]_vars

\* The log as the atomic session sees it: the events in sequence order.
LogView ==
  [i \in 1..(session.nextSequence - 1) |->
     LET e == CHOOSE e \in events : e.sequence = i
     IN [command |-> e.command, version |-> e.version]]

Atomic == INSTANCE AtomicSession WITH
  status <- session.status, pausedFrom <- session.pausedFrom,
  stateVersion <- session.stateVersion, log <- LogView, acks <- result

\* The interleaved transactions implement the atomic session.
ImplementsAtomicSession == Atomic!Spec

\* M5.3: "Publishing after commit ... never leaks an uncommitted state": what a
\* room was sent stays in the log, whatever aborts or dies after it was sent.
PublishedIsCommitted == published \subseteq {e.sequence : e \in events}

\* A call that has been made is answered: the locks, the unique index and the
\* pool never leave it waiting for ever.
EveryCallAnswered ==
  \A r \in Request : pc[r] \in InFlight ~> pc[r] \in Answered

=============================================================================
