------------------------ MODULE SessionServiceProofs ------------------------
(***************************************************************************)
(* Proofs about SessionService, for any set of calls, any commands and any *)
(* pool. The argument: the advisory lock admits one mutation at a time,    *)
(* the unique index one transaction per command, the row lock one          *)
(* allocation; therefore what a transaction read is still true when it     *)
(* commits, and a commit is an atomic append.                              *)
(***************************************************************************)
EXTENDS SessionService, SequenceTheorems, TLAPS

\* A move of the status stays within the two columns it writes.
LEMMA MoveTypes ==
  ASSUME NEW c \in CommandId, Target[c] # NoMove,
         NEW s \in Status, NEW p \in Status \cup {NotPaused}
  PROVE  /\ StatusAfter(c, s, p) \in Status
         /\ PausedFromAfter(c, s, p) \in Status \cup {NotPaused}
<1>1. Target[c] \in Status \cup {Interrupted}
  BY CommandAssumption
<1>2. Destination(c, s, p) \in Status
  BY <1>1 DEF Destination, Status, NotPaused, Interrupted
<1> QED
  BY <1>2 DEF StatusAfter, PausedFromAfter

\* The answer to a command has the type of an answer and is never NoAck.
LEMMA AckTypes ==
  ASSUME NEW c \in CommandId, NEW first \in Nat \ {0}, NEW version \in Nat
  PROVE  /\ AckFor(c, first, version) \in Ack
         /\ AckFor(c, first, version) # NoAck
BY CommandAssumption DEF AckFor, Ack, NoAck

\* The rows a transaction inserts are rows of session_events.
LEMMA AppendedTypes ==
  ASSUME TypeOK, NEW r \in Request
  PROVE  Appended(r) \subseteq Event
<1>1. cmd[r] \in CommandId /\ allocated[r] \in Allocation /\ Drafts[cmd[r]] \in Nat
  BY CommandAssumption DEF TypeOK
<1> QED
  BY <1>1 DEF Appended, Event, Allocation

\* Every variable stays within the columns and call states of the code.
THEOREM TypeCorrect == Spec => []TypeOK
<1> USE CommandAssumption, RequestAssumption DEF Ack, NoAck, SessionRow, Event, Allocation,
        NoExpectation, NotPaused, Status
<1>1. Init => TypeOK
  BY DEF Init, TypeOK, InFlight, Answered
<1>2. TypeOK /\ [Next]_vars => TypeOK'
  <2> SUFFICES ASSUME TypeOK, [Next]_vars PROVE TypeOK'
    OBVIOUS
  <2> USE DEF TypeOK, Answered, InFlight, InTransaction, Goto, Rollback, EndTransaction,
          db, locks, call
  <2>1. ASSUME NEW r \in Request, NEW v \in Expectation(cmd[r]), Call(r, v) PROVE TypeOK'
    BY <2>1 DEF Call, Expectation
  <2>2. ASSUME NEW r \in Request, StoredAck(r) PROVE TypeOK'
    BY <2>2 DEF StoredAck
  <2>3. ASSUME NEW r \in Request, Begin(r) PROVE TypeOK'
    BY <2>3 DEF Begin
  <2>4. ASSUME NEW r \in Request, AdvisoryLock(r) PROVE TypeOK'
    BY <2>4 DEF AdvisoryLock
  <2>5. ASSUME NEW r \in Request, Claim(r) PROVE TypeOK'
    BY <2>5 DEF Claim
  <2>6. ASSUME NEW r \in Request, ClaimViolation(r) PROVE TypeOK'
    BY <2>6 DEF ClaimViolation
  <2>7. ASSUME NEW r \in Request, ReadStored(r) PROVE TypeOK'
    BY <2>7 DEF ReadStored
  <2>8. ASSUME NEW r \in Request, ReadSession(r) PROVE TypeOK'
    BY <2>8 DEF ReadSession
  <2>9. ASSUME NEW r \in Request, Refuse(r) PROVE TypeOK'
    BY <2>9 DEF Refuse
  <2>10. ASSUME NEW r \in Request, Allocate(r) PROVE TypeOK'
    BY <2>10 DEF Allocate, AllocateWith
  <2>11. ASSUME NEW r \in Request, Commit(r) PROVE TypeOK'
    <3> DEFINE n == Drafts[cmd[r]]
               a == allocated[r]
    <3>1. cmd[r] \in CommandId /\ row[r] \in SessionRow /\ a \in Allocation /\ n \in Nat
      OBVIOUS
    <3>2. session' \in SessionRow
      BY <2>11, <3>1, MoveTypes DEF Commit
    <3>3. Appended(r) \subseteq Event
      BY AppendedTypes
    <3>4. AckFor(cmd[r], a.first, a.version) \in Ack
      BY <3>1, AckTypes
    <3> HIDE DEF n, a, Ack, Event, SessionRow, Allocation
    <3>5. events' \subseteq Event /\ result' \in [CommandId -> Ack] /\ reply' \in [Request -> Ack]
      BY <2>11, <3>1, <3>3, <3>4 DEF Commit, a
    <3>6. /\ advisory' \subseteq Request /\ claimed' \subseteq Request
          /\ rowLock' \subseteq Request /\ connections' \subseteq Request
          /\ pc' \in [Request -> Answered \cup InFlight \cup {"idle"}]
      BY <2>11 DEF Commit
    <3>7. UNCHANGED <<published, cmd, expected, row, allocated>>
      BY <2>11 DEF Commit
    <3> QED
      BY <3>2, <3>5, <3>6, <3>7
  <2>12. ASSUME NEW r \in Request, IllegalTransition(r) PROVE TypeOK'
    BY <2>12 DEF IllegalTransition
  <2>13. ASSUME NEW r \in Request, Publish(r) PROVE TypeOK'
    <3>1. {e.sequence : e \in Appended(r)} \subseteq Nat
      BY AppendedTypes
    <3> QED
      BY <2>13, <3>1 DEF Publish
  <2>14. ASSUME NEW r \in Request, Abort(r) PROVE TypeOK'
    BY <2>14 DEF Abort
  <2>15. CASE Crash
    BY <2>15 DEF Crash
  <2>16. CASE UNCHANGED vars
    BY <2>16 DEF vars
  <2> QED
    BY <2>1, <2>2, <2>3, <2>4, <2>5, <2>6, <2>7, <2>8, <2>9, <2>10, <2>11, <2>12, <2>13,
       <2>14, <2>15, <2>16 DEF Next, Step, Terminated
<1> QED
  BY <1>1, <1>2, PTL DEF Spec

-----------------------------------------------------------------------------
(***************************************************************************)
(* What the three locks guard. The right-hand sides say which part of the  *)
(* transaction each covers, the last conjuncts what holding one means. *)
(***************************************************************************)
Locked == {"claim", "read", "allocate", "commit"}

LockInv ==
  \A r \in Request :
    /\ pc[r] = "lock" => Mutating(cmd[r])
    /\ r \in advisory <=> Mutating(cmd[r]) /\ pc[r] \in Locked
    /\ r \in claimed <=> pc[r] \in {"read", "allocate", "commit"}
    /\ r \in rowLock <=> pc[r] = "commit"
    /\ \A q \in Request :
         /\ q \in advisory /\ r \in advisory => q = r
         /\ q \in claimed /\ r \in claimed /\ cmd[q] = cmd[r] => q = r
         /\ q \in rowLock /\ r \in rowLock => q = r
    /\ r \in claimed => result[cmd[r]] = NoAck

\* The locks are held exactly over the statements the code takes them for, by
\* one mutation, one transaction per command and one allocation at a time.
LEMMA LockDiscipline == Spec => []LockInv
<1>1. Init => LockInv
  BY DEF Init, LockInv, Locked
<1>2. TypeOK /\ LockInv /\ [Next]_vars => LockInv'
  <2> SUFFICES ASSUME TypeOK, LockInv, [Next]_vars PROVE LockInv'
    OBVIOUS
  <2> USE DEF Locked, Goto, Rollback, EndTransaction, db, locks, call
  <2>1. ASSUME NEW r \in Request, NEW v \in Expectation(cmd[r]), Call(r, v) PROVE LockInv'
    BY <2>1 DEF TypeOK, LockInv, Call, Mutating
  <2>2. ASSUME NEW r \in Request, StoredAck(r) PROVE LockInv'
    BY <2>2 DEF TypeOK, LockInv, StoredAck, Mutating
  <2>3. ASSUME NEW r \in Request, Begin(r) PROVE LockInv'
    BY <2>3 DEF TypeOK, LockInv, Begin, Mutating
  <2>4. ASSUME NEW r \in Request, AdvisoryLock(r) PROVE LockInv'
    BY <2>4 DEF TypeOK, LockInv, AdvisoryLock, Mutating
  <2>5. ASSUME NEW r \in Request, Claim(r) PROVE LockInv'
    BY <2>5 DEF TypeOK, LockInv, Claim, KeyFree, Mutating
  <2>6. ASSUME NEW r \in Request, ClaimViolation(r) PROVE LockInv'
    BY <2>6 DEF TypeOK, LockInv, ClaimViolation, Mutating
  <2>7. ASSUME NEW r \in Request, ReadStored(r) PROVE LockInv'
    BY <2>7 DEF TypeOK, LockInv, ReadStored, Mutating
  <2>8. ASSUME NEW r \in Request, ReadSession(r) PROVE LockInv'
    BY <2>8 DEF TypeOK, LockInv, ReadSession, Mutating
  <2>9. ASSUME NEW r \in Request, Refuse(r) PROVE LockInv'
    BY <2>9 DEF TypeOK, LockInv, Refuse, Mutating
  <2>10. ASSUME NEW r \in Request, Allocate(r) PROVE LockInv'
    BY <2>10 DEF TypeOK, LockInv, Allocate, AllocateWith, Mutating
  <2>11. ASSUME NEW r \in Request, Commit(r) PROVE LockInv'
    <3>1. pc[r] = "commit" /\ r \in claimed
      BY <2>11 DEF Commit, LockInv
    <3>2. \A q \in Request : q # r /\ q \in claimed => result'[cmd[q]] = result[cmd[q]]
      BY <2>11, <3>1 DEF Commit, LockInv, TypeOK
    <3>3. /\ advisory' = advisory \ {r} /\ claimed' = claimed \ {r}
          /\ rowLock' = rowLock \ {r}
          /\ pc' = [pc EXCEPT ![r] = "publish"] /\ cmd' = cmd
      BY <2>11 DEF Commit
    <3> QED
      BY <3>1, <3>2, <3>3 DEF TypeOK, LockInv, Mutating
  <2>12. ASSUME NEW r \in Request, IllegalTransition(r) PROVE LockInv'
    BY <2>12 DEF TypeOK, LockInv, IllegalTransition, Mutating
  <2>13. ASSUME NEW r \in Request, Publish(r) PROVE LockInv'
    BY <2>13 DEF TypeOK, LockInv, Publish, Mutating
  <2>14. ASSUME NEW r \in Request, Abort(r) PROVE LockInv'
    BY <2>14 DEF TypeOK, LockInv, Abort, InTransaction, Mutating
  <2>15. CASE Crash
    BY <2>15 DEF TypeOK, LockInv, Crash, InFlight, InTransaction, Mutating
  <2>16. CASE UNCHANGED vars
    BY <2>16 DEF vars, LockInv, Mutating
  <2> QED
    BY <2>1, <2>2, <2>3, <2>4, <2>5, <2>6, <2>7, <2>8, <2>9, <2>10, <2>11, <2>12, <2>13,
       <2>14, <2>15, <2>16 DEF Next, Step, Terminated
<1> QED
  BY <1>1, <1>2, TypeCorrect, PTL DEF Spec

-----------------------------------------------------------------------------
(***************************************************************************)
(* What a transaction knows between its statements: the row a mutation     *)
(* read and the numbers it was allocated are those of the committed row,   *)
(* and the refusals it passed still stand.                                 *)
(***************************************************************************)
AllocationIsNext ==
  \A r \in Request :
    pc[r] = "commit" =>
      /\ allocated[r].first = session.nextSequence
      /\ allocated[r].version =
           session.stateVersion + (IF Mutating(cmd[r]) THEN 1 ELSE 0)

ChecksPassed ==
  \A r \in Request :
    pc[r] \in {"allocate", "commit"} =>
      /\ ~RefusedAsPaused(cmd[r], row[r].status)
      /\ Mutating(cmd[r]) /\ expected[r] # NoExpectation =>
           expected[r] = row[r].stateVersion

CurrentInv == DecidesOnCurrentRow /\ AllocationIsNext /\ ChecksPassed

\* Only a commit writes the database; every other step leaves it as it was.
LEMMA OnlyCommitWrites ==
  ASSUME [Next]_vars
  PROVE  UNCHANGED db \/ \E r \in Request : Commit(r)
BY DEF Next, Step, Terminated, vars, db, Call, StoredAck, Begin, AdvisoryLock, Claim,
       ClaimViolation, ReadStored, ReadSession, Refuse, Allocate, AllocateWith, IllegalTransition, Publish,
       Abort, Crash, Rollback

\* A commit by one call while another is between its read and its commit: the
\* committing call is chat or the other is, and no row lock is held twice.
LEMMA CommitKeepsOthersCurrent ==
  ASSUME TypeOK, LockInv, CurrentInv, NEW r \in Request, Commit(r)
  PROVE  CurrentInv'
<1>1. /\ pc[r] = "commit" /\ pc' = [pc EXCEPT ![r] = "publish"]
      /\ UNCHANGED <<cmd, expected, row, allocated>>
  BY DEF Commit, Goto
<1>2. \A q \in Request : pc[q] = "commit" => q = r
  BY <1>1 DEF LockInv
<1>3. \A q \in Request : pc'[q] \in {"allocate", "commit"} => q # r /\ pc[q] = "allocate"
  BY <1>1, <1>2 DEF TypeOK
<1>4. ASSUME NEW q \in Request, pc'[q] \in {"allocate", "commit"}, Mutating(cmd[q])
      PROVE  /\ session'.status = session.status
             /\ session'.pausedFrom = session.pausedFrom
             /\ session'.stateVersion = session.stateVersion
  <2>1. ~Mutating(cmd[r])
    BY <1>1, <1>3, <1>4 DEF LockInv, Locked
  <2>2. Target[cmd[r]] = NoMove
    BY <2>1, CommandAssumption DEF Mutating, TypeOK
  <2>3. allocated[r].version = session.stateVersion
    BY <1>1, <2>1 DEF CurrentInv, AllocationIsNext, TypeOK, SessionRow
  <2> QED
    BY <2>2, <2>3 DEF Commit
<1>5. DecidesOnCurrentRow'
  BY <1>1, <1>3, <1>4 DEF CurrentInv, DecidesOnCurrentRow
<1>6. AllocationIsNext'
  BY <1>1, <1>3 DEF TypeOK, AllocationIsNext
<1>7. ChecksPassed'
  BY <1>1, <1>3 DEF CurrentInv, ChecksPassed
<1> QED
  BY <1>5, <1>6, <1>7 DEF CurrentInv

\* What a transaction read and was allocated stays true until it commits.
LEMMA TransactionsAreCurrent == Spec => []CurrentInv
<1> USE DEF Goto, Rollback, EndTransaction, db, locks, call
<1>1. Init => CurrentInv
  BY DEF Init, CurrentInv, DecidesOnCurrentRow, AllocationIsNext, ChecksPassed
<1>2. TypeOK /\ LockInv /\ CurrentInv /\ [Next]_vars => CurrentInv'
  <2> SUFFICES ASSUME TypeOK, LockInv, CurrentInv, [Next]_vars PROVE CurrentInv'
    OBVIOUS
  <2> USE DEF CurrentInv, DecidesOnCurrentRow, AllocationIsNext, ChecksPassed
  <2>1. ASSUME NEW r \in Request, NEW v \in Expectation(cmd[r]), Call(r, v) PROVE CurrentInv'
    BY <2>1 DEF TypeOK, Call
  <2>2. ASSUME NEW r \in Request, StoredAck(r) PROVE CurrentInv'
    BY <2>2 DEF TypeOK, StoredAck
  <2>3. ASSUME NEW r \in Request, Begin(r) PROVE CurrentInv'
    BY <2>3 DEF TypeOK, Begin
  <2>4. ASSUME NEW r \in Request, AdvisoryLock(r) PROVE CurrentInv'
    BY <2>4 DEF TypeOK, AdvisoryLock
  <2>5. ASSUME NEW r \in Request, Claim(r) PROVE CurrentInv'
    BY <2>5 DEF TypeOK, Claim
  <2>6. ASSUME NEW r \in Request, ClaimViolation(r) PROVE CurrentInv'
    BY <2>6 DEF TypeOK, ClaimViolation
  <2>7. ASSUME NEW r \in Request, ReadStored(r) PROVE CurrentInv'
    BY <2>7 DEF TypeOK, ReadStored
  <2>8. ASSUME NEW r \in Request, ReadSession(r) PROVE CurrentInv'
    BY <2>8 DEF TypeOK, ReadSession, StateConflict
  <2>9. ASSUME NEW r \in Request, Refuse(r) PROVE CurrentInv'
    BY <2>9 DEF TypeOK, Refuse
  <2>10. ASSUME NEW r \in Request, Allocate(r) PROVE CurrentInv'
    BY <2>10 DEF TypeOK, Allocate, AllocateWith, Mutating
  <2>11. ASSUME NEW r \in Request, Commit(r) PROVE CurrentInv'
    BY <2>11, CommitKeepsOthersCurrent
  <2>12. ASSUME NEW r \in Request, IllegalTransition(r) PROVE CurrentInv'
    BY <2>12 DEF TypeOK, IllegalTransition
  <2>13. ASSUME NEW r \in Request, Publish(r) PROVE CurrentInv'
    BY <2>13 DEF TypeOK, Publish
  <2>14. ASSUME NEW r \in Request, Abort(r) PROVE CurrentInv'
    BY <2>14 DEF TypeOK, Abort
  <2>15. CASE Crash
    BY <2>15 DEF TypeOK, Crash, InFlight, InTransaction
  <2>16. CASE UNCHANGED vars
    BY <2>16 DEF vars
  <2> QED
    BY <2>1, <2>2, <2>3, <2>4, <2>5, <2>6, <2>7, <2>8, <2>9, <2>10, <2>11, <2>12, <2>13,
       <2>14, <2>15, <2>16 DEF Next, Step, Terminated
<1> QED
  BY <1>1, <1>2, TypeCorrect, LockDiscipline, PTL DEF Spec

\* M5.2: a mutation appends and moves the session from the row it read.
THEOREM MutationsDecideOnCurrentRow == Spec => []DecidesOnCurrentRow
<1>1. CurrentInv => DecidesOnCurrentRow
  BY DEF CurrentInv
<1> QED
  BY <1>1, TransactionsAreCurrent, PTL

-----------------------------------------------------------------------------
(***************************************************************************)
(* A commit is an atomic append to the committed state.                    *)
(***************************************************************************)
VersionOf(c) == session.stateVersion + (IF Mutating(c) THEN 1 ELSE 0)

BatchOf(c) ==
  {[sequence |-> session.nextSequence + offset, command |-> c, version |-> VersionOf(c)] :
     offset \in 0..(Drafts[c] - 1)}

AtomicAppend(c) ==
  /\ result[c] = NoAck
  /\ ~RefusedAsPaused(c, session.status)
  /\ LegalMove(c, session.status, session.pausedFrom)
  /\ events' = events \cup BatchOf(c)
  /\ session'.status = StatusAfter(c, session.status, session.pausedFrom)
  /\ session'.pausedFrom = PausedFromAfter(c, session.status, session.pausedFrom)
  /\ session'.nextSequence = session.nextSequence + Drafts[c]
  /\ session'.stateVersion = VersionOf(c)
  /\ result' = [result EXCEPT ![c] = AckFor(c, session.nextSequence, VersionOf(c))]

\* Although it decides on a row read statements earlier, a commit acts on the
\* committed row as if the whole transaction had happened in that instant.
LEMMA CommitIsAtomic ==
  ASSUME TypeOK, LockInv, CurrentInv, NEW r \in Request, Commit(r)
  PROVE  AtomicAppend(cmd[r])
<1> DEFINE c == cmd[r]
<1>1. c \in CommandId /\ pc[r] = "commit" /\ row[r] \in SessionRow /\ session \in SessionRow
  BY DEF TypeOK, Commit
<1>2. result[c] = NoAck
  BY <1>1 DEF LockInv
<1>3. /\ allocated[r].first = session.nextSequence
      /\ allocated[r].version = VersionOf(c)
  BY <1>1 DEF CurrentInv, AllocationIsNext, VersionOf
<1>4. Appended(r) = BatchOf(c)
  BY <1>3 DEF Appended, BatchOf
<1>5. /\ events' = events \cup BatchOf(c)
      /\ session'.nextSequence = session.nextSequence + Drafts[c]
      /\ session'.stateVersion = VersionOf(c)
      /\ result' = [result EXCEPT ![c] = AckFor(c, session.nextSequence, VersionOf(c))]
  BY <1>3, <1>4 DEF Commit
<1>6. /\ ~RefusedAsPaused(c, session.status)
      /\ LegalMove(c, session.status, session.pausedFrom)
      /\ session'.status = StatusAfter(c, session.status, session.pausedFrom)
      /\ session'.pausedFrom = PausedFromAfter(c, session.status, session.pausedFrom)
  <2>. DEFINE rr == row[r]
  <2>0. /\ LegalMove(c, rr.status, rr.pausedFrom)
        /\ session'.status = IF Target[c] = NoMove THEN session.status
                              ELSE StatusAfter(c, rr.status, rr.pausedFrom)
        /\ session'.pausedFrom = IF Target[c] = NoMove THEN session.pausedFrom
                                  ELSE PausedFromAfter(c, rr.status, rr.pausedFrom)
    BY DEF Commit
  <2>1. CASE Mutating(c)
    <3>1. row[r].status = session.status /\ row[r].pausedFrom = session.pausedFrom
      BY <1>1, <2>1 DEF CurrentInv, DecidesOnCurrentRow
    <3>2. ~RefusedAsPaused(c, session.status)
      BY <1>1, <3>1 DEF CurrentInv, ChecksPassed
    <3> QED
      BY <2>0, <3>1, <3>2 DEF StatusAfter, PausedFromAfter, NoMove
  <2>2. CASE ~Mutating(c)
    <3>1. Target[c] = NoMove /\ Mode[c] = "chat"
      BY <1>1, <2>2, CommandAssumption DEF Mutating
    <3> QED
      BY <2>0, <3>1 DEF RefusedAsPaused, LegalMove, StatusAfter, PausedFromAfter, NoMove
  <2> QED
    BY <2>1, <2>2
<1> QED
  BY <1>2, <1>5, <1>6 DEF AtomicAppend

\* Every step either leaves the committed state alone or is one atomic append.
LEMMA StepsAppend ==
  ASSUME TypeOK, LockInv, CurrentInv, [Next]_vars
  PROVE  UNCHANGED db \/ \E c \in CommandId : AtomicAppend(c)
BY OnlyCommitWrites, CommitIsAtomic DEF TypeOK

\* The log has no gap, no duplicate and nothing beyond next_sequence.
THEOREM NoGaps == Spec => []LogContiguous
<1>1. Init => LogContiguous
  BY DEF Init, LogContiguous
<1>2. TypeOK /\ LockInv /\ CurrentInv /\ LogContiguous /\ [Next]_vars => LogContiguous'
  <2> SUFFICES ASSUME TypeOK, LockInv, CurrentInv, LogContiguous, [Next]_vars
               PROVE  LogContiguous'
    OBVIOUS
  <2>1. CASE UNCHANGED db
    BY <2>1 DEF db, LogContiguous
  <2>2. ASSUME NEW c \in CommandId, AtomicAppend(c) PROVE LogContiguous'
    <3> DEFINE n == session.nextSequence
               k == Drafts[c]
    <3>1. n \in Nat \ {0} /\ k \in Nat /\ session'.nextSequence = n + k
      BY <2>2, CommandAssumption DEF TypeOK, SessionRow, AtomicAppend
    <3>2. \A e \in BatchOf(c) : e.sequence \in n..(n + k - 1)
      BY <3>1 DEF BatchOf
    <3>3. \A i \in n..(n + k - 1) : \E e \in BatchOf(c) : e.sequence = i
      <4> SUFFICES ASSUME NEW i \in n..(n + k - 1)
                   PROVE  \E e \in BatchOf(c) : e.sequence = i
        OBVIOUS
      <4>1. i - n \in 0..(k - 1) /\ n + (i - n) = i
        BY <3>1
      <4> DEFINE e == [sequence |-> n + (i - n), command |-> c, version |-> VersionOf(c)]
      <4>2. e \in BatchOf(c)
        BY <4>1 DEF BatchOf
      <4> QED
        BY <4>1, <4>2
    <3>4. \A e, f \in BatchOf(c) : e.sequence = f.sequence => e = f
      BY <3>1 DEF BatchOf
    <3>5. \A e \in events : e.sequence \in Nat \ {0} /\ e.sequence < n
      BY DEF TypeOK, Event, LogContiguous
    <3>6. events' = events \cup BatchOf(c)
      BY <2>2 DEF AtomicAppend
    <3> HIDE DEF n, k
    <3>7. \A e \in events' : e.sequence < n + k
      BY <3>1, <3>2, <3>5, <3>6
    <3>8. \A i \in 1..(n + k - 1) : \E e \in events' : e.sequence = i
      BY <3>1, <3>3, <3>6 DEF LogContiguous, n
    <3>9. \A e, f \in events' : e.sequence = f.sequence => e = f
      BY <3>1, <3>2, <3>4, <3>5, <3>6 DEF LogContiguous
    <3> QED
      BY <3>1, <3>7, <3>8, <3>9 DEF LogContiguous
  <2> QED
    BY <2>1, <2>2, StepsAppend
<1> QED
  BY <1>1, <1>2, TypeCorrect, LockDiscipline, TransactionsAreCurrent, PTL DEF Spec

\* A command has exactly the events its answer describes, or none of either:
\* no interleaving of retries makes it take effect twice or by half.
THEOREM AnswersDescribeLog == Spec => []AnswerDescribesLog
<1>1. Init => AnswerDescribesLog
  BY DEF Init, AnswerDescribesLog, EventsOf
<1>2. TypeOK /\ LockInv /\ CurrentInv /\ AnswerDescribesLog /\ [Next]_vars
        => AnswerDescribesLog'
  <2> SUFFICES ASSUME TypeOK, LockInv, CurrentInv, AnswerDescribesLog, [Next]_vars
               PROVE  AnswerDescribesLog'
    OBVIOUS
  <2>1. CASE UNCHANGED db
    BY <2>1 DEF db, AnswerDescribesLog, EventsOf
  <2>2. ASSUME NEW c \in CommandId, AtomicAppend(c) PROVE AnswerDescribesLog'
    <3> DEFINE n == session.nextSequence
               k == Drafts[c]
               v == VersionOf(c)
               Described(d) == {[sequence |-> i, command |-> d, version |-> result'[d].version] :
                                  i \in (result'[d].sequence - Drafts[d] + 1)..result'[d].sequence}
    <3>1. n \in Nat \ {0} /\ k \in Nat /\ v \in Nat
      BY CommandAssumption DEF TypeOK, SessionRow, VersionOf
    <3>2. /\ events' = events \cup BatchOf(c)
          /\ result[c] = NoAck
          /\ result' = [result EXCEPT ![c] = AckFor(c, n, v)]
      BY <2>2 DEF AtomicAppend
    <3>3. \A e \in BatchOf(c) : e.command = c
      BY DEF BatchOf
    <3>4. ASSUME NEW d \in CommandId, d # c
          PROVE  result'[d] = result[d] /\ EventsOf(d)' = EventsOf(d)
      BY <3>2, <3>3, <3>4 DEF EventsOf, TypeOK
    <3>5. result'[c] = AckFor(c, n, v) /\ result'[c] # NoAck
      BY <3>1, <3>2, AckTypes DEF TypeOK
    <3>6. EventsOf(c)' = BatchOf(c)
      BY <3>2, <3>3 DEF AnswerDescribesLog, EventsOf
    <3>7. BatchOf(c) = Described(c)
      <4>1. result'[c].version = v
        BY <3>5 DEF AckFor
      <4>2. (result'[c].sequence - k + 1)..result'[c].sequence = n..(n + k - 1)
        BY <3>1, <3>5 DEF AckFor
      <4>3. Described(c) = {[sequence |-> i, command |-> c, version |-> v] : i \in n..(n + k - 1)}
        BY <4>1, <4>2
      <4>4. \A i \in n..(n + k - 1) : i - n \in 0..(k - 1) /\ n + (i - n) = i
        BY <3>1
      <4>5. \A o \in 0..(k - 1) : n + o \in n..(n + k - 1)
        BY <3>1
      <4> HIDE DEF n, k, v, Described
      <4>6. BatchOf(c) = {[sequence |-> n + o, command |-> c, version |-> v] : o \in 0..(k - 1)}
        BY DEF BatchOf, n, k, v
      <4>7. Described(c) \subseteq BatchOf(c)
        BY <4>3, <4>4, <4>6
      <4> QED
        BY <4>3, <4>5, <4>6, <4>7
    <3> HIDE DEF n, k, v
    <3> QED
      BY <3>4, <3>5, <3>6, <3>7 DEF AnswerDescribesLog, EventsOf
  <2> QED
    BY <2>1, <2>2, StepsAppend
<1> QED
  BY <1>1, <1>2, TypeCorrect, LockDiscipline, TransactionsAreCurrent, PTL DEF Spec

\* M5.3: what a room was sent is committed: the call that emits the events has
\* appended them, and committed events are never taken back.
THEOREM PublishesAfterCommit == Spec => []PublishedIsCommitted
<1> DEFINE Emitted == \A r \in Request : pc[r] = "publish" => Appended(r) \subseteq events
           Inv == PublishedIsCommitted /\ Emitted
<1>1. Init => Inv
  BY DEF Init, PublishedIsCommitted
<1>2. TypeOK /\ Inv /\ [Next]_vars => Inv'
  <2> SUFFICES ASSUME TypeOK, Inv, [Next]_vars PROVE Inv'
    OBVIOUS
  <2> USE DEF PublishedIsCommitted
  <2>1. ASSUME NEW r \in Request, Commit(r) PROVE Inv'
    BY <2>1 DEF Commit, Goto, Appended, TypeOK
  <2>2. ASSUME NEW r \in Request, Publish(r) PROVE Inv'
    BY <2>2 DEF Publish, Goto, Appended, TypeOK, db, call
  <2>3. ASSUME /\ UNCHANGED <<published, events>>
               /\ \A q \in Request : pc'[q] = "publish" =>
                    pc[q] = "publish" /\ cmd'[q] = cmd[q] /\ allocated'[q] = allocated[q]
        PROVE  Inv'
    BY <2>3 DEF Appended
  <2> QED
    BY <2>1, <2>2, <2>3
       DEF TypeOK, Next, Step, Terminated, vars, db, locks, call, Call, StoredAck, Begin,
           AdvisoryLock, Claim, ClaimViolation, ReadStored, ReadSession, Refuse, Allocate,
           AllocateWith, IllegalTransition, Abort, Crash, Rollback, EndTransaction, Goto, InFlight
<1> QED
  BY <1>1, <1>2, TypeCorrect, PTL DEF Spec

\* state_version is a bijection between its values and the committed mutations.
THEOREM VersionsCountMutations == Spec => []OneVersionPerMutation
<1>1. Init => OneVersionPerMutation
  BY DEF Init, OneVersionPerMutation
<1>2. TypeOK /\ LockInv /\ CurrentInv /\ OneVersionPerMutation /\ [Next]_vars
        => OneVersionPerMutation'
  <2> SUFFICES ASSUME TypeOK, LockInv, CurrentInv, OneVersionPerMutation, [Next]_vars
               PROVE  OneVersionPerMutation'
    OBVIOUS
  <2>1. CASE UNCHANGED db
    BY <2>1 DEF db, OneVersionPerMutation, Mutating
  <2>2. ASSUME NEW c \in CommandId, AtomicAppend(c) PROVE OneVersionPerMutation'
    <3> DEFINE v == session.stateVersion
               done == {d \in CommandId : Mutating(d) /\ result[d] # NoAck}
    <3>1. v \in Nat /\ session'.stateVersion = VersionOf(c) /\ VersionOf(c) \in Nat
      BY <2>2 DEF TypeOK, SessionRow, AtomicAppend, VersionOf
    <3>2. result[c] = NoAck /\ \A d \in CommandId : d # c => result'[d] = result[d]
      BY <2>2 DEF AtomicAppend, TypeOK
    <3>3. result'[c].version = VersionOf(c) /\ result'[c] # NoAck
      BY <2>2, <3>1, AckTypes DEF AtomicAppend, TypeOK, SessionRow, AckFor
    <3>4. CASE Mutating(c)
      <4>1. done' = done \cup {c} /\ c \notin done /\ VersionOf(c) = v + 1
        BY <3>2, <3>3, <3>4 DEF Mutating, VersionOf
      <4> QED
        BY <3>1, <3>2, <3>3, <4>1 DEF OneVersionPerMutation
    <3>5. CASE ~Mutating(c)
      <4>1. done' = done /\ c \notin done /\ VersionOf(c) = v
        BY <3>1, <3>2, <3>3, <3>5 DEF Mutating, VersionOf
      <4> QED
        BY <3>1, <3>2, <4>1 DEF OneVersionPerMutation
    <3> QED
      BY <3>4, <3>5
  <2> QED
    BY <2>1, <2>2, StepsAppend
<1> QED
  BY <1>1, <1>2, TypeCorrect, LockDiscipline, TransactionsAreCurrent, PTL DEF Spec

\* Along the log state_version never decreases, chat lines included.
THEOREM VersionsNeverDecrease == Spec => []VersionsFollowSequence
<1> DEFINE Bounded == \A e \in events : e.version <= session.stateVersion
           Inv == Bounded /\ VersionsFollowSequence
<1>1. Init => Inv
  BY DEF Init, VersionsFollowSequence
<1>2. TypeOK /\ LockInv /\ CurrentInv /\ LogContiguous /\ Inv /\ [Next]_vars => Inv'
  <2> SUFFICES ASSUME TypeOK, LockInv, CurrentInv, LogContiguous, Inv, [Next]_vars
               PROVE  Inv'
    OBVIOUS
  <2>1. CASE UNCHANGED db
    BY <2>1 DEF db, VersionsFollowSequence
  <2>2. ASSUME NEW c \in CommandId, AtomicAppend(c) PROVE Inv'
    <3> DEFINE n == session.nextSequence
               v == VersionOf(c)
    <3>1. /\ n \in Nat /\ v \in Nat /\ session.stateVersion \in Nat
          /\ session.stateVersion <= v /\ session'.stateVersion = v
          /\ events' = events \cup BatchOf(c)
      BY <2>2 DEF TypeOK, SessionRow, AtomicAppend, VersionOf
    <3>2. \A e \in BatchOf(c) : e.sequence \in Int /\ e.sequence >= n /\ e.version = v
      BY <3>1, CommandAssumption DEF BatchOf
    <3>3. \A e \in events : /\ e.sequence \in Int /\ e.sequence < n
                            /\ e.version \in Int /\ e.version <= session.stateVersion
      BY DEF TypeOK, Event, LogContiguous
    <3> HIDE DEF n, v
    <3>4. Bounded'
      BY <3>1, <3>2, <3>3
    <3>5. VersionsFollowSequence'
      BY <3>1, <3>2, <3>3 DEF VersionsFollowSequence
    <3> QED
      BY <3>4, <3>5
  <2> QED
    BY <2>1, <2>2, StepsAppend
<1>3. Inv => VersionsFollowSequence
  OBVIOUS
<1> HIDE DEF Inv
<1> QED
  BY <1>1, <1>2, <1>3, TypeCorrect, LockDiscipline, TransactionsAreCurrent, NoGaps, PTL DEF Spec

\* A stored answer is never replaced.
LEMMA AnswersAreFinal ==
  ASSUME TypeOK, LockInv, CurrentInv, [Next]_vars, NEW c \in CommandId, result[c] # NoAck
  PROVE  result'[c] = result[c]
<1>1. CASE UNCHANGED db
  BY <1>1 DEF db
<1>2. ASSUME NEW d \in CommandId, AtomicAppend(d) PROVE result'[c] = result[c]
  BY <1>2 DEF AtomicAppend, TypeOK
<1> QED
  BY <1>1, <1>2, StepsAppend

\* The original call and every duplicate give the one stored answer.
THEOREM DuplicatesAgree == Spec => []AnswersAgree
<1>1. Init => AnswersAgree
  BY DEF Init, AnswersAgree
<1>2. TypeOK /\ LockInv /\ CurrentInv /\ AnswersAgree /\ [Next]_vars => AnswersAgree'
  <2> SUFFICES ASSUME TypeOK, LockInv, CurrentInv, AnswersAgree, [Next]_vars,
                      NEW q \in Request, pc'[q] \in {"publish", "acked", "replayed"}
               PROVE  reply'[q] = result'[cmd[q]] /\ reply'[q] # NoAck /\ cmd' = cmd
    BY DEF AnswersAgree
  <2> DEFINE Ended == {"publish", "acked", "replayed"}
  <2>1. cmd' = cmd /\ cmd[q] \in CommandId
    BY DEF TypeOK, Next, Step, Terminated, vars, call, Call, StoredAck, Begin, AdvisoryLock,
           Claim, ClaimViolation, ReadStored, ReadSession, Refuse, Allocate, AllocateWith, Commit,
           IllegalTransition, Publish, Abort, Crash, Rollback
  <2>2. CASE pc[q] \in Ended /\ reply'[q] = reply[q]
    BY <2>1, <2>2, AnswersAreFinal DEF AnswersAgree
  <2>3. CASE \E r \in Request : Commit(r) /\ r = q
    <3>1. reply'[q] = AckFor(cmd[q], allocated[q].first, allocated[q].version)
      BY <2>3 DEF Commit, TypeOK
    <3>2. result'[cmd[q]] = AckFor(cmd[q], allocated[q].first, allocated[q].version)
      BY <2>1, <2>3 DEF Commit, TypeOK
    <3>3. allocated[q].first \in Nat \ {0} /\ allocated[q].version \in Nat
      BY DEF TypeOK, Allocation
    <3> QED
      BY <2>1, <3>1, <3>2, <3>3, AckTypes
  <2>4. CASE StoredAck(q) \/ ReadStored(q)
    BY <2>1, <2>4 DEF StoredAck, ReadStored, TypeOK, Goto, db
  <2>5. \/ pc[q] \in Ended /\ reply'[q] = reply[q]
        \/ \E r \in Request : Commit(r) /\ r = q
        \/ StoredAck(q) \/ ReadStored(q)
    <3> USE DEF TypeOK, Goto, Rollback, db, locks, call
    <3>1. ASSUME NEW r \in Request, NEW v \in Expectation(cmd[r]), Call(r, v)
          PROVE  pc[q] \in Ended /\ reply'[q] = reply[q]
      BY <3>1 DEF Call
    <3>2. ASSUME NEW r \in Request, StoredAck(r), r # q
          PROVE  pc[q] \in Ended /\ reply'[q] = reply[q]
      BY <3>2 DEF StoredAck
    <3>3. ASSUME NEW r \in Request, ReadStored(r), r # q
          PROVE  pc[q] \in Ended /\ reply'[q] = reply[q]
      BY <3>3 DEF ReadStored
    <3>4. ASSUME NEW r \in Request, Commit(r), r # q
          PROVE  pc[q] \in Ended /\ reply'[q] = reply[q]
      BY <3>4 DEF Commit
    <3>5. ASSUME NEW r \in Request,
                 Begin(r) \/ AdvisoryLock(r) \/ Claim(r) \/ ClaimViolation(r) \/ ReadSession(r)
          PROVE  pc[q] \in Ended /\ reply'[q] = reply[q]
      BY <3>5 DEF Begin, AdvisoryLock, Claim, ClaimViolation, ReadSession
    <3>6. ASSUME NEW r \in Request,
                 Refuse(r) \/ Allocate(r) \/ IllegalTransition(r) \/ Publish(r) \/ Abort(r)
          PROVE  pc[q] \in Ended /\ reply'[q] = reply[q]
      BY <3>6 DEF Refuse, Allocate, AllocateWith, IllegalTransition, Publish, Abort
    <3>7. CASE Crash
      BY <3>7 DEF Crash
    <3>8. CASE UNCHANGED vars
      BY <3>8 DEF vars
    <3> QED
      BY <3>1, <3>2, <3>3, <3>4, <3>5, <3>6, <3>7, <3>8 DEF Next, Step, Terminated
  <2> QED
    BY <2>2, <2>3, <2>4, <2>5
<1> QED
  BY <1>1, <1>2, TypeCorrect, LockDiscipline, TransactionsAreCurrent, PTL DEF Spec

-----------------------------------------------------------------------------
\* Once a call has been made, it carries null exactly if the server made it.
ExpectationInv ==
  \A r \in Request :
    pc[r] # "idle" => (cmd[r] \in Internal <=> expected[r] = NoExpectation)

LEMMA ExpectationsAreKept == Spec => []ExpectationInv
<1>1. Init => ExpectationInv
  BY DEF Init, ExpectationInv
<1>2. TypeOK /\ ExpectationInv /\ [Next]_vars => ExpectationInv'
  <2> SUFFICES ASSUME TypeOK, ExpectationInv, [Next]_vars PROVE ExpectationInv'
    OBVIOUS
  <2> USE DEF TypeOK, ExpectationInv, Goto, Rollback, locks, call
  <2>1. ASSUME NEW r \in Request, NEW v \in Expectation(cmd[r]), Call(r, v)
        PROVE  ExpectationInv'
    BY <2>1 DEF Call, Expectation, NoExpectation, SessionRow
  <2>2. ASSUME NEW r \in Request,
               StoredAck(r) \/ Begin(r) \/ AdvisoryLock(r) \/ Claim(r) \/ ClaimViolation(r)
        PROVE  ExpectationInv'
    BY <2>2 DEF StoredAck, Begin, AdvisoryLock, Claim, ClaimViolation
  <2>3. ASSUME NEW r \in Request,
               ReadStored(r) \/ ReadSession(r) \/ Refuse(r) \/ Allocate(r) \/ Commit(r)
        PROVE  ExpectationInv'
    BY <2>3 DEF ReadStored, ReadSession, Refuse, Allocate, AllocateWith, Commit
  <2>4. ASSUME NEW r \in Request, IllegalTransition(r) \/ Publish(r) \/ Abort(r)
        PROVE  ExpectationInv'
    BY <2>4 DEF IllegalTransition, Publish, Abort, InTransaction
  <2>5. CASE Crash
    BY <2>5 DEF Crash, InFlight, InTransaction
  <2>6. CASE UNCHANGED vars
    BY <2>6 DEF vars
  <2> QED
    BY <2>1, <2>2, <2>3, <2>4, <2>5, <2>6 DEF Next, Step, Terminated
<1> QED
  BY <1>1, <1>2, TypeCorrect, PTL DEF Spec

\* M5.4: a client's mutation that commits was built for the version it commits on.
THEOREM ClientsCommitOnShownVersion == Spec => CommitsOnShownVersion
<1>1. TypeOK /\ LockInv /\ CurrentInv /\ ExpectationInv /\ [Next]_vars => [OnShownVersion]_vars
  <2> SUFFICES ASSUME TypeOK, LockInv, CurrentInv, ExpectationInv, [Next]_vars,
                      NEW c \in CommandId \ Internal, Mutating(c),
                      result[c] = NoAck, result'[c] # NoAck
               PROVE  \E r \in Request : cmd[r] = c /\ expected[r] = session.stateVersion
    BY DEF OnShownVersion
  <2>1. PICK r \in Request : Commit(r)
    BY OnlyCommitWrites DEF db
  <2>2. cmd[r] = c /\ pc[r] = "commit"
    BY <2>1 DEF Commit, TypeOK
  <2>3. expected[r] # NoExpectation
    BY <2>2 DEF ExpectationInv
  <2>4. expected[r] = row[r].stateVersion /\ row[r].stateVersion = session.stateVersion
    BY <2>2, <2>3 DEF CurrentInv, ChecksPassed, DecidesOnCurrentRow
  <2> QED
    BY <2>2, <2>4
<1> QED
  BY <1>1, TypeCorrect, LockDiscipline, TransactionsAreCurrent, ExpectationsAreKept, PTL
     DEF Spec, CommitsOnShownVersion

\* M5.6: a pause yields only to the host, the end to nobody.
THEOREM PausesAndEndsHold == Spec => PauseAndEndHold
<1>1. TypeOK /\ LockInv /\ CurrentInv /\ [Next]_vars => [PausedStepIsHost /\ EndedStaysPut]_vars
  <2> SUFFICES ASSUME TypeOK, LockInv, CurrentInv, [Next]_vars
               PROVE  PausedStepIsHost /\ EndedStaysPut
    OBVIOUS
  <2>1. CASE UNCHANGED db
    BY <2>1 DEF db, PausedStepIsHost, EndedStaysPut
  <2>2. ASSUME NEW c \in CommandId, AtomicAppend(c) PROVE PausedStepIsHost /\ EndedStaysPut
    <3>1. Mode[c] \in ResolutionMode /\ session.stateVersion \in Nat
      BY CommandAssumption DEF TypeOK, SessionRow
    <3>2. result[c] = NoAck /\ result'[c] # NoAck
      BY <2>2, AckTypes DEF AtomicAppend, TypeOK, SessionRow, VersionOf
    <3>3. PausedStepIsHost
      <4>1. SUFFICES ASSUME session.status = "PAUSED", ~Mutating(c) \/ Mode[c] = "mutation"
                     PROVE  session'.stateVersion = session.stateVersion
        BY <3>1, <3>2 DEF PausedStepIsHost, Mutating, ResolutionMode
      <4> QED
        BY <2>2, <3>1, <4>1
           DEF AtomicAppend, VersionOf, RefusedAsPaused, AcceptsMutations, Mutating
    <3>4. EndedStaysPut
      <4>1. SUFFICES ASSUME session.status = "SESSION_ENDED"
                     PROVE  Target[c] = NoMove /\ ~Mutating(c)
        BY <2>2, <3>1 DEF EndedStaysPut, AtomicAppend, StatusAfter, VersionOf
      <4>2. Target[c] = NoMove
        BY <2>2, <4>1 DEF AtomicAppend, LegalMove, CanTransition, TRANSITIONS
      <4>3. Mode[c] # "mutation" /\ Mode[c] # "host"
        BY <2>2, <4>1, <4>2, CommandAssumption
           DEF AtomicAppend, RefusedAsPaused, AcceptsMutations
      <4> QED
        BY <3>1, <4>2, <4>3 DEF Mutating, ResolutionMode
    <3> QED
      BY <3>3, <3>4
  <2> QED
    BY <2>1, <2>2, StepsAppend
<1> QED
  BY <1>1, TypeCorrect, LockDiscipline, TransactionsAreCurrent, PTL DEF Spec, PauseAndEndHold

-----------------------------------------------------------------------------
(***************************************************************************)
(* Refinement: the transactions implement the atomic session.              *)
(***************************************************************************)
Entry(e) == [command |-> e.command, version |-> e.version]

\* LogView at i is the entry of the one event with sequence i.
LEMMA LogViewAt ==
  ASSUME LogContiguous, NEW e \in events, e.sequence \in 1..(session.nextSequence - 1)
  PROVE  LogView[e.sequence] = Entry(e)
BY DEF LogView, LogContiguous, Entry

\* Concatenation, element by element.
LEMMA ConcatAt ==
  ASSUME NEW S, NEW a \in Seq(S), NEW b \in Seq(S)
  PROVE  a \o b = [i \in 1..(Len(a) + Len(b)) |-> IF i <= Len(a) THEN a[i] ELSE b[i - Len(a)]]
<1>1. /\ a \o b \in Seq(S) /\ Len(a \o b) = Len(a) + Len(b)
      /\ \A i \in 1..(Len(a) + Len(b)) :
           (a \o b)[i] = IF i <= Len(a) THEN a[i] ELSE b[i - Len(a)]
  BY ConcatProperties
<1>2. a \o b \in [1..Len(a \o b) -> S]
  BY <1>1, LenProperties
<1> QED
  BY <1>1, <1>2

\* The operators the atomic session takes from SessionCommands are these ones.
LEMMA SameOperators ==
  ASSUME NEW c \in CommandId
  PROVE  /\ Atomic!Version(c) = VersionOf(c)
         /\ Atomic!NoAck = NoAck /\ Atomic!NotPaused = NotPaused
         /\ \A first, version : Atomic!AckFor(c, first, version) = AckFor(c, first, version)
         /\ \A s : Atomic!RefusedAsPaused(c, s) <=> RefusedAsPaused(c, s)
         /\ \A s, p : /\ Atomic!LegalMove(c, s, p) <=> LegalMove(c, s, p)
                      /\ Atomic!StatusAfter(c, s, p) = StatusAfter(c, s, p)
                      /\ Atomic!PausedFromAfter(c, s, p) = PausedFromAfter(c, s, p)
<1> USE DEF Atomic!Mutating, Mutating, Atomic!NotPaused, NotPaused, Atomic!Destination,
            Destination, Atomic!NoMove, NoMove, Atomic!Interrupted, Interrupted
<1>1. Atomic!Version(c) = VersionOf(c)
  BY DEF Atomic!Version, VersionOf
<1>2. Atomic!NoAck = NoAck /\ Atomic!NotPaused = NotPaused
  BY DEF Atomic!NoAck, NoAck
<1>3. \A first, version : Atomic!AckFor(c, first, version) = AckFor(c, first, version)
  BY DEF Atomic!AckFor, AckFor
<1>4. \A s : Atomic!RefusedAsPaused(c, s) <=> RefusedAsPaused(c, s)
  BY DEF Atomic!RefusedAsPaused, RefusedAsPaused, Atomic!AcceptsMutations, AcceptsMutations
<1>5. \A s, p : Atomic!LegalMove(c, s, p) <=> LegalMove(c, s, p)
  BY DEF Atomic!LegalMove, LegalMove, Atomic!CanTransition, CanTransition,
         Atomic!TRANSITIONS, TRANSITIONS
<1>6. \A s, p : Atomic!StatusAfter(c, s, p) = StatusAfter(c, s, p)
  BY DEF Atomic!StatusAfter, StatusAfter
<1>7. \A s, p : Atomic!PausedFromAfter(c, s, p) = PausedFromAfter(c, s, p)
  BY DEF Atomic!PausedFromAfter, PausedFromAfter
<1> QED
  BY <1>1, <1>2, <1>3, <1>4, <1>5, <1>6, <1>7

\* An append of c's batch to the table extends the view by c's batch.
LEMMA ViewOfAppend ==
  ASSUME TypeOK, LogContiguous, LogContiguous', NEW c \in CommandId, AtomicAppend(c)
  PROVE  /\ LogView' = LogView \o Atomic!Batch(c)
         /\ Len(LogView) + 1 = session.nextSequence
<1> DEFINE n == session.nextSequence
           k == Drafts[c]
           Old == 1..(n - 1)
           All == 1..(n + k - 1)
           Row(o) == [sequence |-> n + o, command |-> c, version |-> VersionOf(c)]
           New == [command |-> c, version |-> VersionOf(c)]
<1>1. n \in Nat \ {0} /\ k \in Nat /\ session'.nextSequence = n + k
  BY CommandAssumption DEF TypeOK, SessionRow, AtomicAppend
<1>2. events' = events \cup BatchOf(c)
  BY DEF AtomicAppend
<1>3. \A o \in 0..(k - 1) : Row(o) \in BatchOf(c)
  BY DEF BatchOf
<1>4. Atomic!Batch(c) = [i \in 1..k |-> New]
  BY SameOperators DEF Atomic!Batch
<1>5. LogView = [i \in Old |-> LogView[i]] /\ DOMAIN LogView = Old
  BY DEF LogView
<1> DEFINE Entries == {LogView[i] : i \in Old} \cup {New}
<1>6. LogView \in Seq(Entries) /\ Len(LogView) = n - 1
  <2>1. LogView \in [Old -> Entries]
    BY <1>5
  <2> HIDE DEF n, Entries
  <2> QED
    BY <1>1, <2>1
<1>7. Atomic!Batch(c) \in Seq(Entries) /\ Len(Atomic!Batch(c)) = k
  BY <1>1, <1>4
<1>8. LogView' = [i \in All |-> LogView'[i]] /\ DOMAIN LogView' = All
  BY <1>1 DEF LogView
<1>9. ASSUME NEW i \in All
      PROVE  LogView'[i] = IF i <= n - 1 THEN LogView[i] ELSE New
  <2>1. CASE i \in Old
    <3>1. PICK e \in events : e.sequence = i
      BY <2>1 DEF LogContiguous
    <3>2. LogView[i] = Entry(e)
      BY <2>1, <3>1, LogViewAt
    <3>3. LogView'[i] = Entry(e)
      <4>1. e \in events' /\ e.sequence \in 1..(session'.nextSequence - 1)
        BY <1>1, <1>2, <3>1
      <4> QED
        BY <3>1, <4>1 DEF LogView, LogContiguous, Entry
    <3> QED
      BY <1>1, <2>1, <3>2, <3>3
  <2>2. CASE i \notin Old
    <3> DEFINE e == Row(i - n)
    <3>1. i - n \in 0..(k - 1) /\ e.sequence = i /\ ~(i <= n - 1)
      BY <1>1, <2>2
    <3>2. e \in events' /\ i \in 1..(session'.nextSequence - 1)
      BY <1>1, <1>2, <1>3, <3>1
    <3>3. LogView'[i] = Entry(e)
      <4> HIDE DEF e
      <4> QED
        BY <3>1, <3>2 DEF LogView, LogContiguous, Entry
    <3> QED
      BY <3>1, <3>3 DEF Entry
  <2> QED
    BY <2>1, <2>2
<1>10. LogView \o Atomic!Batch(c)
         = [i \in All |-> IF i <= n - 1 THEN LogView[i] ELSE New]
  <2> DEFINE a == LogView
             b == Atomic!Batch(c)
  <2>1. a \o b = [i \in 1..(Len(a) + Len(b)) |->
                    IF i <= Len(a) THEN a[i] ELSE b[i - Len(a)]]
    BY <1>6, <1>7, ConcatAt
  <2>2. \A i \in All : ~(i <= n - 1) => b[i - (n - 1)] = New
    BY <1>1, <1>4
  <2> HIDE DEF a, b
  <2> QED
    BY <1>1, <1>6, <1>7, <2>1, <2>2 DEF a, b
<1> HIDE DEF n, k, New, All, Old
<1> QED
  BY <1>1, <1>6, <1>8, <1>9, <1>10 DEF n

\* Any interleaving of calls, retries, failures and crashes looks to the rest
\* of the program like commands executed one at a time, each at most once.
THEOREM TransactionsImplementAtomicSession == Spec => ImplementsAtomicSession
<1>1. Init => Atomic!Init
  <2> SUFFICES ASSUME Init PROVE Atomic!Init
    OBVIOUS
  <2>1. LogView = <<>>
    BY DEF Init, LogView
  <2> QED
    BY <2>1 DEF Init, Atomic!Init, Atomic!NotPaused, NotPaused, Atomic!NoAck, NoAck
<1>2. /\ TypeOK /\ LockInv /\ CurrentInv /\ LogContiguous /\ LogContiguous'
      /\ [Next]_vars
      => [Atomic!Next]_(Atomic!vars)
  <2> SUFFICES ASSUME TypeOK, LockInv, CurrentInv, LogContiguous, LogContiguous', [Next]_vars
               PROVE  [Atomic!Next]_(Atomic!vars)
    OBVIOUS
  <2>1. CASE UNCHANGED db
    BY <2>1 DEF db, Atomic!vars, LogView
  <2>2. ASSUME NEW c \in CommandId, AtomicAppend(c) PROVE Atomic!Execute(c)
    <3>2. LogView' = LogView \o Atomic!Batch(c) /\ Len(LogView) + 1 = session.nextSequence
      BY <2>2, ViewOfAppend
    <3> QED
      BY <2>2, <3>2, SameOperators DEF AtomicAppend, Atomic!Execute
  <2> QED
    BY <2>1, <2>2, StepsAppend DEF Atomic!Next
<1> QED
  BY <1>1, <1>2, TypeCorrect, LockDiscipline, TransactionsAreCurrent, NoGaps, PTL
     DEF Spec, ImplementsAtomicSession, Atomic!Spec

\* The log has no gap, its versions count the mutations and follow its order:
\* allocate, under the row lock, gives every batch both its numbers.
THEOREM LogsAreConsistent == Spec => []LogIsConsistent
BY NoGaps, VersionsCountMutations, VersionsNeverDecrease, PTL DEF LogIsConsistent

\* What runCommand stores is what the log says, and what every duplicate is told.
THEOREM AnswersSayWhatHappened == Spec => []AnswersAreTrue
BY AnswersDescribeLog, DuplicatesAgree, PTL DEF AnswersAreTrue

=============================================================================
