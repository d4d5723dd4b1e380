--------------------------- MODULE AtomicSession ---------------------------
(***************************************************************************)
(* What SessionService promises the rest of the program: each command      *)
(* takes effect at most once and in one step. The step appends the         *)
(* command's events at the end of the log, moves the session row and       *)
(* stores the answer that every retry of the command will be given.        *)
(* SessionService implements this with one database transaction per call.  *)
(***************************************************************************)
EXTENDS SessionCommands, Sequences

VARIABLES
  status, pausedFrom, stateVersion,   \* the session row
  log,                                \* the session's events, by sequence
  acks                                \* the stored answer of each command

vars == <<status, pausedFrom, stateVersion, log, acks>>

\* A new session, as SessionService.create leaves it.
Init ==
  /\ status = "WAITING_FOR_PLAYERS"
  /\ pausedFrom = NotPaused
  /\ stateVersion = 0
  /\ log = <<>>
  /\ acks = [c \in CommandId |-> NoAck]

Version(c) == stateVersion + (IF Mutating(c) THEN 1 ELSE 0)

Batch(c) == [i \in 1..Drafts[c] |-> [command |-> c, version |-> Version(c)]]

\* The one transaction of a command. A command that has an answer is a replay
\* and changes nothing; a refused or illegal one changes nothing either.
Execute(c) ==
  /\ acks[c] = NoAck
  /\ ~RefusedAsPaused(c, status)
  /\ LegalMove(c, status, pausedFrom)
  /\ status' = StatusAfter(c, status, pausedFrom)
  /\ pausedFrom' = PausedFromAfter(c, status, pausedFrom)
  /\ stateVersion' = Version(c)
  /\ log' = log \o Batch(c)
  /\ acks' = [acks EXCEPT ![c] = AckFor(c, Len(log) + 1, Version(c))]

Next == \E c \in CommandId : Execute(c)

Spec == Init /\ [][Next]_vars

=============================================================================
