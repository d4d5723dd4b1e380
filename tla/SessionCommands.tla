-------------------------- MODULE SessionCommands --------------------------
(***************************************************************************)
(* What one command asks of a session row, as SessionService.runCommand    *)
(* sees it: its mode, how many events it drafts and which status it sets.  *)
(* Everything else a handler does (who may send the command, what the      *)
(* drafts say) happens before or inside its callbacks and is the business  *)
(* of the modules that model the handlers.                                 *)
(***************************************************************************)
EXTENDS Integers, SessionStates

CONSTANTS
  CommandId,  \* the primary keys of the commands table
  Mode,       \* the ResolutionMode each command is run in
  Drafts,     \* how many events its produce callback returns
  Target      \* the status its afterAppend sets, or one of the two below

NoMove == "no move"            \* the command leaves the status alone
Interrupted == "interrupted"   \* RESUME: back to what the pause interrupted

ResolutionMode == {"chat", "mutation", "host"}

ASSUME CommandAssumption ==
  /\ Mode \in [CommandId -> ResolutionMode]
  /\ Drafts \in [CommandId -> Nat]
  /\ Target \in [CommandId -> Status \cup {NoMove, Interrupted}]
  /\ \A c \in CommandId : Mode[c] = "chat" => Target[c] = NoMove
  /\ \A c \in CommandId : Mode[c] = "host" => Target[c] # NoMove

\* Everything but table talk takes the lock, checks and bumps the version.
Mutating(c) == Mode[c] # "chat"

\* An answer stored in commands.result. Sequences start at 1, so the answer
\* with sequence 0 stands for a command that has none.
Ack == [sequence : Nat, version : Nat]
NoAck == [sequence |-> 0, version |-> 0]

\* firstSequence + max(drafts - 1, 0): the last event, or the next free place.
AckFor(c, first, version) ==
  [sequence |-> first + (IF Drafts[c] = 0 THEN 0 ELSE Drafts[c] - 1), version |-> version]

\* Where the command's setStatus goes from this row.
Destination(c, status, pausedFrom) ==
  IF Target[c] # Interrupted THEN Target[c]
  ELSE IF pausedFrom = NotPaused THEN "WAITING_FOR_PLAYERS" ELSE pausedFrom

\* The refusal of runCommand: host controls skip it, chat never meets it.
RefusedAsPaused(c, status) == Mode[c] = "mutation" /\ ~AcceptsMutations(status)

\* assertTransition, for the commands that move the session at all.
LegalMove(c, status, pausedFrom) ==
  Target[c] # NoMove => CanTransition(status, Destination(c, status, pausedFrom))

StatusAfter(c, status, pausedFrom) ==
  IF Target[c] = NoMove THEN status ELSE Destination(c, status, pausedFrom)

\* setStatus rewrites paused_from on every move; only PAUSE passes a status.
PausedFromAfter(c, status, pausedFrom) ==
  CASE Target[c] = NoMove   -> pausedFrom
    [] Target[c] = "PAUSED" -> status
    [] OTHER                -> NotPaused

=============================================================================
