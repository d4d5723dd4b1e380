--------------------------- MODULE SessionGateway ---------------------------
(***************************************************************************)
(* The commands of SessionGateway at one table, as far as they move the    *)
(* session row or the pending actions or wake the DM. runCommand takes     *)
(* effect in one step (SessionService implements AtomicSession), so each   *)
(* handler is one action; the calls its publish makes into the             *)
(* orchestrator are appended to tasks, where DmOrchestrator runs them.     *)
(***************************************************************************)
EXTENDS SessionStates, Integers, Sequences

CONSTANTS
  Character,   \* the campaign's roster
  Forged,      \* an id no character of the campaign has
  Registry,    \* the enabled trigger definitions
  MaxActions,  \* bound: pending actions ever opened
  MaxTasks     \* bound: calls of the orchestrator

TriggerId == {"dm_mention", "host_turn", "pending_action_completed"}

ASSUME GatewayAssumption ==
  /\ Registry \subseteq TriggerId
  /\ MaxActions \in Nat
  /\ MaxTasks \in Nat

VARIABLES
  status,      \* sessions.status
  pausedFrom,  \* sessions.paused_from
  actions,     \* the pending_actions rows, oldest first
  tasks        \* the orchestrator's calls: what for, and how far it has come

sessionRow == <<status, pausedFrom>>

\* An action the host asked for has no graph parked behind it.
NoThread == 0

GatewayInit ==
  /\ status = "WAITING_FOR_PLAYERS"
  /\ pausedFrom = NotPaused
  /\ actions = <<>>
  /\ tasks = <<>>

\* setStatus: assertTransition, then both columns.
SetStatus(to, interrupted) ==
  /\ CanTransition(status, to)
  /\ status' = to
  /\ pausedFrom' = interrupted

\* INSERT INTO pending_actions.
OpenAction(thread, authorized) ==
  /\ Len(actions) < MaxActions
  /\ actions' = Append(actions, [open |-> TRUE, thread |-> thread, authorized |-> authorized])

\* publish: onTriggered for a DM_TRIGGERED event, onSessionEnded for the end.
Call(kind, action) ==
  /\ Len(tasks) < MaxTasks
  /\ tasks' = Append(tasks, [kind |-> kind, action |-> action, pc |-> "triggered"])

\* A message the router matches to a trigger. One it does not match is chat.
SendMessage ==
  /\ "dm_mention" \in Registry
  /\ AcceptsMutations(status)
  /\ Call("start", 0)
  /\ UNCHANGED <<sessionRow, actions>>

OpenFor(character) ==
  {a \in DOMAIN actions : actions[a].open /\ character \in actions[a].authorized}

Completed(closed) ==
  [a \in DOMAIN actions |->
     IF a \in closed THEN [actions[a] EXCEPT !.open = FALSE] ELSE actions[a]]

\* A roll closes every open action its character is authorized for; the first
\* row the UPDATE returns, whichever it is, is the one reported and resumed. A
\* roll that closes nothing changes none of this.
RollDice(character) ==
  LET closed == OpenFor(character) IN
  /\ AcceptsMutations(status)
  /\ closed # {}
  /\ actions' = Completed(closed)
  /\ IF "pending_action_completed" \in Registry
     THEN \E first \in closed : Call("resume", first)
     ELSE UNCHANGED tasks
  /\ IF status = "WAITING_FOR_ROLL" THEN SetStatus("WAITING_FOR_PLAYERS", NotPaused)
     ELSE UNCHANGED sessionRow

\* Mutant: the ids are taken as the client sent them.
RequestRoll_Unchecked(ids) ==
  /\ ids # {}
  /\ AcceptsMutations(status)
  /\ SetStatus("WAITING_FOR_ROLL", NotPaused)
  /\ OpenAction(NoThread, ids)
  /\ UNCHANGED tasks

\* The host's request: every id is checked against the roster first.
RequestRoll(ids) ==
  /\ ids # {}
  /\ ids \subseteq Character
  /\ AcceptsMutations(status)
  /\ SetStatus("WAITING_FOR_ROLL", NotPaused)
  /\ OpenAction(NoThread, ids)
  /\ UNCHANGED tasks

\* HOST_CONTROL. All but FORCE_DM_TURN run in host mode, past the pause.
Pause ==
  /\ SetStatus("PAUSED", status)
  /\ UNCHANGED <<actions, tasks>>

Resume ==
  /\ SetStatus(IF pausedFrom = NotPaused THEN "WAITING_FOR_PLAYERS" ELSE pausedFrom, NotPaused)
  /\ UNCHANGED <<actions, tasks>>

End ==
  /\ SetStatus("SESSION_ENDED", NotPaused)
  /\ Call("ended", 0)
  /\ UNCHANGED actions

ForceDmTurn ==
  /\ "host_turn" \in Registry
  /\ AcceptsMutations(status)
  /\ Call("start", 0)
  /\ UNCHANGED <<sessionRow, actions>>

GatewayNext ==
  \/ SendMessage
  \/ \E character \in Character : RollDice(character)
  \/ \E ids \in SUBSET (Character \cup {Forged}) : RequestRoll(ids)
  \/ Pause \/ Resume \/ End \/ ForceDmTurn

=============================================================================
