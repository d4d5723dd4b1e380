--------------------------- MODULE SessionStates ---------------------------
(***************************************************************************)
(* The session state machine: the transition table of                      *)
(* packages/contracts/src/session-state.ts and the two questions the rest  *)
(* of the program asks of a status.                                        *)
(***************************************************************************)

Status == {"WAITING_FOR_PLAYERS", "DM_GENERATING", "WAITING_FOR_ROLL",
           "PAUSED", "SESSION_ENDED"}

\* Mutant: a generating turn may be paused.
TRANSITIONS_PausesTurns ==
  ({"WAITING_FOR_PLAYERS"} \X {"DM_GENERATING", "WAITING_FOR_ROLL", "PAUSED", "SESSION_ENDED"})
    \cup ({"DM_GENERATING"} \X
            {"WAITING_FOR_PLAYERS", "WAITING_FOR_ROLL", "PAUSED", "SESSION_ENDED"})
    \cup ({"WAITING_FOR_ROLL"} \X
            {"DM_GENERATING", "WAITING_FOR_PLAYERS", "PAUSED", "SESSION_ENDED"})
    \cup ({"PAUSED"} \X {"WAITING_FOR_PLAYERS", "WAITING_FOR_ROLL", "SESSION_ENDED"})

\* The edges of the table. SESSION_ENDED is the source of none of them.
TRANSITIONS ==
  ({"WAITING_FOR_PLAYERS"} \X {"DM_GENERATING", "WAITING_FOR_ROLL", "PAUSED", "SESSION_ENDED"})
    \cup ({"DM_GENERATING"} \X {"WAITING_FOR_PLAYERS", "WAITING_FOR_ROLL", "SESSION_ENDED"})
    \cup ({"WAITING_FOR_ROLL"} \X
            {"DM_GENERATING", "WAITING_FOR_PLAYERS", "PAUSED", "SESSION_ENDED"})
    \cup ({"PAUSED"} \X {"WAITING_FOR_PLAYERS", "WAITING_FOR_ROLL", "SESSION_ENDED"})

CanTransition(from, to) == <<from, to>> \in TRANSITIONS

\* Mutant: only a pause refuses mutations, the end of the session does not.
AcceptsMutations_AfterEnd(status) == status # "PAUSED"

\* Chat stays live in the two statuses that refuse mutations.
AcceptsMutations(status) == status \notin {"PAUSED", "SESSION_ENDED"}

\* The paused_from column of a session that is not paused.
NotPaused == "none"

=============================================================================
